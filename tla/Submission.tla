----------------------------- MODULE Submission -----------------------------
(***************************************************************************)
(* Submitting one immutable intent from several tabs (submitOperation),    *)
(* and the observers of the tabs that resolve its operations               *)
(* (TransactionObserver, resumeJournalEntry), over the browser journal.    *)
(* The wallet answers when it likes, or never; a tab may be reloaded at    *)
(* any time; transactions are included, reverted, replaced and reorganised *)
(* away.                                                                   *)
(*                                                                         *)
(* Web Locks hold across tabs: one submission of the intent at a time and  *)
(* one verification of an operation.  Finality and what verification says  *)
(* about its own availability change no decision here, so they are left    *)
(* out with the second update of a funding, which records the projection.  *)
(***************************************************************************)
EXTENDS BrowserJournal

CONSTANTS
    MaxChecks,     \* bound: verifications
    MaxMishaps,    \* bound: reloads of tabs and inclusions undone
    OwnCandidates  \* whether users supply only hashes of the operation's own request

ASSUME SubmissionAssumption ==
    MaxChecks \in Nat /\ MaxMishaps \in Nat /\ OwnCandidates \in BOOLEAN

VARIABLES
    submit, \* the submission that holds the intent's lock
    check,  \* the verification that holds an operation's lock, or waits for it
    wallet, \* the wallet requests
    tx,     \* the transactions on the chain
    failed, \* operations whose transaction was once reverted or replaced
    begun,  \* operations so far
    checks, mishaps  \* what is bounded

chainVars == <<tx, failed>>
vars == <<journal, submit, check, wallet, chainVars, begun, checks, mishaps>>

NoSubmit == [pc |-> "idle", tab |-> Null, op |-> 0, entry |-> Null, waiting |-> FALSE, tries |-> 0]
NoCheck == [pc |-> "idle", tab |-> Null, hash |-> NoHash, id |-> 0, entry |-> Null,
            retry |-> FALSE, then |-> "idle"]

Init ==
    /\ JournalInit
    /\ submit = NoSubmit /\ check = [o \in Ops |-> NoCheck]
    /\ wallet = [o \in Ops |-> "none"] /\ tx = [o \in Ops |-> "none"] /\ failed = {}
    /\ begun = 0 /\ checks = 0 /\ mishaps = 0

-----------------------------------------------------------------------------
(* submitOperation, up to the wallet.                                      *)

Preparing == [revision |-> 0, status |-> "PREPARING", hash |-> NoHash, request |-> 0,
              outcome |-> Null, asked |-> FALSE]

\* Fault: a request whose answer was lost is taken for a failed one.
OwnsUnlessUnknown(entry) ==
    entry.status \in {"PREPARING", "AWAITING_WALLET", "SUBMITTED", "INCLUDED_SUCCESS", "ORPHANED"}

\* attemptStillOwnsIntent.
Owns(entry) ==
    entry.status \in {"PREPARING", "AWAITING_WALLET", "SUBMITTED", "UNKNOWN",
                      "INCLUDED_SUCCESS", "ORPHANED"}

Unresolved(t) == \E o \in Ops : Load(t, o) # Null /\ Owns(Load(t, o))

Elsewhere == <<check, wallet, chainVars, begun, checks, mishaps>>

\* A save of `entry` begins: when nothing is in memory it waits for the lock.
Hold(pc, entry) ==
    submit' = IF pc = "idle" THEN NoSubmit
              ELSE [submit EXCEPT !.pc = pc, !.entry = entry,
                                  !.waiting = ~ InMemory(submit.tab, submit.op)]
Ends == submit' = NoSubmit

Start(t) ==
    /\ submit = NoSubmit /\ ~ Unresolved(t) /\ begun < MaxOps
    /\ begun' = begun + 1
    /\ submit' = [NoSubmit EXCEPT !.pc = "create", !.tab = t, !.op = begun + 1,
                                  !.entry = Preparing, !.waiting = TRUE]
    /\ UNCHANGED <<journal, check, wallet, chainVars, checks, mishaps>>

\* What was in memory has gone to storage since: the save waits there.
Requeue ==
    /\ submit.pc \in {"create", "await", "refuse", "hash", "outcome"} /\ ~ submit.waiting
    /\ ~ InMemory(submit.tab, submit.op)
    /\ submit' = [submit EXCEPT !.waiting = TRUE]
    /\ UNCHANGED <<journal, Elsewhere>>

\* A save before the wallet: gone on with when it is stored, else thrown.
SaveOrThrow(pc, next) ==
    /\ submit.pc = pc /\ UNCHANGED Elsewhere
    /\ LET t == submit.tab  o == submit.op  entry == submit.entry IN
       \/ /\ submit.waiting /\ UNCHANGED volatile
          /\ \E result \in {"stored", "conflict", "unavailable"} :
                /\ SaveInStorage(t, o, entry, result)
                /\ IF result = "stored" THEN Hold(next, Advanced(entry, entry.revision)) ELSE Ends
       \/ /\ ~ submit.waiting /\ InMemory(t, o)
          /\ \/ SaveInMemory(t, o, entry) /\ Hold(next, Advanced(entry, entry.revision))
             \/ entry.revision # Load(t, o).revision /\ Ends /\ UNCHANGED journal

Create == SaveOrThrow("create", "simulate")

Refusal(entry) == Hold("refuse", [entry EXCEPT !.status = "FAILED_BEFORE_SUBMIT"])

\* The simulation and the context allow the request, or they do not.
Simulate ==
    /\ submit.pc = "simulate"
    /\ \/ Refusal(submit.entry)
       \/ Hold("await", [submit.entry EXCEPT !.status = "AWAITING_WALLET", !.asked = TRUE])
    /\ UNCHANGED <<journal, Elsewhere>>

SaveAwaiting == SaveOrThrow("await", "verify")

\* The context is checked again, and the environments; then the wallet is asked.
Verify ==
    /\ submit.pc = "verify"
    /\ \/ Refusal(submit.entry) /\ UNCHANGED wallet
       \/ /\ submit' = [submit EXCEPT !.pc = "wallet"]
          /\ wallet' = [wallet EXCEPT ![submit.op] = "open"]
    /\ UNCHANGED <<journal, check, chainVars, begun, checks, mishaps>>

SaveRefusal == SaveOrThrow("refuse", "idle")

-----------------------------------------------------------------------------
(* The wallet's answer, whether or not the page is still there for it.     *)

\* Fault: the outcome of the request is also the operation's.
MergedAlways(entry, outcome) ==
    [entry EXCEPT !.outcome = outcome, !.status = outcome]

\* mergeWalletOutcome: evidence of a transaction outranks it.
Merged(entry, outcome) ==
    [entry EXCEPT !.outcome = outcome, !.status = IF entry.hash # NoHash THEN @ ELSE outcome]

Waits(o) == submit.pc = "wallet" /\ submit.op = o

\* To a page that waits the answer comes as what it will save next.
Answers(o, answer, pc, entry) ==
    /\ wallet[o] = "open" /\ wallet' = [wallet EXCEPT ![o] = answer]
    /\ IF Waits(o) THEN Hold(pc, entry) ELSE UNCHANGED submit
    /\ UNCHANGED <<journal, check, failed, begun, checks, mishaps>>

Returned(o) == [submit.entry EXCEPT !.status = "SUBMITTED", !.hash = o]

Approve(o) ==
    /\ Answers(o, "approved", "hash", Returned(o))
    /\ tx' = [tx EXCEPT ![o] = "pending"]

Reject(o) ==
    /\ Answers(o, "rejected", "outcome", Merged(submit.entry, "REJECTED"))
    /\ UNCHANGED tx

\* The request ends in an error, and a transaction may have been sent or not.
LoseAnswer(o) ==
    /\ Waits(o) /\ Answers(o, "lost", "outcome", Merged(submit.entry, "UNKNOWN"))
    /\ \E state \in {"none", "pending"} : tx' = [tx EXCEPT ![o] = state]

-----------------------------------------------------------------------------
(* submitOperation, after the wallet.                                      *)

\* persistReturnedHash meets a newer entry.  One that has a hash is left alone
\* if it is the one returned; if it is another, such as that of a replacement,
\* this is an error and the hash returned is kept in memory.
MergeHash ==
    LET t == submit.tab  o == submit.op  now == Load(t, o)
        merged == [now EXCEPT !.status = "SUBMITTED", !.hash = o, !.request = 0] IN
    \/ now.hash = o /\ Hold("nonce", Null) /\ UNCHANGED volatile
    \/ now.hash # NoHash /\ volatile' = Overlaid(t, o, submit.entry) /\ Ends
    \/ /\ now.hash = NoHash
       /\ IF InMemory(t, o)
          THEN volatile' = Overlaid(t, o, merged) /\ Hold("nonce", Null)
          ELSE UNCHANGED volatile /\ Hold("hashAgain", merged)

SaveHash ==
    /\ submit.pc = "hash" /\ UNCHANGED Elsewhere
    /\ LET t == submit.tab  o == submit.op  entry == submit.entry IN
       \/ /\ submit.waiting
          /\ \/ SaveInStorage(t, o, entry, "stored") /\ UNCHANGED volatile /\ Hold("nonce", Null)
             \/ SaveInStorage(t, o, entry, "conflict") /\ MergeHash
             \/ /\ SaveInStorage(t, o, entry, "unavailable")
                /\ volatile' = Overlaid(t, o, entry) /\ Ends
       \/ /\ ~ submit.waiting /\ InMemory(t, o)
          /\ \/ SaveInMemory(t, o, entry) /\ Hold("nonce", Null)
             \/ /\ entry.revision # Load(t, o).revision
                /\ MergeHash /\ UNCHANGED <<durable, issues>>

\* The second attempt is the last; what it could not store is kept as returned.
SaveHashAgain ==
    /\ submit.pc = "hashAgain" /\ UNCHANGED Elsewhere
    /\ LET t == submit.tab  o == submit.op  entry == submit.entry
           returned == [entry EXCEPT !.revision = 2, !.outcome = Null, !.asked = TRUE] IN
       \/ SaveInStorage(t, o, entry, "stored") /\ UNCHANGED volatile /\ Hold("nonce", Null)
       \/ /\ \E result \in {"conflict", "unavailable"} : SaveInStorage(t, o, entry, result)
          /\ volatile' = Overlaid(t, o, returned) /\ Ends

\* The nonce is added to the latest entry, if it can be read and stored.
ReadNonce ==
    /\ submit.pc = "nonce" /\ UNCHANGED Elsewhere
    /\ LET t == submit.tab  o == submit.op IN
       \/ Ends /\ UNCHANGED journal
       \/ InMemory(t, o) /\ SaveInMemory(t, o, Load(t, o)) /\ Ends
       \/ ~ InMemory(t, o) /\ Hold("saveNonce", Load(t, o)) /\ UNCHANGED journal

SaveNonce ==
    /\ submit.pc = "saveNonce" /\ Ends
    /\ \E result \in {"stored", "conflict", "unavailable"} :
          SaveInStorage(submit.tab, submit.op, submit.entry, result)
    /\ UNCHANGED <<volatile, Elsewhere>>

\* persistWalletOutcome: merged into the latest entry of the same request, in
\* memory after three attempts; into no other.
SaveOutcome ==
    /\ submit.pc = "outcome" /\ UNCHANGED Elsewhere
    /\ LET t == submit.tab  o == submit.op  entry == submit.entry  now == Load(t, o)
           latest == IF now.asked THEN Merged(now, entry.outcome) ELSE entry IN
       \/ /\ submit.waiting
          /\ \/ SaveInStorage(t, o, entry, "stored") /\ UNCHANGED volatile /\ Ends
             \/ /\ SaveInStorage(t, o, entry, "unavailable")
                /\ volatile' = Overlaid(t, o, latest) /\ Ends
             \/ /\ SaveInStorage(t, o, entry, "conflict")
                /\ CASE ~ now.asked -> UNCHANGED volatile /\ Ends
                     [] now.asked /\ (InMemory(t, o) \/ submit.tries = 2) ->
                           volatile' = Overlaid(t, o, latest) /\ Ends
                     [] OTHER ->
                           /\ submit' = [submit EXCEPT !.entry = latest, !.tries = @ + 1]
                           /\ UNCHANGED volatile
       \/ /\ ~ submit.waiting /\ InMemory(t, o) /\ Ends
          /\ \/ SaveInMemory(t, o, entry)
             \/ /\ entry.revision # now.revision
                /\ volatile' = IF now.asked THEN Overlaid(t, o, latest) ELSE volatile
                /\ UNCHANGED <<durable, issues>>

Submit ==
    \/ \E t \in Tabs : Start(t)
    \/ Requeue \/ Create \/ Simulate \/ SaveAwaiting \/ Verify \/ SaveRefusal
    \/ SaveHash \/ SaveHashAgain \/ ReadNonce \/ SaveNonce \/ SaveOutcome

-----------------------------------------------------------------------------
(* resumeJournalEntry, chosen by an observer or a user and begun when the  *)
(* operation's lock is free.                                               *)

Sideways == <<submit, wallet, chainVars, begun, mishaps>>

\* update: in memory at once, or in storage, where a tab that could not write
\* before tries to bring its own evidence.
Update(o, process, entry, then) ==
    LET t == process.tab IN
    IF InMemory(t, o) /\ issues[t] = {}
    THEN /\ volatile' = Overlaid(t, o, entry) /\ UNCHANGED <<durable, issues>>
         /\ check' = [check EXCEPT ![o] = IF then = "idle" THEN NoCheck
                                          ELSE [process EXCEPT !.pc = then]]
    ELSE /\ check' = [check EXCEPT ![o] = [process EXCEPT !.pc = "write", !.entry = entry,
                                              !.retry = InMemory(t, o), !.then = then]]
         /\ UNCHANGED journal

Supplied(o) == {h \in Ops : tx[h] # "none" /\ (OwnCandidates => h = o)}

\* What an observer polls, and what a user rechecks with or without a hash.
Select(t, o) ==
    /\ check[o].pc = "idle" /\ checks < MaxChecks
    /\ Load(t, o) # Null /\ Load(t, o).status \notin {"REJECTED", "FAILED_BEFORE_SUBMIT"}
    /\ \E h \in Supplied(o) \cup {NoHash} :
          check' = [check EXCEPT ![o] = [NoCheck EXCEPT !.pc = "selected", !.tab = t, !.hash = h,
                                                        !.id = checks + 1]]
    /\ checks' = checks + 1
    /\ UNCHANGED <<journal, Sideways>>

\* The entry is read again; without a hash it is UNKNOWN, whatever it was.
Begin(o) ==
    /\ check[o].pc = "selected"
    /\ LET process == check[o]
           now == Load(process.tab, o)
           h == IF process.hash # NoHash THEN process.hash ELSE now.hash IN
       IF h = NoHash
       THEN Update(o, process, [now EXCEPT !.status = "UNKNOWN"], "idle")
       ELSE Update(o, [process EXCEPT !.hash = h], [now EXCEPT !.request = process.id], "inspect")
    /\ UNCHANGED <<checks, Sideways>>

\* inspectTransaction: what the chain may show, and what is recorded of it: the
\* hash asked about, or that of a replacement, which has the same name.
Shown(h) ==
    {"nothing"} \cup
    CASE tx[h] = "pending" -> {"SUBMITTED"}
      [] tx[h] = "success" -> {"INCLUDED_SUCCESS"}
      [] tx[h] = "reverted" -> {"INCLUDED_REVERTED"}
      [] tx[h] = "replaced" -> {"REPLACED_OR_CANCELLED"}
      [] tx[h] = "orphaned" -> {"SUBMITTED", "ORPHANED"}
      [] OTHER -> {}

Observed(entry, h, shown) ==
    CASE shown = "nothing" -> entry
      [] shown = "ORPHANED" -> [entry EXCEPT !.status = shown]
      [] OTHER -> [entry EXCEPT !.status = shown, !.hash = h]

\* Only the entry that still carries this verification is updated.
Inspect(o) ==
    /\ check[o].pc = "inspect"
    /\ LET process == check[o]  now == Load(process.tab, o) IN
       IF now.request # process.id
       THEN check' = [check EXCEPT ![o] = NoCheck] /\ UNCHANGED journal
       ELSE \E shown \in Shown(process.hash) :
               Update(o, process, Observed(now, process.hash, shown), "idle")
    /\ UNCHANGED <<checks, Sideways>>

\* The write of an update; one that storage refuses is kept in memory.
WriteUpdate(o) ==
    /\ check[o].pc = "write"
    /\ LET process == check[o]  t == process.tab  entry == process.entry IN
       /\ \E result \in {"stored", "conflict", "unavailable"} :
             /\ IF process.retry THEN RetryDurable(t, o, entry, result)
                ELSE SaveInStorage(t, o, entry, result)
             /\ volatile' = CASE result = "unavailable" -> Overlaid(t, o, entry)
                              [] result = "stored" /\ process.retry ->
                                    [volatile EXCEPT ![t][o] = Null]
                              [] OTHER -> volatile
       /\ check' = [check EXCEPT ![o] = IF process.then = "idle" THEN NoCheck
                                        ELSE [process EXCEPT !.pc = process.then, !.entry = Null]]
    /\ UNCHANGED <<checks, Sideways>>

Observe(o) == (\E t \in Tabs : Select(t, o)) \/ Begin(o) \/ Inspect(o) \/ WriteUpdate(o)

-----------------------------------------------------------------------------
(* The chain, and pages that are closed or loaded anew.                    *)

Resolve(o) ==
    /\ tx[o] \in {"pending", "orphaned"}
    /\ \E state \in {"success", "reverted", "replaced"} :
          /\ tx' = [tx EXCEPT ![o] = state]
          /\ failed' = IF state = "success" THEN failed ELSE failed \cup {o}
    /\ UNCHANGED <<journal, submit, check, wallet, begun, checks, mishaps>>

Reorg(o) ==
    /\ tx[o] \in {"success", "reverted"} /\ mishaps < MaxMishaps
    /\ tx' = [tx EXCEPT ![o] = "orphaned"] /\ mishaps' = mishaps + 1
    /\ UNCHANGED <<journal, submit, check, wallet, failed, begun, checks>>

\* What the page was doing ends with it; its wallet request does not.
Reload(t) ==
    /\ mishaps < MaxMishaps /\ mishaps' = mishaps + 1
    /\ Forget(t)
    /\ submit' = IF submit.tab = t THEN NoSubmit ELSE submit
    /\ check' = [o \in Ops |-> IF check[o].tab = t THEN NoCheck ELSE check[o]]
    /\ UNCHANGED <<wallet, chainVars, begun, checks>>

Next ==
    \/ Submit
    \/ \E o \in Ops : Approve(o) \/ Reject(o) \/ LoseAnswer(o)
    \/ \E o \in Ops : Observe(o) \/ Resolve(o) \/ Reorg(o)
    \/ \E t \in Tabs : Reload(t)

Spec == Init /\ [][Next]_vars

-----------------------------------------------------------------------------
(* Properties.                                                             *)

Statuses == {"PREPARING", "AWAITING_WALLET", "REJECTED", "FAILED_BEFORE_SUBMIT", "SUBMITTED",
             "INCLUDED_SUCCESS", "INCLUDED_REVERTED", "UNKNOWN", "REPLACED_OR_CANCELLED",
             "ORPHANED"}
Entry == [revision : Nat, status : Statuses, hash : Ops \cup {NoHash}, request : 0..MaxChecks,
          outcome : {Null, "REJECTED", "UNKNOWN"}, asked : BOOLEAN]

Overlays == [entry : Entry, base : Nat]
SubmitSteps == {"idle", "create", "simulate", "await", "verify", "refuse", "wallet", "hash",
                "hashAgain", "nonce", "saveNonce", "outcome"}
Submissions == [pc : SubmitSteps, tab : Tabs \cup {Null}, op : Ops \cup {0},
                entry : Entry \cup {Null}, waiting : BOOLEAN, tries : 0..2]
Verifications == [pc : {"idle", "selected", "inspect", "write"}, tab : Tabs \cup {Null},
                  hash : Ops \cup {NoHash}, id : 0..MaxChecks, entry : Entry \cup {Null},
                  retry : BOOLEAN, then : {"idle", "inspect"}]

\* What stands for no entry and no outcome is none.
ASSUME NullAssumption == Null \notin Entry \cup Overlays \cup {"REJECTED", "UNKNOWN"}

\* The types; what a tab keeps in memory is based on a revision that was
\* stored, and no save is on its way for an operation that never was.
TypeOK ==
    /\ durable \in [Ops -> Entry \cup {Null}]
    /\ volatile \in [Tabs -> [Ops -> Overlays \cup {Null}]]
    /\ \A t \in Tabs, o \in Ops : InMemory(t, o) =>
          volatile[t][o].base \in 1..Revision(durable[o])
    /\ issues \in [Tabs -> SUBSET Ops]
    /\ submit \in Submissions /\ check \in [Ops -> Verifications]
    /\ submit.pc \notin {"idle", "create"} => durable[submit.op] # Null
    /\ wallet \in [Ops -> {"none", "open", "approved", "rejected", "lost"}]
    /\ tx \in [Ops -> {"none", "pending", "success", "reverted", "replaced", "orphaned"}]
    /\ failed \subseteq Ops
    /\ begun \in 0..MaxOps /\ checks \in 0..MaxChecks /\ mishaps \in 0..MaxMishaps

\* "An intent has at most one unresolved attempt": the wallet is asked only
\* when every earlier request of the intent was rejected, or its transaction
\* was seen to fail; across tabs, reloads, lost answers and lost writes
\* (submitOwnedOperation, attemptStillOwnsIntent).
OneUnresolvedRequest ==
    [][\A o, p \in Ops : wallet[o] = "none" /\ wallet'[o] = "open" /\ p # o =>
          wallet[p] \in {"none", "rejected"} \/ p \in failed]_vars

\* The wallet is asked only for an operation whose request is in storage, and
\* no later write takes it back (the durable intent boundary).
RequestIsOnRecord ==
    \A o \in Ops : wallet[o] # "none" => durable[o] # Null /\ durable[o].asked

Entries == {durable[o] : o \in Ops} \cup {Load(t, o) : t \in Tabs, o \in Ops}

SentStatuses == {"SUBMITTED", "INCLUDED_SUCCESS", "INCLUDED_REVERTED", "REPLACED_OR_CANCELLED"}

\* Nothing the wallet says, no verification that ends late and no rebase takes
\* from an entry that has a transaction the status of one, or gives that to an
\* entry without.  (ORPHANED alone may stand without: a candidate whose receipt
\* is in a block no longer canonical is not recorded.)
EvidenceOutranksOutcome ==
    \A entry \in Entries \ {Null} :
        /\ entry.hash # NoHash => entry.status \in SentStatuses \cup {"ORPHANED"}
        /\ entry.status \in SentStatuses => entry.hash # NoHash

HasHash(entry) == entry # Null /\ entry.hash # NoHash

\* A stored hash is never lost or replaced by another operation's, whichever tab writes
\* over it from whatever it read before (persistReturnedHash, save,
\* rebaseUniqueVolatileEvidence).
StoredHashStays ==
    [][\A o \in Ops : HasHash(durable[o]) => durable'[o].hash = durable[o].hash]_vars

\* "The UI keeps the operation context in memory": a tab that knows a hash
\* knows it until it is loaded anew.
TabKeepsHash ==
    [][\A t \in Tabs, o \in Ops :
          HasHash(Load(t, o)) /\ mishaps' = mishaps => HasHash(Load(t, o)')]_vars

\* "A proved pre-submit rejection or failure permits a fresh operation": an
\* entry that lost its claim on the intent because nothing was sent does not
\* claim it again.
RefusalFreesIntent ==
    [][\A o \in Ops : durable[o] # Null /\ durable[o].status \in {"REJECTED", "FAILED_BEFORE_SUBMIT"}
          => ~ Owns(durable'[o])]_vars
=============================================================================
