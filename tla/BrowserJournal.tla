--------------------------- MODULE BrowserJournal ---------------------------
(***************************************************************************)
(* LocalStorageJournal: the entries of one immutable intent in the storage *)
(* that the tabs of a browser share, compare-and-swap on their revisions,  *)
(* and the overlay a tab keeps of what it could not store.                 *)
(*                                                                         *)
(* Reading works; writing may fail at any time.  A save that goes to       *)
(* storage waits for the write lock, so what the caller read before it may *)
(* be old: its check and its write are one step, the caller's another.     *)
(***************************************************************************)
EXTENDS Naturals

CONSTANTS
    Tabs,
    MaxOps, \* bound: operations on the intent
    Null

ASSUME JournalAssumption == MaxOps \in Nat /\ Null \notin Tabs

Ops == 1..MaxOps

\* A hash is named after the operation whose request was sent under it; a wallet
\* that speeds the request up or cancels it sends a replacement under another
\* hash of the same name.
NoHash == 0

VARIABLES
    durable,  \* the entries in local storage
    volatile, \* volatileEntries of a tab, with volatileBaseRevisions
    issues    \* writeIssues of a tab

journal == <<durable, volatile, issues>>

JournalInit ==
    /\ durable = [o \in Ops |-> Null]
    /\ volatile = [t \in Tabs |-> [o \in Ops |-> Null]]
    /\ issues = [t \in Tabs |-> {}]

\* load: a tab's own evidence hides what is stored.
Load(t, o) == IF volatile[t][o] # Null THEN volatile[t][o].entry ELSE durable[o]

Revision(entry) == IF entry = Null THEN 0 ELSE entry.revision
Advanced(entry, revision) == [entry EXCEPT !.revision = revision + 1]

-----------------------------------------------------------------------------
(* save, in a tab that keeps the entry in memory and in one that does not. *)

InMemory(t, o) == volatile[t][o] # Null

SaveInMemory(t, o, entry) ==
    /\ entry.revision = volatile[t][o].entry.revision
    /\ volatile' = [volatile EXCEPT ![t][o].entry = Advanced(entry, entry.revision)]
    /\ UNCHANGED <<durable, issues>>

Store(t, o, entry) ==
    /\ durable' = [durable EXCEPT ![o] = entry]
    /\ issues' = [issues EXCEPT ![t] = @ \ {o}]

WriteFails(t, o) ==
    /\ issues' = [issues EXCEPT ![t] = @ \cup {o}]
    /\ UNCHANGED durable

\* Fault: the revision is not compared.
AnyRevision(entry, o) == TRUE

Fresh(entry, o) == entry.revision = Revision(durable[o])

\* What a save to storage comes to; the caller says what becomes of the overlay.
SaveInStorage(t, o, entry, result) ==
    CASE result = "stored" ->
            Fresh(entry, o) /\ Store(t, o, Advanced(entry, entry.revision))
      [] result = "conflict" ->
            ~ Fresh(entry, o) /\ UNCHANGED <<durable, issues>>
      [] result = "unavailable" ->
            Fresh(entry, o) /\ WriteFails(t, o)

\* Fault: the revision the overlay will have is taken for its base.
OverlaidAhead(t, o, entry) ==
    [volatile EXCEPT ![t][o] =
        [entry |-> Advanced(entry, entry.revision),
         base |-> IF @ = Null THEN entry.revision + 1 ELSE @.base]]

\* saveVolatile.
Overlaid(t, o, entry) ==
    [volatile EXCEPT ![t][o] =
        [entry |-> Advanced(entry, entry.revision),
         base |-> IF @ = Null THEN entry.revision ELSE @.base]]

-----------------------------------------------------------------------------
(* retryDurableSave: evidence of the overlay goes to storage.              *)

\* Fault: what is stored is not asked for evidence of its own.
RebasedOnAnything(old, entry) ==
    [entry EXCEPT !.outcome = IF @ = Null THEN old.outcome ELSE @]

\* rebaseUniqueVolatileEvidence: a hash that only the overlay has, of the same
\* wallet request, is moved onto the newer stored entry.
Rebased(old, entry) ==
    IF old # Null /\ old.asked = entry.asked /\ old.hash = NoHash /\ entry.hash # NoHash
    THEN [entry EXCEPT !.outcome = IF @ = Null THEN old.outcome ELSE @]
    ELSE Null

Candidate(t, o, entry) ==
    IF Revision(durable[o]) = volatile[t][o].base THEN entry ELSE Rebased(durable[o], entry)

RetryDurable(t, o, entry, result) ==
    LET candidate == Candidate(t, o, entry) IN
    CASE result = "stored" ->
            /\ candidate # Null
            /\ Store(t, o, Advanced(candidate, Revision(durable[o])))
      [] result = "conflict" ->
            candidate = Null /\ UNCHANGED <<durable, issues>>
      [] result = "unavailable" ->
            candidate # Null /\ WriteFails(t, o)

\* A document is loaded anew: its memory is gone.
Forget(t) ==
    /\ volatile' = [volatile EXCEPT ![t] = [o \in Ops |-> Null]]
    /\ issues' = [issues EXCEPT ![t] = {}]
    /\ UNCHANGED durable
=============================================================================
