--------------------------- MODULE SubmissionProofs --------------------------
(***************************************************************************)
(* Theorems about Submission, for every set of tabs, every number of       *)
(* operations and every bound on verifications and mishaps.                *)
(***************************************************************************)
EXTENDS Submission, TLAPS

USE JournalAssumption, SubmissionAssumption, NullAssumption

-----------------------------------------------------------------------------
(* The inductive invariant.                                                *)

\* What an entry may not lose to one that takes its place.
Descends(old, entry) ==
    /\ old.asked => entry.asked
    /\ old.hash # NoHash => entry.hash # NoHash

\* Storage only goes forward.
Later(old, new) ==
    \/ new = old
    \/ /\ new # Null /\ new.revision > Revision(old)
       /\ old # Null => Descends(old, new)

\* What is known of an operation, and stays so: that its request was rejected,
\* that none was made and none will be, that its transaction failed.
Facts(o) ==
    {fact \in {"rejected", "refused", "failed"} :
        \/ fact = "rejected" /\ wallet[o] = "rejected"
        \/ fact = "refused" /\ wallet[o] = "none" /\ (submit.op = o => submit.pc = "refuse")
        \/ fact = "failed" /\ o \in failed}

\* An entry says of its operation no more than is so.
Good(o, entry, facts) ==
    /\ entry \in Entry
    /\ entry.hash # NoHash => entry.status \in SentStatuses \cup {"ORPHANED"}
    /\ entry.status \in SentStatuses => entry.hash # NoHash
    /\ entry.status = "REJECTED" \/ entry.outcome = "REJECTED" => "rejected" \in facts
    /\ entry.status = "FAILED_BEFORE_SUBMIT" => "refused" \in facts
    /\ OwnCandidates =>
          /\ entry.hash \in {NoHash, o}
          /\ entry.status \in {"INCLUDED_REVERTED", "REPLACED_OR_CANCELLED"} => "failed" \in facts

\* A copy of what is stored, as it is or as it was.
Copy(stored, entry) ==
    /\ entry.revision <= stored.revision
    /\ entry.revision = stored.revision => Descends(stored, entry)

\* What a tab keeps in memory for a base descends from what is stored as long as
\* that is the base, and is ahead of it while the tab submits the operation.
Based(t, o, stored, base, s, entry) ==
    /\ base = stored.revision => Descends(stored, entry)
    /\ s.tab = t /\ s.op = o => entry.revision > base

StoredSound(o, stored, facts) ==
    stored # Null => Good(o, stored, facts) /\ stored.revision >= 1

OverlaySound(t, o, stored, overlay, s, facts) ==
    overlay # Null =>
        /\ stored # Null /\ overlay.base \in 1..stored.revision
        /\ Good(o, overlay.entry, facts)
        /\ Based(t, o, stored, overlay.base, s, overlay.entry)

\* What a verification is about to write follows from what it read.
CheckSound(o, stored, c, overlay, s, facts) ==
    /\ c.pc = "idle" => c = NoCheck
    /\ c.pc # "idle" =>
          /\ stored # Null /\ c.tab \in Tabs
          /\ OwnCandidates => c.hash \in {NoHash, o}
    /\ c.pc = "inspect" \/ c.then = "inspect" => c.hash # NoHash
    /\ c.pc = "write" =>
          /\ Good(o, c.entry, facts)
          /\ IF c.retry
             THEN overlay # Null /\ Based(c.tab, o, stored, overlay.base, s, c.entry)
             ELSE /\ Copy(stored, c.entry)
                  /\ s.tab = c.tab /\ s.op = o => overlay = Null

OnRecord(stored) == stored # Null /\ stored.asked /\ stored.revision >= 2

\* An operation whose request came to nothing.
CameToNothing(o) == wallet[o] \in {"none", "rejected"} \/ o \in failed

BeforeWallet == {"create", "simulate", "await", "verify", "refuse"}
Holding == SubmitSteps \ {"idle", "create", "nonce"}  \* an entry read from the journal

SubmitSound ==
    LET o == submit.op
        entry == submit.entry
        stored == durable[o] IN
    /\ submit.pc = "idle" => submit = NoSubmit
    /\ submit.pc # "idle" =>
          /\ submit.tab \in Tabs /\ o \in Ops /\ o = begun
          /\ OwnCandidates => \A p \in Ops \ {o} : CameToNothing(p)
    /\ submit.pc = "create" => stored = Null /\ entry = Preparing
    /\ submit.pc \notin {"idle", "create"} => stored # Null
    /\ submit.pc \in Holding =>
          Good(o, entry, Facts(o)) /\ Copy(stored, entry) /\ entry.revision >= 1
    /\ submit.pc \in BeforeWallet => wallet[o] = "none"
    /\ submit.pc \in BeforeWallet \cup {"wallet"} => entry.hash = NoHash
    /\ submit.pc \in {"simulate", "await"} => entry.revision = 1
    /\ submit.pc \in {"await", "verify", "wallet", "hash", "outcome"} => entry.asked
    /\ submit.pc = "verify" => OnRecord(stored)
    /\ submit.pc \notin BeforeWallet \cup {"idle"} => wallet[o] # "none"
    /\ submit.pc \in {"hash", "hashAgain"} => entry.hash = o /\ entry.status = "SUBMITTED"
    /\ submit.pc = "outcome" => entry.outcome \in {"REJECTED", "UNKNOWN"}

OperationSound(o) ==
    /\ StoredSound(o, durable[o], Facts(o))
    /\ o > begun => durable[o] = Null
    /\ wallet[o] # "none" => OnRecord(durable[o])
    /\ tx[o] \in {"reverted", "replaced"} => o \in failed
    /\ CheckSound(o, durable[o], check[o], volatile[check[o].tab][o], submit, Facts(o))

IInv ==
    /\ \A o \in Ops : OperationSound(o)
    /\ \A t \in Tabs, o \in Ops :
          OverlaySound(t, o, durable[o], volatile[t][o], submit, Facts(o))
    /\ SubmitSound

-----------------------------------------------------------------------------
(* What the operators that write an entry do.                              *)

LEMMA EntryFields ==
    ASSUME NEW e \in Entry
    PROVE  /\ e.revision \in Nat /\ e.status \in Statuses /\ e.hash \in Ops \cup {NoHash}
           /\ e.request \in 0..MaxChecks /\ e.outcome \in {Null, "REJECTED", "UNKNOWN"}
           /\ e.asked \in BOOLEAN /\ e # Null
  BY DEF Entry

LEMMA OpsAre == \A o \in Ops : o \in Nat /\ o # NoHash /\ o # 0 /\ 0 \notin Ops
  BY DEF Ops, NoHash

LEMMA AdvancedIs ==
    ASSUME NEW e \in Entry, NEW r \in Nat
    PROVE  /\ Advanced(e, r) \in Entry /\ Advanced(e, r).revision = r + 1
           /\ Advanced(e, r).status = e.status /\ Advanced(e, r).hash = e.hash
           /\ Advanced(e, r).request = e.request /\ Advanced(e, r).outcome = e.outcome
           /\ Advanced(e, r).asked = e.asked
<1>1. PICK n \in Nat : n = r + 1
  OBVIOUS
<1> QED BY <1>1 DEF Advanced, Entry

LEMMA StatusIs ==
    ASSUME NEW e \in Entry, NEW st \in Statuses, NEW new, new = [e EXCEPT !.status = st]
    PROVE  /\ new \in Entry /\ new.revision = e.revision /\ new.status = st
           /\ new.hash = e.hash /\ new.request = e.request /\ new.outcome = e.outcome
           /\ new.asked = e.asked
  BY DEF Entry

LEMMA MergedIs ==
    ASSUME NEW e \in Entry, NEW outcome \in {"REJECTED", "UNKNOWN"}
    PROVE  LET new == Merged(e, outcome) IN
           /\ new \in Entry /\ new.revision = e.revision
           /\ new.status = IF e.hash # NoHash THEN e.status ELSE outcome
           /\ new.hash = e.hash /\ new.request = e.request /\ new.outcome = outcome
           /\ new.asked = e.asked
<1>1. PICK st \in Statuses : st = IF e.hash # NoHash THEN e.status ELSE outcome
  BY DEF Entry, Statuses
<1>2. PICK oc \in {Null, "REJECTED", "UNKNOWN"} : oc = outcome
  OBVIOUS
<1>3. Merged(e, outcome) = [e EXCEPT !.outcome = oc, !.status = st]
  BY <1>1, <1>2 DEF Merged, Entry
<1>4. ASSUME NEW new, new = [e EXCEPT !.outcome = oc, !.status = st]
      PROVE  /\ new \in Entry /\ new.revision = e.revision /\ new.status = st
             /\ new.hash = e.hash /\ new.request = e.request /\ new.outcome = oc
             /\ new.asked = e.asked
  BY ONLY <1>4, e \in Entry, st \in Statuses, oc \in {Null, "REJECTED", "UNKNOWN"} DEF Entry
<1> QED BY <1>1, <1>2, <1>3, <1>4

LEMMA RequestIs ==
    ASSUME NEW e \in Entry, NEW q \in 0..MaxChecks, NEW new, new = [e EXCEPT !.request = q]
    PROVE  /\ new \in Entry /\ new.revision = e.revision /\ new.status = e.status
           /\ new.hash = e.hash /\ new.request = q /\ new.outcome = e.outcome
           /\ new.asked = e.asked
  BY DEF Entry

LEMMA OutcomeIs ==
    ASSUME NEW e \in Entry, NEW oc \in {Null, "REJECTED", "UNKNOWN"}, NEW new,
           new = [e EXCEPT !.outcome = oc]
    PROVE  /\ new \in Entry /\ new.revision = e.revision /\ new.status = e.status
           /\ new.hash = e.hash /\ new.request = e.request /\ new.outcome = oc
           /\ new.asked = e.asked
  BY DEF Entry

LEMMA PreparingIs ==
    /\ Preparing \in Entry /\ Preparing.revision = 0 /\ Preparing.status = "PREPARING"
    /\ Preparing.hash = NoHash /\ Preparing.outcome = Null /\ ~ Preparing.asked
  BY DEF Preparing, Entry, Statuses

-----------------------------------------------------------------------------
(* What stays sound when storage goes forward and more becomes known.      *)

LEMMA GoodKept ==
    ASSUME NEW o, NEW e, NEW facts, NEW more, facts \subseteq more, Good(o, e, facts)
    PROVE  Good(o, e, more)
  BY DEF Good

\* A revision says nothing of an operation.
LEMMA GoodAdvanced ==
    ASSUME NEW o, NEW facts, NEW e, NEW r \in Nat, Good(o, e, facts)
    PROVE  Good(o, Advanced(e, r), facts)
<1>1. e \in Entry
  BY DEF Good
<1> QED BY <1>1, AdvancedIs DEF Good

\* Whatever is the same but for revision and request is as good.
LEMMA GoodLike ==
    ASSUME NEW o, NEW facts, NEW e, NEW new \in Entry, Good(o, e, facts),
           new.status = e.status, new.hash = e.hash, new.outcome = e.outcome
    PROVE  Good(o, new, facts)
  BY DEF Good

LEMMA StoredKept ==
    ASSUME NEW o, NEW d, NEW facts, NEW more, facts \subseteq more, StoredSound(o, d, facts)
    PROVE  StoredSound(o, d, more)
  BY GoodKept DEF StoredSound

LEMMA CopyKept ==
    ASSUME NEW d \in Entry, NEW d2 \in Entry, Later(d, d2), NEW e \in Entry, Copy(d, e)
    PROVE  Copy(d2, e)
<1>1. CASE d2 = d
  BY <1>1
<1>2. CASE d2.revision > Revision(d)
  BY <1>2, EntryFields DEF Copy, Revision
<1> QED BY <1>1, <1>2 DEF Later

LEMMA OverlayKept ==
    ASSUME NEW t, NEW o, NEW d \in Entry \cup {Null}, NEW d2 \in Entry \cup {Null}, Later(d, d2),
           NEW v, v # Null => v.base \in Nat, NEW s, NEW s2,
           s2.tab = t /\ s2.op = o => s.tab = t /\ s.op = o,
           NEW facts, NEW more, facts \subseteq more, OverlaySound(t, o, d, v, s, facts)
    PROVE  OverlaySound(t, o, d2, v, s2, more)
<1> SUFFICES ASSUME v # Null PROVE OverlaySound(t, o, d2, v, s2, more)
  BY DEF OverlaySound
<1>1. /\ d \in Entry /\ d # Null /\ v.base \in 1..d.revision
      /\ Based(t, o, d, v.base, s, v.entry) /\ v.base \in Nat
  BY DEF OverlaySound
<1>2. Good(o, v.entry, more)
  BY GoodKept DEF OverlaySound
<1>3. d2 \in Entry /\ d2 # Null
  BY <1>1 DEF Later
<1>4. v.base \in 1..d2.revision /\ (v.base = d2.revision => Descends(d2, v.entry))
  <2>1. CASE d2 = d
    BY <2>1, <1>1 DEF Based
  <2>2. CASE d2.revision > Revision(d)
    BY <2>2, <1>1, <1>3, EntryFields DEF Revision
  <2> QED BY <2>1, <2>2 DEF Later
<1> QED BY <1>1, <1>2, <1>3, <1>4 DEF OverlaySound, Based

LEMMA CheckKept ==
    ASSUME NEW o, NEW d \in Entry \cup {Null}, NEW d2 \in Entry \cup {Null}, Later(d, d2),
           NEW c, NEW v, NEW v2, v # Null => v.base \in Nat /\ v2 # Null /\ v2.base = v.base,
           d # Null /\ v # Null => v.base <= d.revision,
           NEW s, NEW s2, s2.tab = c.tab /\ s2.op = o => s.tab = c.tab /\ s.op = o,
           s2.tab = c.tab /\ s2.op = o => (v = Null => v2 = Null),
           NEW facts, NEW more, facts \subseteq more, CheckSound(o, d, c, v, s, facts)
    PROVE  CheckSound(o, d2, c, v2, s2, more)
<1>1. c.pc # "idle" => d \in Entry /\ d2 \in Entry /\ d # Null /\ d2 # Null
  BY DEF CheckSound, Later
<1>2. c.pc = "write" => Good(o, c.entry, more) /\ c.entry \in Entry
  BY GoodKept DEF CheckSound, Good
<1>3. ASSUME c.pc = "write", c.retry
      PROVE  v2 # Null /\ Based(c.tab, o, d2, v2.base, s2, c.entry)
  <2>1. /\ v # Null /\ Based(c.tab, o, d, v.base, s, c.entry) /\ v2.base = v.base
        /\ v.base \in Nat /\ v2 # Null /\ d \in Entry /\ d2 \in Entry /\ v.base <= d.revision
    BY <1>1, <1>3 DEF CheckSound
  <2>2. v.base = d2.revision => Descends(d2, c.entry)
    <3>1. CASE d2 = d
      BY <3>1, <2>1 DEF Based
    <3>2. CASE d2.revision > Revision(d)
      BY <3>2, <2>1, <1>1, <1>3, EntryFields DEF Revision
    <3> QED BY <3>1, <3>2 DEF Later
  <2> QED BY <2>1, <2>2 DEF Based
<1>4. ASSUME c.pc = "write", ~ c.retry
      PROVE  Copy(d2, c.entry) /\ (s2.tab = c.tab /\ s2.op = o => v2 = Null)
  <2>1. Copy(d, c.entry) /\ (s.tab = c.tab /\ s.op = o => v = Null)
    BY <1>4 DEF CheckSound
  <2>2. Copy(d2, c.entry)
    BY <2>1, <1>1, <1>2, <1>4, CopyKept
  <2> QED BY <2>1, <2>2
<1> QED BY <1>1, <1>2, <1>3, <1>4 DEF CheckSound

LEMMA OnRecordKept ==
    ASSUME NEW d \in Entry \cup {Null}, NEW d2 \in Entry \cup {Null}, Later(d, d2), OnRecord(d)
    PROVE  OnRecord(d2)
  BY EntryFields DEF OnRecord, Later, Revision, Descends

-----------------------------------------------------------------------------
(* What a step leaves alone.                                               *)

\* The journal goes forward, and what is known of the operations grows.
Forward ==
    /\ durable' \in [Ops -> Entry \cup {Null}]
    /\ \A o \in Ops : Later(durable[o], durable[o]') /\ Facts(o) \subseteq Facts(o)'
    /\ \A t \in Tabs, o \in Ops :
          submit'.tab = t /\ submit'.op = o => submit.tab = t /\ submit.op = o

\* What is stored is never taken back.
Onward == \A o \in Ops : Later(durable[o], durable'[o])

LEMMA UnwrittenGoesOn ==
    ASSUME UNCHANGED durable
    PROVE  Onward
  BY DEF Onward, Later

LEMMA TypesOf ==
    ASSUME TypeOK
    PROVE  /\ \A o \in Ops : durable[o] \in Entry \cup {Null}
           /\ \A t \in Tabs, o \in Ops :
                 /\ volatile[t][o] \in Overlays \cup {Null}
                 /\ volatile[t][o] # Null =>
                       /\ volatile[t][o].base \in Nat /\ volatile[t][o].entry \in Entry
                       /\ volatile[t][o].base \in 1..Revision(durable[o])
           /\ submit \in Submissions /\ \A o \in Ops : check[o] \in Verifications
  BY DEF TypeOK, InMemory, Overlays

\* The verifications that go on, while the overlays they retry stay.
LEMMA ChecksKept ==
    ASSUME TypeOK, IInv, Forward, NEW o \in Ops, check'[o] = check[o],
           \A t \in Tabs :
              /\ volatile[t][o] # Null =>
                    volatile'[t][o] # Null /\ volatile'[t][o].base = volatile[t][o].base
              /\ submit'.tab = t /\ submit'.op = o /\ volatile[t][o] = Null =>
                    volatile'[t][o] = Null
    PROVE  CheckSound(o, durable'[o], check'[o], volatile'[check'[o].tab][o], submit', Facts(o)')
<1> DEFINE c == check[o]
<1>1. CheckSound(o, durable[o], c, volatile[c.tab][o], submit, Facts(o))
  BY DEF IInv, OperationSound
<1>2. CASE c.pc # "idle"
  <2>1. c.tab \in Tabs /\ durable[o] # Null
    BY <1>1, <1>2 DEF CheckSound
  <2>2. PICK t \in Tabs : t = c.tab
    BY <2>1
  <2>3. /\ durable[o] \in Entry \cup {Null} /\ durable'[o] \in Entry \cup {Null}
        /\ Later(durable[o], durable'[o]) /\ Facts(o) \subseteq Facts(o)'
    BY TypesOf DEF Forward
  <2>4. volatile[t][o] # Null =>
           volatile[t][o].base \in Nat /\ volatile[t][o].base <= durable[o].revision
    <3>1. volatile[t][o] # Null => volatile[t][o].base \in 1..Revision(durable[o])
      BY TypesOf
    <3> QED BY <3>1, <2>1, <2>3, EntryFields DEF Revision
  <2>5. submit'.tab = t /\ submit'.op = o => submit.tab = t /\ submit.op = o
    BY DEF Forward
  <2>6. CheckSound(o, durable'[o], c, volatile'[t][o], submit', Facts(o)')
    BY <1>1, <2>2, <2>3, <2>4, <2>5, CheckKept
  <2> QED BY <2>6, <2>2
<1>3. CASE c.pc = "idle"
  BY <1>1, <1>3 DEF CheckSound, NoCheck
<1> QED BY <1>2, <1>3

LEMMA OverlaysKept ==
    ASSUME TypeOK, IInv, Forward, NEW t \in Tabs, NEW o \in Ops,
           volatile'[t][o] = volatile[t][o]
    PROVE  OverlaySound(t, o, durable'[o], volatile'[t][o], submit', Facts(o)')
<1>1. OverlaySound(t, o, durable[o], volatile[t][o], submit, Facts(o))
  BY DEF IInv
<1>2. /\ durable[o] \in Entry \cup {Null} /\ durable'[o] \in Entry \cup {Null}
      /\ Later(durable[o], durable'[o]) /\ Facts(o) \subseteq Facts(o)'
  BY TypesOf DEF Forward
<1>3. volatile[t][o] # Null => volatile[t][o].base \in Nat
  BY TypesOf
<1>4. submit'.tab = t /\ submit'.op = o => submit.tab = t /\ submit.op = o
  BY DEF Forward
<1> QED BY <1>1, <1>2, <1>3, <1>4, OverlayKept

\* An operation whose entry in storage is not rewritten.
LEMMA UnwrittenKept ==
    ASSUME TypeOK, IInv, NEW o \in Ops, durable'[o] = durable[o], Facts(o) \subseteq Facts(o)'
    PROVE  StoredSound(o, durable'[o], Facts(o)')
  BY StoredKept DEF IInv, OperationSound

-----------------------------------------------------------------------------
(* The parts of a step.                                                    *)

LEMMA FactsGrow ==
    ASSUME NEW o \in Ops, failed \subseteq failed',
           wallet[o] = "rejected" => wallet'[o] = "rejected",
           wallet[o] = "none" /\ (submit.op = o => submit.pc = "refuse") => wallet'[o] = "none",
           submit'.op = o => submit.op = o /\ (submit.pc = "refuse" => submit'.pc = "refuse")
    PROVE  Facts(o) \subseteq Facts(o)'
<1> SUFFICES ASSUME NEW fact \in Facts(o) PROVE fact \in Facts(o)'
  OBVIOUS
<1>1. fact \in {"rejected", "refused", "failed"}
  BY DEF Facts
<1>2. CASE fact = "rejected"
  BY <1>2 DEF Facts
<1>3. CASE fact = "refused"
  BY <1>3 DEF Facts
<1>4. CASE fact = "failed"
  BY <1>4 DEF Facts
<1> QED BY <1>1, <1>2, <1>3, <1>4

\* A step that touches one operation.
LEMMA OneOperation ==
    ASSUME TypeOK, IInv, Forward, begun' = begun, NEW o \in Ops,
           \A p \in Ops \ {o} : durable'[p] = durable[p] /\ check'[p] = check[p],
           \A t \in Tabs, p \in Ops \ {o} : volatile'[t][p] = volatile[t][p],
           \A p \in Ops : wallet'[p] # "none" => wallet[p] # "none" \/ OnRecord(durable'[p]),
           \A p \in Ops : tx'[p] \in {"reverted", "replaced"} => p \in failed',
           o > begun => durable'[o] = Null,
           StoredSound(o, durable'[o], Facts(o)'),
           CheckSound(o, durable'[o], check'[o], volatile'[check'[o].tab][o], submit', Facts(o)'),
           \A t \in Tabs : OverlaySound(t, o, durable'[o], volatile'[t][o], submit', Facts(o)'),
           SubmitSound'
    PROVE  IInv'
<1>1. ASSUME NEW p \in Ops PROVE OperationSound(p)'
  <2>1. OperationSound(p)
    BY DEF IInv
  <2>2. wallet'[p] # "none" => OnRecord(durable'[p])
    <3>1. durable[p] \in Entry \cup {Null} /\ durable'[p] \in Entry \cup {Null}
          /\ Later(durable[p], durable'[p])
      BY TypesOf DEF Forward
    <3> QED BY <2>1, <3>1, OnRecordKept DEF OperationSound
  <2>3. /\ StoredSound(p, durable'[p], Facts(p)')
        /\ CheckSound(p, durable'[p], check'[p], volatile'[check'[p].tab][p], submit', Facts(p)')
        /\ p > begun => durable'[p] = Null
    <3>1. CASE p = o
      BY <3>1
    <3>2. CASE p # o
      <4>1. StoredSound(p, durable'[p], Facts(p)')
        BY <3>2, UnwrittenKept DEF Forward
      <4>2. check'[p] = check[p] /\ \A t \in Tabs : volatile'[t][p] = volatile[t][p]
        BY <3>2
      <4>3. CheckSound(p, durable'[p], check'[p], volatile'[check'[p].tab][p], submit', Facts(p)')
        BY <4>2, ChecksKept
      <4> QED BY <2>1, <3>2, <4>1, <4>3 DEF OperationSound
    <3> QED BY <3>1, <3>2
  <2>4. tx'[p] \in {"reverted", "replaced"} => p \in failed'
    OBVIOUS
  <2> QED BY <2>2, <2>3, <2>4 DEF OperationSound
<1>2. ASSUME NEW t \in Tabs, NEW p \in Ops
      PROVE  OverlaySound(t, p, durable'[p], volatile'[t][p], submit', Facts(p)')
  <2>1. CASE p = o
    BY <2>1
  <2>2. CASE p # o
    BY <2>2, OverlaysKept
  <2> QED BY <2>1, <2>2
<1> QED BY <1>1, <1>2 DEF IInv

\* A step that writes nothing of the journal and starts no verification.
LEMMA JournalUnwritten ==
    ASSUME TypeOK, IInv, UNCHANGED <<durable, volatile, check, begun>>,
           \A o \in Ops : Facts(o) \subseteq Facts(o)',
           \A t \in Tabs, o \in Ops :
              submit'.tab = t /\ submit'.op = o => submit.tab = t /\ submit.op = o,
           \A p \in Ops : wallet'[p] # "none" => wallet[p] # "none" \/ OnRecord(durable[p]),
           \A p \in Ops : tx'[p] \in {"reverted", "replaced"} => p \in failed',
           SubmitSound'
    PROVE  IInv'
<1>1. Forward
  BY DEF Forward, Later, TypeOK
<1>2. CASE Ops = {}
  BY <1>2 DEF IInv
<1>3. CASE Ops # {}
  <2>1. PICK o \in Ops : TRUE
    BY <1>3
  <2>2. StoredSound(o, durable'[o], Facts(o)')
    BY <1>1, UnwrittenKept DEF Forward
  <2>3. CheckSound(o, durable'[o], check'[o], volatile'[check'[o].tab][o], submit', Facts(o)')
    BY <1>1, ChecksKept
  <2>4. ASSUME NEW t \in Tabs
        PROVE  OverlaySound(t, o, durable'[o], volatile'[t][o], submit', Facts(o)')
    BY <1>1, OverlaysKept
  <2>5. o > begun => durable'[o] = Null
    BY DEF IInv, OperationSound
  <2> QED BY <1>1, <2>2, <2>3, <2>4, <2>5, OneOperation
<1> QED BY <1>2, <1>3

\* A submission that goes on beside the step.
LEMMA SubmissionKept ==
    ASSUME TypeOK, IInv, Forward, UNCHANGED <<submit, begun>>,
           submit.pc = "create" => durable'[submit.op] = durable[submit.op],
           \A p \in Ops : CameToNothing(p) => CameToNothing(p)',
           submit.pc # "idle" => (wallet'[submit.op] = "none" <=> wallet[submit.op] = "none")
    PROVE  SubmitSound'
<1>1. CASE submit.pc = "idle"
  <2>1. submit = NoSubmit
    BY <1>1 DEF IInv, SubmitSound
  <2> QED BY <1>1, <2>1 DEF SubmitSound, Holding, BeforeWallet, SubmitSteps
<1>2. CASE submit.pc # "idle"
  <2> DEFINE o == submit.op
  <2>1. SubmitSound /\ o \in Ops /\ submit.tab \in Tabs /\ o = begun
    BY <1>2 DEF IInv, SubmitSound
  <2>2. Later(durable[o], durable'[o]) /\ Facts(o) \subseteq Facts(o)'
        /\ durable[o] \in Entry \cup {Null} /\ durable'[o] \in Entry \cup {Null}
    BY <2>1, TypesOf DEF Forward
  <2>3. submit.pc \in Holding =>
          /\ Good(o, submit.entry, Facts(o)') /\ Copy(durable'[o], submit.entry)
          /\ submit.entry.revision >= 1
    <3> SUFFICES ASSUME submit.pc \in Holding
                 PROVE  /\ Good(o, submit.entry, Facts(o)') /\ Copy(durable'[o], submit.entry)
                        /\ submit.entry.revision >= 1
      OBVIOUS
    <3>1. /\ Good(o, submit.entry, Facts(o)) /\ Copy(durable[o], submit.entry)
          /\ submit.entry.revision >= 1
      BY <2>1 DEF SubmitSound
    <3>2. durable[o] # Null
      BY <2>1 DEF SubmitSound, Holding
    <3>3. submit.entry \in Entry /\ durable[o] \in Entry /\ durable'[o] \in Entry
      BY <2>2, <3>1, <3>2 DEF Good, Later
    <3>4. Copy(durable'[o], submit.entry)
      BY <3>1, <3>3, <2>2, CopyKept
    <3>5. Good(o, submit.entry, Facts(o)')
      BY <3>1, <2>2, GoodKept
    <3> QED BY <3>1, <3>4, <3>5
  <2>4. OwnCandidates => \A p \in Ops \ {o} : CameToNothing(p)'
    BY <1>2, <2>1 DEF SubmitSound
  <2>5. submit.pc = "create" => durable'[o] = Null /\ submit.entry = Preparing
    BY <2>1 DEF SubmitSound
  <2>6. submit.pc # "create" => durable'[o] # Null
    BY <1>2, <2>1, <2>2 DEF SubmitSound, Later
  <2>7. submit.pc = "verify" => OnRecord(durable'[o])
    BY <2>1, <2>2, OnRecordKept DEF SubmitSound
  <2>8. /\ submit.pc \in BeforeWallet => wallet'[o] = "none"
        /\ submit.pc \in BeforeWallet \cup {"wallet"} => submit.entry.hash = NoHash
        /\ submit.pc \in {"simulate", "await"} => submit.entry.revision = 1
        /\ submit.pc \in {"await", "verify", "wallet", "hash", "outcome"} => submit.entry.asked
        /\ submit.pc \notin BeforeWallet \cup {"idle"} => wallet'[o] # "none"
        /\ submit.pc \in {"hash", "hashAgain"} =>
              submit.entry.hash = o /\ submit.entry.status = "SUBMITTED"
        /\ submit.pc = "outcome" => submit.entry.outcome \in {"REJECTED", "UNKNOWN"}
    <3> USE <2>1 DEF SubmitSound
    <3>1. submit.pc \in BeforeWallet => wallet'[o] = "none"
      BY <1>2
    <3>2. submit.pc \notin BeforeWallet \cup {"idle"} => wallet'[o] # "none"
      BY <1>2
    <3> QED BY <3>1, <3>2
  <2> QED BY <1>2, <2>1, <2>3, <2>4, <2>5, <2>6, <2>7, <2>8 DEF SubmitSound
<1> QED BY <1>1, <1>2

LEMMA IdleIsSound ==
    ASSUME submit' = NoSubmit
    PROVE  SubmitSound'
<1>1. submit'.pc = "idle"
  BY DEF NoSubmit
<1> QED BY <1>1 DEF SubmitSound, Holding, BeforeWallet

LEMMA EndsIs ==
    ASSUME Ends
    PROVE  /\ submit' = NoSubmit /\ submit' \in Submissions /\ submit'.pc = "idle"
           /\ submit'.op = 0 /\ submit'.op \notin Ops
  BY OpsAre DEF Ends, NoSubmit, Submissions, SubmitSteps

LEMMA HoldIs ==
    ASSUME TypeOK, NEW pc \in SubmitSteps \ {"idle"}, NEW e \in Entry \cup {Null}, Hold(pc, e)
    PROVE  /\ submit' \in Submissions /\ submit'.pc = pc /\ submit'.entry = e
           /\ submit'.tab = submit.tab /\ submit'.op = submit.op
<1>1. PICK w \in BOOLEAN : w = ~ InMemory(submit.tab, submit.op)
  OBVIOUS
<1>2. submit' = [submit EXCEPT !.pc = pc, !.entry = e, !.waiting = w]
  BY <1>1 DEF Hold
<1>3. submit \in Submissions
  BY DEF TypeOK
<1> QED BY ONLY <1>2, <1>3, pc \in SubmitSteps, e \in Entry \cup {Null}, w \in BOOLEAN
        DEF Submissions

\* What a running submission is.
LEMMA Running ==
    ASSUME TypeOK, IInv, submit.pc # "idle"
    PROVE  /\ submit.tab \in Tabs /\ submit.op \in Ops /\ submit.op = begun
           /\ durable[submit.op] \in Entry \cup {Null}
           /\ submit.pc # "create" => durable[submit.op] \in Entry /\ durable[submit.op] # Null
           /\ submit.pc \in Holding =>
                /\ submit.entry \in Entry /\ Good(submit.op, submit.entry, Facts(submit.op))
                /\ Copy(durable[submit.op], submit.entry) /\ submit.entry.revision >= 1
<1>1. SubmitSound
  BY DEF IInv
<1>2. submit.tab \in Tabs /\ submit.op \in Ops /\ submit.op = begun
  BY <1>1 DEF SubmitSound
<1>3. durable[submit.op] \in Entry \cup {Null}
  BY <1>2, TypesOf
<1> QED BY <1>1, <1>2, <1>3 DEF SubmitSound, Good, Holding

-----------------------------------------------------------------------------
(* Saving.                                                                 *)

LEMMA SavedIs ==
    ASSUME NEW t, NEW o, NEW e
    PROVE  /\ SaveInStorage(t, o, e, "stored") =>
                 Fresh(e, o) /\ Store(t, o, Advanced(e, e.revision))
           /\ SaveInStorage(t, o, e, "conflict") => ~ Fresh(e, o) /\ UNCHANGED <<durable, issues>>
           /\ SaveInStorage(t, o, e, "unavailable") => Fresh(e, o) /\ WriteFails(t, o)
  BY DEF SaveInStorage

LEMMA IssuesTyped ==
    ASSUME TypeOK, NEW t \in Tabs, NEW o \in Ops
    PROVE  /\ [issues EXCEPT ![t] = @ \ {o}] \in [Tabs -> SUBSET Ops]
           /\ [issues EXCEPT ![t] = @ \cup {o}] \in [Tabs -> SUBSET Ops]
<1>1. issues \in [Tabs -> SUBSET Ops]
  BY DEF TypeOK
<1> QED BY <1>1

\* An entry goes to storage.
LEMMA StoreIs ==
    ASSUME TypeOK, NEW t \in Tabs, NEW o \in Ops, NEW e \in Entry, Store(t, o, e)
    PROVE  /\ durable' \in [Ops -> Entry \cup {Null}] /\ durable'[o] = e /\ durable'[o] # Null
           /\ \A p \in Ops \ {o} : durable'[p] = durable[p]
           /\ issues' \in [Tabs -> SUBSET Ops]
  BY IssuesTyped, EntryFields DEF Store, TypeOK

LEMMA WriteFailsIs ==
    ASSUME TypeOK, NEW t \in Tabs, NEW o \in Ops, WriteFails(t, o)
    PROVE  durable' = durable /\ issues' \in [Tabs -> SUBSET Ops]
  BY IssuesTyped DEF WriteFails, TypeOK

\* An entry is put over what is stored.
LEMMA OverlaidIs ==
    ASSUME TypeOK, NEW t \in Tabs, NEW o \in Ops, NEW e \in Entry, volatile' = Overlaid(t, o, e)
    PROVE  /\ volatile' \in [Tabs -> [Ops -> Overlays \cup {Null}]]
           /\ volatile'[t][o] # Null /\ volatile'[t][o].entry = Advanced(e, e.revision)
           /\ volatile[t][o] = Null => volatile'[t][o].base = e.revision
           /\ volatile[t][o] # Null => volatile'[t][o].base = volatile[t][o].base
           /\ \A u \in Tabs, p \in Ops : u # t \/ p # o => volatile'[u][p] = volatile[u][p]
<1>1. volatile \in [Tabs -> [Ops -> Overlays \cup {Null}]]
  BY DEF TypeOK
<1>2. PICK b : b = IF volatile[t][o] = Null THEN e.revision ELSE volatile[t][o].base
  OBVIOUS
<1>3. b \in Nat
  BY <1>1, <1>2, EntryFields, TypesOf
<1>4. PICK a \in Entry : a = Advanced(e, e.revision)
  BY AdvancedIs, EntryFields
<1>5. PICK new \in Overlays : new = [entry |-> a, base |-> b]
  BY <1>3 DEF Overlays
<1>6. volatile' = [volatile EXCEPT ![t][o] = new]
  BY <1>1, <1>2, <1>4, <1>5 DEF Overlaid
<1>7. new # Null /\ new.entry = a /\ new.base = b
  BY <1>5
<1>8. /\ volatile' \in [Tabs -> [Ops -> Overlays \cup {Null}]] /\ volatile'[t][o] = new
      /\ \A u \in Tabs, p \in Ops : u # t \/ p # o => volatile'[u][p] = volatile[u][p]
  BY ONLY <1>1, <1>6, new \in Overlays, t \in Tabs, o \in Ops
<1> QED BY <1>2, <1>4, <1>7, <1>8

LEMMA SavedInMemoryIs ==
    ASSUME TypeOK, NEW t \in Tabs, NEW o \in Ops, NEW e \in Entry, volatile[t][o] # Null,
           SaveInMemory(t, o, e)
    PROVE  /\ e.revision = volatile[t][o].entry.revision /\ UNCHANGED <<durable, issues>>
           /\ volatile' \in [Tabs -> [Ops -> Overlays \cup {Null}]]
           /\ volatile'[t][o] # Null /\ volatile'[t][o].entry = Advanced(e, e.revision)
           /\ volatile'[t][o].base = volatile[t][o].base
           /\ \A u \in Tabs, p \in Ops : u # t \/ p # o => volatile'[u][p] = volatile[u][p]
<1>1. volatile \in [Tabs -> [Ops -> Overlays \cup {Null}]] /\ volatile[t][o] \in Overlays
  BY DEF TypeOK
<1>2. PICK a \in Entry : a = Advanced(e, e.revision)
  BY AdvancedIs, EntryFields
<1>3. PICK v \in Overlays : v = volatile[t][o]
  BY <1>1
<1>4. PICK new : new = [v EXCEPT !.entry = a]
  OBVIOUS
<1>5. new \in Overlays /\ new.entry = a /\ new.base = v.base
  BY <1>4 DEF Overlays
<1>6. volatile' = [volatile EXCEPT ![t][o] = new]
  BY <1>1, <1>2, <1>3, <1>4 DEF SaveInMemory
<1>7. /\ volatile' \in [Tabs -> [Ops -> Overlays \cup {Null}]] /\ volatile'[t][o] = new
      /\ \A u \in Tabs, p \in Ops : u # t \/ p # o => volatile'[u][p] = volatile[u][p]
  BY ONLY <1>1, <1>5, <1>6, t \in Tabs, o \in Ops
<1> QED BY <1>2, <1>3, <1>5, <1>7 DEF SaveInMemory

\* A step of a submission leaves everything else.
LEMMA SubmitTyped ==
    ASSUME TypeOK, durable' \in [Ops -> Entry \cup {Null}],
           volatile' \in [Tabs -> [Ops -> Overlays \cup {Null}]],
           \A t \in Tabs, o \in Ops : volatile'[t][o] # Null =>
              volatile'[t][o].base \in 1..Revision(durable'[o]),
           issues' \in [Tabs -> SUBSET Ops], submit' \in Submissions,
           submit'.pc \notin {"idle", "create"} => durable'[submit'.op] # Null,
           UNCHANGED Elsewhere
    PROVE  TypeOK'
  BY DEF TypeOK, Elsewhere, chainVars, InMemory, Revision

\* Storage has the next entry of an operation.
LEMMA BasesStay ==
    ASSUME TypeOK, durable' \in [Ops -> Entry \cup {Null}],
           \A o \in Ops : Revision(durable'[o]) >= Revision(durable[o]),
           NEW t \in Tabs, NEW o \in Ops, volatile'[t][o] = volatile[t][o], volatile'[t][o] # Null
    PROVE  volatile'[t][o].base \in 1..Revision(durable'[o])
<1>1. volatile[t][o].base \in 1..Revision(durable[o]) /\ durable[o] \in Entry \cup {Null}
      /\ durable'[o] \in Entry \cup {Null}
  BY TypesOf
<1>2. Revision(durable[o]) \in Nat /\ Revision(durable'[o]) \in Nat
  BY <1>1, EntryFields DEF Revision
<1> QED BY <1>1, <1>2

LEMMA RevisionOf ==
    ASSUME NEW d \in Entry
    PROVE  Revision(d) = d.revision /\ d.revision \in Nat
  BY EntryFields DEF Revision

\* The submission stores the entry it holds, or one like it, and goes on.
LEMMA SubmitStores ==
    ASSUME TypeOK, IInv, submit.pc # "idle",
           NEW t \in Tabs, t = submit.tab, NEW o \in Ops, o = submit.op, NEW new \in Entry,
           Store(t, o, new), Later(durable[o], new),
           UNCHANGED volatile, UNCHANGED Elsewhere,
           submit' \in Submissions, Good(o, new, Facts(o)'), new.revision >= 1,
           submit' = NoSubmit
              \/ (submit'.tab = t /\ submit'.op = o /\ submit'.pc # "idle"
                  /\ submit.pc # "refuse" /\ SubmitSound')
    PROVE  TypeOK' /\ IInv' /\ Onward
<1>1. o = begun
  BY Running
<1>2. /\ durable' \in [Ops -> Entry \cup {Null}] /\ durable'[o] = new /\ durable'[o] # Null
      /\ \A p \in Ops \ {o} : durable'[p] = durable[p]
      /\ issues' \in [Tabs -> SUBSET Ops]
  BY <1>1, StoreIs
<1>3. \A p \in Ops : submit'.op = p => submit.op = p /\ submit.pc # "refuse"
  BY OpsAre DEF NoSubmit
<1>4. SubmitSound'
  BY IdleIsSound
<1>5. ASSUME NEW p \in Ops PROVE Facts(p) \subseteq Facts(p)'
  BY <1>3, FactsGrow DEF Elsewhere, chainVars
<1>6. ASSUME NEW p \in Ops
      PROVE  Later(durable[p], durable'[p]) /\ Revision(durable'[p]) >= Revision(durable[p])
  <2>1. durable[p] \in Entry \cup {Null}
    BY TypesOf
  <2>2. CASE p = o
    BY <1>2, <2>1, <2>2, EntryFields DEF Later, Revision
  <2>3. CASE p # o
    BY <1>2, <2>1, <2>3, EntryFields DEF Later, Revision
  <2> QED BY <2>2, <2>3
<1>7. Forward
  BY <1>2, <1>3, <1>5, <1>6, OpsAre DEF Forward, NoSubmit
<1>8. TypeOK'
  <2>1. volatile' \in [Tabs -> [Ops -> Overlays \cup {Null}]]
    BY DEF TypeOK
  <2>2. ASSUME NEW u \in Tabs, NEW p \in Ops, volatile'[u][p] # Null
        PROVE  volatile'[u][p].base \in 1..Revision(durable'[p])
    BY <1>2, <1>6, <2>2, BasesStay
  <2>3. submit'.pc \notin {"idle", "create"} => durable'[submit'.op] # Null
    BY <1>2 DEF NoSubmit
  <2> QED BY <1>2, <2>1, <2>2, <2>3, SubmitTyped
<1>9. StoredSound(o, durable'[o], Facts(o)')
  BY <1>2 DEF StoredSound
<1>10. CheckSound(o, durable'[o], check'[o], volatile'[check'[o].tab][o], submit', Facts(o)')
  BY <1>1, <1>7, ChecksKept DEF Elsewhere
<1>11. ASSUME NEW u \in Tabs
       PROVE  OverlaySound(u, o, durable'[o], volatile'[u][o], submit', Facts(o)')
  BY <1>1, <1>7, OverlaysKept
<1>12. \A p \in Ops : tx'[p] \in {"reverted", "replaced"} => p \in failed'
  BY DEF IInv, OperationSound, Elsewhere, chainVars
<1>13. o \in Nat /\ ~ (o > begun)
  BY <1>1, OpsAre
<1>14. IInv'
  <2>1. /\ \A p \in Ops \ {o} : durable'[p] = durable[p] /\ check'[p] = check[p]
        /\ \A u \in Tabs, p \in Ops \ {o} : volatile'[u][p] = volatile[u][p]
        /\ \A p \in Ops : wallet'[p] # "none" => wallet[p] # "none"
        /\ begun' = begun
    BY <1>2 DEF Elsewhere
  <2> QED BY <1>1, <1>4, <1>7, <1>9, <1>10, <1>11, <1>12, <1>13, <2>1, OneOperation
<1> QED BY <1>7, <1>8, <1>14 DEF Forward, Onward

\* The submission writes the overlay of its tab, and goes on or ends.
LEMMA SubmitOverlays ==
    ASSUME TypeOK, IInv, submit.pc \notin {"idle", "create"},
           NEW t \in Tabs, t = submit.tab, NEW o \in Ops, o = submit.op,
           volatile' \in [Tabs -> [Ops -> Overlays \cup {Null}]], volatile'[t][o] # Null,
           \A u \in Tabs, p \in Ops : u # t \/ p # o => volatile'[u][p] = volatile[u][p],
           volatile[t][o] # Null => volatile'[t][o].base = volatile[t][o].base,
           durable' = durable, issues' \in [Tabs -> SUBSET Ops], UNCHANGED Elsewhere,
           OverlaySound(t, o, durable[o], volatile'[t][o], submit', Facts(o)'),
           submit' \in Submissions,
           submit' = NoSubmit
              \/ (submit'.tab = t /\ submit'.op = o /\ submit'.pc \notin {"idle", "create"}
                  /\ submit.pc # "refuse" /\ SubmitSound' /\ volatile[t][o] # Null)
    PROVE  TypeOK' /\ IInv' /\ Onward
<1>1. o = begun /\ durable[o] \in Entry
  BY Running
<1>2. \A p \in Ops : submit'.op = p => submit.op = p /\ submit.pc # "refuse"
  BY OpsAre DEF NoSubmit
<1>3. SubmitSound'
  BY IdleIsSound
<1>4. ASSUME NEW p \in Ops PROVE Facts(p) \subseteq Facts(p)'
  BY <1>2, FactsGrow DEF Elsewhere, chainVars
<1>5. Forward
  BY <1>2, <1>4, OpsAre DEF Forward, NoSubmit, Later, TypeOK
<1>6. TypeOK'
  <2>1. durable' \in [Ops -> Entry \cup {Null}]
    BY DEF TypeOK
  <2>2. ASSUME NEW u \in Tabs, NEW p \in Ops, volatile'[u][p] # Null
        PROVE  volatile'[u][p].base \in 1..Revision(durable'[p])
    <3>1. CASE u = t /\ p = o
      BY <1>1, <3>1, RevisionOf DEF OverlaySound
    <3>2. CASE u # t \/ p # o
      BY <2>2, <3>2, TypesOf
    <3> QED BY <3>1, <3>2
  <2>3. submit'.pc \notin {"idle", "create"} => durable'[submit'.op] # Null
    BY <1>1, EntryFields DEF NoSubmit
  <2> QED BY <2>1, <2>2, <2>3, SubmitTyped
<1>7. StoredSound(o, durable'[o], Facts(o)')
  BY <1>4, UnwrittenKept
<1>8. CheckSound(o, durable'[o], check'[o], volatile'[check'[o].tab][o], submit', Facts(o)')
  <2>1. ASSUME NEW u \in Tabs
        PROVE  /\ volatile[u][o] # Null =>
                     volatile'[u][o] # Null /\ volatile'[u][o].base = volatile[u][o].base
               /\ submit'.tab = u /\ submit'.op = o /\ volatile[u][o] = Null =>
                     volatile'[u][o] = Null
    BY OpsAre DEF NoSubmit
  <2>2. check'[o] = check[o]
    BY DEF Elsewhere
  <2> QED BY <1>5, <2>1, <2>2, ChecksKept
<1>9. ASSUME NEW u \in Tabs
      PROVE  OverlaySound(u, o, durable'[o], volatile'[u][o], submit', Facts(o)')
  <2>1. CASE u = t
    BY <2>1
  <2>2. CASE u # t
    BY <1>5, <2>2, OverlaysKept
  <2> QED BY <2>1, <2>2
<1>10. \A p \in Ops : tx'[p] \in {"reverted", "replaced"} => p \in failed'
  BY DEF IInv, OperationSound, Elsewhere, chainVars
<1>11. o \in Nat /\ ~ (o > begun)
  BY <1>1, OpsAre
<1>12. /\ \A p \in Ops \ {o} : durable'[p] = durable[p] /\ check'[p] = check[p]
       /\ \A u \in Tabs, p \in Ops \ {o} : volatile'[u][p] = volatile[u][p]
       /\ \A p \in Ops : wallet'[p] # "none" => wallet[p] # "none"
       /\ begun' = begun
  BY DEF Elsewhere
<1>13. IInv'
  BY <1>3, <1>5, <1>7, <1>8, <1>9, <1>10, <1>11, <1>12, OneOperation
<1> QED BY <1>5, <1>6, <1>13 DEF Forward, Onward

\* The submission goes on or ends, and writes nothing.
LEMMA SubmitGoesOn ==
    ASSUME TypeOK, IInv, submit.pc # "idle", UNCHANGED <<durable, volatile, Elsewhere>>,
           issues' \in [Tabs -> SUBSET Ops],
           submit' \in Submissions,
           submit' = NoSubmit
              \/ (submit'.tab = submit.tab /\ submit'.op = submit.op /\ submit'.pc # "idle"
                  /\ (submit.pc = "refuse" => submit'.pc = "refuse") /\ SubmitSound')
    PROVE  TypeOK' /\ IInv' /\ Onward
<1>1. SubmitSound'
  BY IdleIsSound
<1>2. submit.op \in Ops
  BY Running
<1>3. \A p \in Ops : submit'.op = p =>
         submit.op = p /\ (submit.pc = "refuse" => submit'.pc = "refuse")
  BY OpsAre DEF NoSubmit
<1>4. UNCHANGED <<durable, volatile, check, wallet, tx, failed, begun>>
  BY DEF Elsewhere, chainVars
<1>5. ASSUME NEW p \in Ops PROVE Facts(p) \subseteq Facts(p)'
  BY <1>3, <1>4, FactsGrow
<1>6. \A p \in Ops : tx'[p] \in {"reverted", "replaced"} => p \in failed'
  BY <1>4 DEF IInv, OperationSound
<1>7. \A u \in Tabs, p \in Ops :
         submit'.tab = u /\ submit'.op = p => submit.tab = u /\ submit.op = p
  BY OpsAre DEF NoSubmit
<1>8. IInv'
  BY <1>1, <1>4, <1>5, <1>6, <1>7, JournalUnwritten
<1>9. submit'.pc \notin {"idle", "create"} => durable'[submit'.op] # Null
  <2> SUFFICES ASSUME submit'.pc \notin {"idle", "create"} PROVE durable'[submit'.op] # Null
    OBVIOUS
  <2>1. submit' # NoSubmit
    BY DEF NoSubmit
  <2>2. SubmitSound'
    BY <1>1
  <2> QED BY <2>2 DEF SubmitSound
<1>10. TypeOK'
  BY <1>4, <1>9, SubmitTyped, TypesOf DEF TypeOK
<1> QED BY <1>4, <1>8, <1>10, UnwrittenGoesOn

\* What a submission needs to be told apart by its place.
LEMMA HeldIsSound ==
    ASSUME TypeOK, IInv, submit.pc # "idle", begun' = begun, failed \subseteq failed',
           NEW o \in Ops, o = submit.op, submit'.op = o, submit'.tab = submit.tab,
           \A p \in Ops \ {o} : wallet'[p] = wallet[p],
           NEW e, submit'.entry = e, submit'.pc \in SubmitSteps \ {"idle", "create"},
           durable'[o] # Null,
           submit'.pc # "nonce" =>
              Good(o, e, Facts(o)') /\ Copy(durable'[o], e) /\ e.revision >= 1,
           submit'.pc \in BeforeWallet => wallet'[o] = "none",
           submit'.pc \in BeforeWallet \cup {"wallet"} => e.hash = NoHash,
           submit'.pc \in {"simulate", "await"} => e.revision = 1,
           submit'.pc \in {"await", "verify", "wallet", "hash", "outcome"} => e.asked,
           submit'.pc = "verify" => OnRecord(durable'[o]),
           submit'.pc \notin BeforeWallet => wallet'[o] # "none",
           submit'.pc \in {"hash", "hashAgain"} => e.hash = o /\ e.status = "SUBMITTED",
           submit'.pc = "outcome" => e.outcome \in {"REJECTED", "UNKNOWN"}
    PROVE  SubmitSound'
<1>1. submit.tab \in Tabs /\ o = begun
  BY Running
<1>2. OwnCandidates => \A p \in Ops \ {o} : CameToNothing(p)'
  <2>1. OwnCandidates => \A p \in Ops \ {o} : CameToNothing(p)
    BY DEF IInv, SubmitSound
  <2> QED BY <2>1 DEF CameToNothing
<1>3. /\ submit'.pc # "idle" /\ submit'.pc # "create"
      /\ submit'.pc \in Holding => submit'.pc # "nonce"
  BY DEF Holding
<1> QED BY <1>1, <1>2, <1>3 DEF SubmitSound


-----------------------------------------------------------------------------
(* submitOperation, up to the wallet.                                      *)

LEMMA IssuesKept ==
    ASSUME TypeOK, UNCHANGED issues
    PROVE  issues' \in [Tabs -> SUBSET Ops]
  BY DEF TypeOK

\* An entry that starts from what is stored goes before it.
LEMMA FreshIsLater ==
    ASSUME NEW o, NEW d \in Entry, NEW e \in Entry, Copy(d, e), e.revision = d.revision,
           NEW new \in Entry, new.revision = e.revision + 1, Descends(e, new)
    PROVE  Later(d, new)
<1>1. d.revision \in Nat /\ Revision(d) = d.revision /\ new # Null
  BY RevisionOf, EntryFields
<1> QED BY <1>1 DEF Copy, Descends, Later

\* In memory an entry of the submission is ahead of an older base.
LEMMA SavedOverBase ==
    ASSUME TypeOK, IInv, submit.pc \in Holding, NEW t \in Tabs, t = submit.tab,
           NEW o \in Ops, o = submit.op, volatile[t][o] # Null,
           SaveInMemory(t, o, submit.entry), NEW s, NEW facts, Facts(o) \subseteq facts
    PROVE  /\ OverlaySound(t, o, durable[o], volatile'[t][o], s, facts)
           /\ submit.entry.revision > 1
<1>1. /\ submit.entry \in Entry /\ Good(o, submit.entry, Facts(o))
      /\ Copy(durable[o], submit.entry) /\ durable[o] \in Entry
  BY Running DEF Holding
<1>2. OverlaySound(t, o, durable[o], volatile[t][o], submit, Facts(o))
  BY DEF IInv
<1>3. /\ submit.entry.revision = volatile[t][o].entry.revision
      /\ volatile'[t][o] # Null
      /\ volatile'[t][o].entry = Advanced(submit.entry, submit.entry.revision)
      /\ volatile'[t][o].base = volatile[t][o].base
  BY <1>1, SavedInMemoryIs
<1>4. /\ volatile[t][o].base \in 1..durable[o].revision /\ durable[o] # Null
      /\ submit.entry.revision > volatile[t][o].base
  BY <1>2, <1>3 DEF OverlaySound, Based
<1>5. /\ submit.entry.revision \in Nat /\ durable[o].revision \in Nat
      /\ submit.entry.revision <= durable[o].revision
  BY <1>1, EntryFields DEF Copy
<1>6. /\ volatile'[t][o].entry.revision = submit.entry.revision + 1
      /\ Good(o, volatile'[t][o].entry, facts)
  <2>1. PICK e \in Entry : e = submit.entry
    BY <1>1
  <2>2. e.revision \in Nat /\ Good(o, e, Facts(o))
    BY <1>1, <2>1, EntryFields
  <2>3. Advanced(e, e.revision).revision = e.revision + 1
    BY <2>2, AdvancedIs
  <2>4. Good(o, Advanced(e, e.revision), Facts(o))
    BY <2>2, GoodAdvanced
  <2>5. Good(o, Advanced(e, e.revision), facts)
    BY <2>4, GoodKept
  <2> QED BY <1>3, <2>1, <2>3, <2>5
<1>7. Based(t, o, durable[o], volatile'[t][o].base, s, volatile'[t][o].entry)
  BY <1>3, <1>4, <1>5, <1>6 DEF Based
<1>8. submit.entry.revision > 1
  BY <1>4, <1>5
<1> QED BY <1>3, <1>4, <1>6, <1>7, <1>8 DEF OverlaySound

\* What a save makes of a good entry.
LEMMA AdvancedGood ==
    ASSUME NEW o, NEW facts, NEW e \in Entry, Good(o, e, facts)
    PROVE  \E new \in Entry :
              /\ new = Advanced(e, e.revision) /\ new.revision = e.revision + 1 /\ new # Null
              /\ new.status = e.status /\ new.hash = e.hash /\ new.outcome = e.outcome
              /\ new.asked = e.asked /\ Good(o, new, facts)
<1>1. e.revision \in Nat
  BY EntryFields
<1>2. PICK new : new = Advanced(e, e.revision)
  OBVIOUS
<1>3. /\ new \in Entry /\ new.revision = e.revision + 1
      /\ new.status = e.status /\ new.hash = e.hash /\ new.outcome = e.outcome
      /\ new.asked = e.asked
  BY <1>1, <1>2, AdvancedIs
<1>4. Good(o, new, facts)
  BY <1>1, <1>2, GoodAdvanced
<1>5. new # Null
  BY <1>3, EntryFields
<1> QED BY <1>2, <1>3, <1>4, <1>5

LEMMA FactsAtEnd ==
    ASSUME NEW o \in Ops, UNCHANGED Elsewhere,
           submit' = NoSubmit \/ (submit.pc # "refuse" /\ submit'.op = submit.op)
    PROVE  Facts(o) \subseteq Facts(o)'
  BY FactsGrow, OpsAre DEF Elsewhere, chainVars, NoSubmit

NextAfter(pc) == IF pc = "create" THEN "simulate" ELSE IF pc = "await" THEN "verify" ELSE "idle"

LEMMA Saving ==
    ASSUME TypeOK, IInv, NEW pc \in {"create", "await", "refuse"}, SaveOrThrow(pc, NextAfter(pc))
    PROVE  TypeOK' /\ IInv' /\ Onward
<1> DEFINE next == NextAfter(pc)
<1>1. /\ submit.pc = pc /\ UNCHANGED Elsewhere /\ pc # "idle"
      /\ next \in SubmitSteps /\ pc \in BeforeWallet
      /\ next = "idle" <=> pc = "refuse"
  BY DEF SaveOrThrow, NextAfter, SubmitSteps, BeforeWallet
<1>2. PICK t \in Tabs : t = submit.tab
  BY <1>1, Running
<1>3. PICK o \in Ops : o = submit.op
  BY <1>1, Running
<1>4. PICK e : e = submit.entry
  OBVIOUS
<1>5. /\ SubmitSound /\ wallet[o] = "none" /\ e.hash = NoHash
      /\ pc = "create" => durable[o] = Null /\ e = Preparing
      /\ pc = "await" => e.asked /\ e.revision = 1
  BY <1>1, <1>3, <1>4 DEF IInv, SubmitSound
<1>6. /\ e \in Entry /\ Good(o, e, Facts(o)) /\ e.revision \in Nat
      /\ pc # "create" => Copy(durable[o], e) /\ durable[o] \in Entry /\ durable[o] # Null
                          /\ e.revision >= 1 /\ submit.pc \in Holding
  <2>1. CASE pc = "create"
    BY <1>5, <2>1, PreparingIs DEF Good, SentStatuses, NoHash
  <2>2. CASE pc # "create"
    BY <1>1, <1>3, <1>4, <2>2, Running, EntryFields DEF Holding, SubmitSteps
  <2> QED BY <2>1, <2>2
<1>7. PICK new \in Entry :
         /\ new = Advanced(e, e.revision) /\ new.revision = e.revision + 1 /\ new # Null
         /\ new.hash = e.hash /\ new.asked = e.asked /\ Good(o, new, Facts(o))
  BY <1>6, AdvancedGood
<1>8. CASE submit.waiting /\ UNCHANGED volatile /\ SaveInStorage(t, o, e, "stored")
             /\ Hold(next, new)
  <2>1. Fresh(e, o) /\ Store(t, o, new)
    BY <1>7, <1>8, SavedIs
  <2>2. Later(durable[o], new)
    <3>1. CASE pc = "create"
      BY <1>5, <1>6, <1>7, <3>1 DEF Later, Revision
    <3>2. CASE pc # "create"
      BY <1>6, <1>7, <2>1, <3>2, FreshIsLater, RevisionOf DEF Fresh, Descends
    <3> QED BY <3>1, <3>2
  <2>3. durable'[o] = new /\ durable'[o] # Null
    BY <2>1, StoreIs
  <2>4. CASE pc = "refuse"
    <3>1. submit' = NoSubmit /\ submit' \in Submissions
      BY <1>1, <1>8, <2>4, EndsIs DEF Hold, Ends
    <3>2. Good(o, new, Facts(o)')
      BY <1>1, <1>7, <3>1, FactsAtEnd, GoodKept
    <3> QED BY <1>1, <1>2, <1>3, <1>6, <1>7, <1>8, <2>1, <2>2, <3>1, <3>2, SubmitStores
  <2>5. CASE pc # "refuse"
    <3>1. /\ submit' \in Submissions /\ submit'.pc = next /\ submit'.entry = new
          /\ submit'.tab = t /\ submit'.op = o /\ next \in {"simulate", "verify"}
      BY <1>1, <1>2, <1>3, <1>8, <2>5, HoldIs DEF NextAfter
    <3>2. Good(o, new, Facts(o)')
      BY <1>1, <1>3, <1>7, <2>5, <3>1, FactsAtEnd, GoodKept
    <3>3. Copy(durable'[o], new) /\ new.revision >= 1
      BY <1>6, <1>7, <2>3 DEF Copy, Descends
    <3>4. next = "verify" => OnRecord(durable'[o])
      BY <1>5, <1>6, <1>7, <2>3, <2>5 DEF OnRecord, NextAfter
    <3>5. next = "verify" => new.asked
      BY <1>5, <1>7, <2>5 DEF NextAfter
    <3>6. next = "simulate" => new.revision = 1
      BY <1>5, <1>6, <1>7, <2>5, PreparingIs DEF NextAfter
    <3>7. /\ wallet'[o] = "none" /\ \A p \in Ops : wallet'[p] = wallet[p]
          /\ failed \subseteq failed' /\ begun' = begun
      BY <1>1, <1>5 DEF Elsewhere, chainVars
    <3>8. SubmitSound'
      BY <1>1, <1>2, <1>3, <1>5, <1>7, <2>3, <3>1, <3>2, <3>3, <3>4, <3>5, <3>6, <3>7, HeldIsSound
         DEF BeforeWallet, SubmitSteps
    <3> QED BY <1>1, <1>2, <1>3, <1>6, <1>7, <1>8, <2>1, <2>2, <2>5, <3>1, <3>2, <3>3, <3>8,
               SubmitStores
  <2> QED BY <2>4, <2>5
<1>9. CASE Ends /\ UNCHANGED volatile /\ durable' = durable /\ issues' \in [Tabs -> SUBSET Ops]
  BY <1>1, <1>9, EndsIs, SubmitGoesOn
<1>10. CASE /\ ~ submit.waiting /\ InMemory(t, o) /\ SaveInMemory(t, o, e) /\ Hold(next, new)
  <2>1. volatile[t][o] # Null
    BY <1>10 DEF InMemory
  <2>2. pc # "create"
    <3>1. OverlaySound(t, o, durable[o], volatile[t][o], submit, Facts(o))
      BY DEF IInv
    <3> QED BY <1>5, <2>1, <3>1 DEF OverlaySound
  <2>3. e.revision > 1
    BY <1>2, <1>3, <1>4, <1>6, <1>10, <2>1, <2>2, SavedOverBase
  <2>4. pc = "refuse"
    BY <1>5, <2>2, <2>3
  <2>5. submit' = NoSubmit /\ submit' \in Submissions
    BY <1>1, <1>10, <2>4, EndsIs DEF Hold, Ends
  <2>6. Facts(o) \subseteq Facts(o)'
    BY <1>1, <2>5, FactsAtEnd
  <2>7. OverlaySound(t, o, durable[o], volatile'[t][o], submit', Facts(o)')
    BY <1>2, <1>3, <1>4, <1>6, <1>10, <2>1, <2>2, <2>6, SavedOverBase
  <2>8. /\ UNCHANGED <<durable, issues>>
        /\ volatile' \in [Tabs -> [Ops -> Overlays \cup {Null}]]
        /\ volatile'[t][o] # Null /\ volatile'[t][o].base = volatile[t][o].base
        /\ \A u \in Tabs, p \in Ops : u # t \/ p # o => volatile'[u][p] = volatile[u][p]
    BY <1>6, <1>10, <2>1, SavedInMemoryIs
  <2> QED BY <1>1, <1>2, <1>3, <2>1, <2>2, <2>5, <2>7, <2>8, IssuesKept, SubmitOverlays
<1>11. \/ /\ submit.waiting /\ UNCHANGED volatile
          /\ \E result \in {"stored", "conflict", "unavailable"} :
                /\ SaveInStorage(t, o, e, result)
                /\ IF result = "stored" THEN Hold(next, Advanced(e, e.revision)) ELSE Ends
       \/ /\ ~ submit.waiting /\ InMemory(t, o)
          /\ \/ SaveInMemory(t, o, e) /\ Hold(next, Advanced(e, e.revision))
             \/ e.revision # Load(t, o).revision /\ Ends /\ UNCHANGED journal
  BY <1>2, <1>3, <1>4 DEF SaveOrThrow
<1>12. CASE /\ submit.waiting /\ UNCHANGED volatile
            /\ \E result \in {"stored", "conflict", "unavailable"} :
                  /\ SaveInStorage(t, o, e, result)
                  /\ IF result = "stored" THEN Hold(next, Advanced(e, e.revision)) ELSE Ends
  <2>1. PICK result \in {"stored", "conflict", "unavailable"} :
           /\ SaveInStorage(t, o, e, result)
           /\ IF result = "stored" THEN Hold(next, Advanced(e, e.revision)) ELSE Ends
    BY <1>12
  <2>2. CASE result = "stored"
    BY <1>7, <1>8, <1>12, <2>1, <2>2
  <2>3. CASE result = "conflict"
    BY <1>9, <1>12, <2>1, <2>3, SavedIs, IssuesKept
  <2>4. CASE result = "unavailable"
    BY <1>9, <1>12, <2>1, <2>4, SavedIs, WriteFailsIs
  <2> QED BY <2>2, <2>3, <2>4
<1>13. CASE e.revision # Load(t, o).revision /\ Ends /\ UNCHANGED journal
  BY <1>9, <1>13, IssuesKept DEF journal
<1> QED BY <1>7, <1>10, <1>11, <1>12, <1>13

LEMMA Requeued ==
    ASSUME TypeOK, IInv, Requeue
    PROVE  TypeOK' /\ IInv' /\ Onward
<1>1. /\ submit.pc # "idle" /\ UNCHANGED <<durable, volatile, issues, Elsewhere>>
      /\ submit' = [submit EXCEPT !.waiting = TRUE]
  BY DEF Requeue, journal
<1>2. submit \in Submissions
  BY DEF TypeOK
<1>3. /\ submit' \in Submissions /\ submit'.pc = submit.pc /\ submit'.tab = submit.tab
      /\ submit'.op = submit.op /\ submit'.entry = submit.entry
  BY ONLY <1>1, <1>2 DEF Submissions
<1>4. UNCHANGED <<wallet, failed, begun>>
  BY <1>1 DEF Elsewhere, chainVars
<1>5. ASSUME NEW o PROVE Facts(o)' = Facts(o)
  BY <1>3, <1>4 DEF Facts
<1>6. ASSUME NEW o PROVE CameToNothing(o)' <=> CameToNothing(o)
  BY <1>4 DEF CameToNothing
<1>7. PICK o : o = submit.op /\ o = submit'.op
  BY <1>3
<1>8. Facts(o)' = Facts(o)
  BY <1>5
<1>9. SubmitSound'
  <2>1. SubmitSound
    BY DEF IInv
  <2>2. UNCHANGED durable
    BY <1>1
  <2> QED BY <1>1, <1>3, <1>4, <1>6, <1>7, <1>8, <2>1, <2>2 DEF SubmitSound
<1> QED BY <1>1, <1>3, <1>9, IssuesKept, SubmitGoesOn

\* The entry of a refusal, whatever it is for.
LEMMA RefusalIsSound ==
    ASSUME TypeOK, IInv, submit.pc \in {"simulate", "verify"}, Refusal(submit.entry),
           UNCHANGED <<durable, Elsewhere>>
    PROVE  /\ submit' \in Submissions /\ submit'.tab = submit.tab /\ submit'.op = submit.op
           /\ submit'.pc = "refuse" /\ SubmitSound'
<1>1. PICK o \in Ops : o = submit.op
  BY Running
<1>2. PICK e \in Entry : e = submit.entry
  BY Running DEF Holding, SubmitSteps
<1>3. /\ Good(o, e, Facts(o)) /\ Copy(durable[o], e) /\ e.revision >= 1
      /\ e.hash = NoHash /\ wallet[o] = "none" /\ durable[o] # Null
  BY <1>1, <1>2, Running DEF Holding, SubmitSteps, IInv, SubmitSound, BeforeWallet
<1>4. PICK new : new = [e EXCEPT !.status = "FAILED_BEFORE_SUBMIT"]
  OBVIOUS
<1>5. /\ new \in Entry /\ new.revision = e.revision /\ new.status = "FAILED_BEFORE_SUBMIT"
      /\ new.hash = e.hash /\ new.outcome = e.outcome /\ new.asked = e.asked
  BY <1>4, StatusIs DEF Statuses
<1>6. Hold("refuse", new)
  BY <1>2, <1>4 DEF Refusal
<1>7. /\ submit' \in Submissions /\ submit'.tab = submit.tab /\ submit'.op = submit.op
      /\ submit'.pc = "refuse" /\ submit'.entry = new
  BY <1>5, <1>6, HoldIs DEF SubmitSteps
<1>8. /\ wallet' = wallet /\ failed' = failed /\ begun' = begun /\ durable' = durable
  BY DEF Elsewhere, chainVars
<1>9. Facts(o) \subseteq Facts(o)'
  BY <1>7, <1>8, FactsGrow
<1>10. "refused" \in Facts(o)'
  BY <1>3, <1>7, <1>8 DEF Facts
<1>11. Good(o, new, Facts(o)')
  BY <1>3, <1>5, <1>9, <1>10 DEF Good, SentStatuses
<1>12. Copy(durable'[o], new) /\ new.revision >= 1
  BY <1>3, <1>5, <1>8 DEF Copy, Descends
<1>13. SubmitSound'
  BY <1>1, <1>3, <1>5, <1>7, <1>8, <1>11, <1>12, HeldIsSound DEF BeforeWallet, SubmitSteps
<1> QED BY <1>7, <1>13

LEMMA Simulated ==
    ASSUME TypeOK, IInv, Simulate
    PROVE  TypeOK' /\ IInv' /\ Onward
<1>1. /\ submit.pc = "simulate" /\ submit.pc # "idle" /\ submit.pc # "refuse"
      /\ UNCHANGED <<durable, volatile, issues, Elsewhere>>
  BY DEF Simulate, journal
<1>2. CASE Refusal(submit.entry)
  BY <1>1, <1>2, RefusalIsSound, IssuesKept, SubmitGoesOn
<1>3. CASE Hold("await", [submit.entry EXCEPT !.status = "AWAITING_WALLET", !.asked = TRUE])
  <2>1. PICK o \in Ops : o = submit.op
    BY <1>1, Running
  <2>2. PICK e \in Entry : e = submit.entry
    BY <1>1, Running DEF Holding, SubmitSteps
  <2>3. /\ Good(o, e, Facts(o)) /\ Copy(durable[o], e) /\ e.revision = 1
        /\ e.hash = NoHash /\ wallet[o] = "none" /\ durable[o] # Null
    BY <1>1, <2>1, <2>2, Running DEF Holding, SubmitSteps, IInv, SubmitSound, BeforeWallet
  <2>4. PICK new : new = [e EXCEPT !.status = "AWAITING_WALLET", !.asked = TRUE]
    OBVIOUS
  <2>5. /\ new \in Entry /\ new.revision = e.revision /\ new.status = "AWAITING_WALLET"
        /\ new.hash = e.hash /\ new.outcome = e.outcome /\ new.asked
    <3>1. PICK a \in BOOLEAN : a = TRUE
      OBVIOUS
    <3>2. new = [e EXCEPT !.status = "AWAITING_WALLET", !.asked = a]
      BY <2>4, <3>1
    <3>3. "AWAITING_WALLET" \in Statuses
      BY DEF Statuses
    <3>4. /\ new \in Entry /\ new.revision = e.revision /\ new.status = "AWAITING_WALLET"
          /\ new.hash = e.hash /\ new.outcome = e.outcome /\ new.asked = a
      BY ONLY <3>2, <3>3, e \in Entry, a \in BOOLEAN DEF Entry
    <3> QED BY <3>1, <3>4
  <2>6. Hold("await", new)
    BY <1>3, <2>2, <2>4
  <2>7. /\ submit' \in Submissions /\ submit'.tab = submit.tab /\ submit'.op = submit.op
        /\ submit'.pc = "await" /\ submit'.entry = new
    BY <2>5, <2>6, HoldIs DEF SubmitSteps
  <2>8. /\ wallet' = wallet /\ failed' = failed /\ begun' = begun /\ durable' = durable
    BY <1>1 DEF Elsewhere, chainVars
  <2>9. Facts(o) \subseteq Facts(o)'
    BY <1>1, <2>7, <2>8, FactsGrow
  <2>10. Good(o, new, Facts(o)')
    BY <2>3, <2>5, <2>9 DEF Good, SentStatuses
  <2>11. Copy(durable'[o], new) /\ new.revision >= 1
    BY <2>3, <2>5, <2>8 DEF Copy, Descends
  <2>12. SubmitSound'
    BY <1>1, <2>1, <2>3, <2>5, <2>7, <2>8, <2>10, <2>11, HeldIsSound DEF BeforeWallet, SubmitSteps
  <2> QED BY <1>1, <2>7, <2>12, IssuesKept, SubmitGoesOn
<1> QED BY <1>2, <1>3 DEF Simulate

\* The wallet is asked for what is on record.
LEMMA Verified ==
    ASSUME TypeOK, IInv, Verify
    PROVE  TypeOK' /\ IInv' /\ Onward
<1>1. /\ submit.pc = "verify" /\ submit.pc # "idle" /\ submit.pc # "refuse"
      /\ UNCHANGED <<durable, volatile, issues, check, tx, failed, begun, checks, mishaps>>
  BY DEF Verify, journal, chainVars
<1>2. CASE Refusal(submit.entry) /\ UNCHANGED wallet
  <2>1. UNCHANGED Elsewhere
    BY <1>1, <1>2 DEF Elsewhere, chainVars
  <2> QED BY <1>1, <1>2, <2>1, RefusalIsSound, IssuesKept, SubmitGoesOn
<1>3. CASE /\ submit' = [submit EXCEPT !.pc = "wallet"]
           /\ wallet' = [wallet EXCEPT ![submit.op] = "open"]
  <2>1. PICK o \in Ops : o = submit.op
    BY <1>1, Running
  <2>2. PICK e \in Entry : e = submit.entry
    BY <1>1, Running DEF Holding, SubmitSteps
  <2>3. /\ Good(o, e, Facts(o)) /\ Copy(durable[o], e) /\ e.revision >= 1
        /\ e.hash = NoHash /\ e.asked /\ wallet[o] = "none" /\ OnRecord(durable[o])
        /\ durable[o] # Null
    BY <1>1, <2>1, <2>2, Running DEF Holding, SubmitSteps, IInv, SubmitSound, BeforeWallet
  <2>4. wallet \in [Ops -> {"none", "open", "approved", "rejected", "lost"}]
    BY DEF TypeOK
  <2>5. /\ wallet' \in [Ops -> {"none", "open", "approved", "rejected", "lost"}]
        /\ wallet'[o] = "open" /\ \A p \in Ops \ {o} : wallet'[p] = wallet[p]
    BY ONLY <1>3, <2>1, <2>4
  <2>6. submit \in Submissions
    BY DEF TypeOK
  <2>7. /\ submit' \in Submissions /\ submit'.pc = "wallet" /\ submit'.tab = submit.tab
        /\ submit'.op = submit.op /\ submit'.entry = e
    BY ONLY <1>3, <2>2, <2>6 DEF Submissions, SubmitSteps
  <2>8. ASSUME NEW p \in Ops PROVE Facts(p) \subseteq Facts(p)'
    <3>1. CASE p = o
      BY <1>1, <2>1, <2>3, <2>5, <2>7, <3>1, FactsGrow
    <3>2. CASE p # o
      BY <1>1, <2>1, <2>5, <2>7, <3>2, FactsGrow
    <3> QED BY <3>1, <3>2
  <2>9. Good(o, e, Facts(o)') /\ Copy(durable'[o], e)
    BY <1>1, <2>3, <2>8, GoodKept
  <2>10. SubmitSound'
    BY <1>1, <2>1, <2>3, <2>5, <2>7, <2>9, HeldIsSound DEF BeforeWallet, SubmitSteps
  <2>11. \A p \in Ops : wallet'[p] # "none" => wallet[p] # "none" \/ OnRecord(durable[p])
    BY <2>3, <2>5
  <2>12. \A p \in Ops : tx'[p] \in {"reverted", "replaced"} => p \in failed'
    BY <1>1 DEF IInv, OperationSound
  <2>13. IInv'
    BY <1>1, <2>7, <2>8, <2>10, <2>11, <2>12, JournalUnwritten
  <2>14. TypeOK'
    BY <1>1, <2>1, <2>3, <2>5, <2>7 DEF TypeOK, InMemory, Revision
  <2> QED BY <1>1, <2>13, <2>14, UnwrittenGoesOn
<1> QED BY <1>2, <1>3 DEF Verify

\* A tab finds no attempt that owns the intent: all before came to nothing.
LEMMA ResolvedCameToNothing ==
    ASSUME TypeOK, IInv, NEW t \in Tabs, ~ Unresolved(t), OwnCandidates, NEW p \in Ops
    PROVE  CameToNothing(p)
<1> SUFFICES ASSUME wallet[p] # "none" PROVE CameToNothing(p)
  BY DEF CameToNothing
<1>1. durable[p] # Null
  BY DEF IInv, OperationSound, OnRecord
<1>2. PICK e : e = Load(t, p)
  OBVIOUS
<1>3. Good(p, e, Facts(p)) /\ e # Null
  <2>1. CASE volatile[t][p] = Null
    BY <1>1, <1>2, <2>1 DEF Load, IInv, OperationSound, StoredSound
  <2>2. CASE volatile[t][p] # Null
    <3>1. Good(p, volatile[t][p].entry, Facts(p))
      BY <2>2 DEF IInv, OverlaySound
    <3> QED BY <1>2, <2>2, <3>1, EntryFields DEF Load, Good
  <2> QED BY <2>1, <2>2
<1>4. e \in Entry /\ ~ Owns(e)
  BY <1>2, <1>3 DEF Unresolved, Good
<1>5. e.status \in {"REJECTED", "FAILED_BEFORE_SUBMIT", "INCLUDED_REVERTED",
                    "REPLACED_OR_CANCELLED"}
  BY <1>4, EntryFields DEF Owns, Statuses
<1>6. "rejected" \in Facts(p) \/ "refused" \in Facts(p) \/ "failed" \in Facts(p)
  BY <1>3, <1>5 DEF Good
<1> QED BY <1>6 DEF Facts, CameToNothing

LEMMA Started ==
    ASSUME TypeOK, IInv, NEW t \in Tabs, Start(t)
    PROVE  TypeOK' /\ IInv' /\ Onward
<1>1. /\ submit = NoSubmit /\ ~ Unresolved(t) /\ begun < MaxOps /\ begun' = begun + 1
      /\ submit' = [NoSubmit EXCEPT !.pc = "create", !.tab = t, !.op = begun + 1,
                                    !.entry = Preparing, !.waiting = TRUE]
      /\ UNCHANGED <<durable, volatile, issues, check, wallet, tx, failed, checks, mishaps>>
  BY DEF Start, journal, chainVars
<1>2. begun \in Nat /\ MaxOps \in Nat
  BY DEF TypeOK
<1>3. PICK o \in Ops : o = begun + 1
  BY <1>1, <1>2 DEF Ops
<1>4. begun' \in 0..MaxOps /\ o > begun /\ begun' = o
  BY <1>1, <1>2, <1>3
<1>5. /\ submit'.pc = "create" /\ submit'.tab = t /\ submit'.op = o /\ submit'.entry = Preparing
      /\ submit' \in Submissions
  <2>1. PICK e \in Entry : e = Preparing
    BY PreparingIs
  <2>2. submit' = [NoSubmit EXCEPT !.pc = "create", !.tab = t, !.op = o, !.entry = e,
                                   !.waiting = TRUE]
    BY <1>1, <1>3, <2>1
  <2>3. /\ submit'.pc = "create" /\ submit'.tab = t /\ submit'.op = o /\ submit'.entry = e
        /\ submit' \in Submissions
    <3>1. submit' = [pc |-> "create", tab |-> t, op |-> o, entry |-> e, waiting |-> TRUE,
                     tries |-> 0]
      BY ONLY <2>2 DEF NoSubmit
    <3>2. t \in Tabs \cup {Null} /\ o \in Ops \cup {0} /\ e \in Entry \cup {Null}
      OBVIOUS
    <3> QED BY ONLY <3>1, <3>2 DEF Submissions, SubmitSteps
  <2> QED BY <2>1, <2>3
<1>6. /\ durable[o] = Null /\ wallet[o] = "none" /\ check[o].pc = "idle" /\ check[o] = NoCheck
      /\ \A u \in Tabs : volatile[u][o] = Null
  BY <1>4 DEF IInv, OperationSound, OnRecord, CheckSound, OverlaySound
<1>7. TypeOK'
  BY <1>1, <1>4, <1>5 DEF TypeOK, InMemory, Revision
<1>8. ASSUME NEW p \in Ops, p # o PROVE Facts(p) \subseteq Facts(p)'
  BY <1>1, <1>5, <1>8, FactsGrow
<1>9. ASSUME NEW p \in Ops PROVE OperationSound(p)'
  <2>1. OperationSound(p)
    BY DEF IInv
  <2>2. p > begun' => durable'[p] = Null
    BY <1>1, <1>2, <2>1, OpsAre DEF OperationSound
  <2>3. /\ StoredSound(p, durable'[p], Facts(p)')
        /\ CheckSound(p, durable'[p], check'[p], volatile'[check'[p].tab][p], submit', Facts(p)')
    <3>1. CASE p = o
      BY <1>1, <1>6, <3>1 DEF StoredSound, CheckSound, NoCheck
    <3>2. CASE p # o
      <4>1. Facts(p) \subseteq Facts(p)'
        BY <1>8, <3>2
      <4>2. StoredSound(p, durable'[p], Facts(p)')
        <5>1. StoredSound(p, durable[p], Facts(p)) /\ UNCHANGED durable
          BY <1>1, <2>1 DEF OperationSound
        <5> QED BY <4>1, <5>1, StoredKept
      <4>3. CASE check[p].pc = "idle"
        BY <1>1, <2>1, <4>2, <4>3 DEF OperationSound, CheckSound, NoCheck
      <4>4. CASE check[p].pc # "idle"
        <5>1. PICK c : c = check[p]
          OBVIOUS
        <5>2. PICK u \in Tabs : u = c.tab
          BY <2>1, <4>4, <5>1 DEF OperationSound, CheckSound
        <5>3. PICK v : v = volatile[u][p]
          OBVIOUS
        <5>4. /\ durable[p] \in Entry \cup {Null}
              /\ v # Null => v.base \in Nat
              /\ durable[p] # Null /\ v # Null => v.base <= durable[p].revision
          BY <5>3, TypesOf, RevisionOf
        <5>5. Later(durable[p], durable[p])
          BY DEF Later
        <5>6. CheckSound(p, durable[p], c, v, submit, Facts(p))
          BY <2>1, <5>1, <5>2, <5>3 DEF OperationSound
        <5>7. ~ (submit'.tab = c.tab /\ submit'.op = p)
          BY <1>5, <3>2
        <5>8. CheckSound(p, durable[p], c, v, submit', Facts(p)')
          BY <4>1, <5>4, <5>5, <5>6, <5>7, CheckKept
        <5> QED BY <1>1, <4>2, <5>1, <5>2, <5>3, <5>8
      <4> QED BY <4>2, <4>3, <4>4
    <3> QED BY <3>1, <3>2
  <2> QED BY <1>1, <2>1, <2>2, <2>3 DEF OperationSound
<1>10. ASSUME NEW u \in Tabs, NEW p \in Ops
       PROVE  OverlaySound(u, p, durable'[p], volatile'[u][p], submit', Facts(p)')
  <2>1. CASE p = o
    BY <1>1, <1>6, <2>1 DEF OverlaySound
  <2>2. CASE p # o
    <3>1. OverlaySound(u, p, durable[p], volatile[u][p], submit, Facts(p))
      BY DEF IInv
    <3>2. Facts(p) \subseteq Facts(p)' /\ submit'.op # p
      BY <1>5, <1>8, <2>2
    <3>3. Later(durable[p], durable[p])
      BY DEF Later
    <3>4. durable[p] \in Entry \cup {Null} /\ (volatile[u][p] # Null => volatile[u][p].base \in Nat)
      BY TypesOf
    <3>5. OverlaySound(u, p, durable[p], volatile[u][p], submit', Facts(p)')
      BY <3>1, <3>2, <3>3, <3>4, OverlayKept
    <3> QED BY <1>1, <3>5
  <2> QED BY <2>1, <2>2
<1>11. SubmitSound'
  <2>1. OwnCandidates => \A p \in Ops \ {o} : CameToNothing(p)'
    BY <1>1, ResolvedCameToNothing DEF CameToNothing
  <2> QED BY <1>1, <1>4, <1>5, <1>6, <2>1, PreparingIs DEF SubmitSound, Holding, BeforeWallet
<1> QED BY <1>1, <1>7, <1>9, <1>10, <1>11, UnwrittenGoesOn DEF IInv

-----------------------------------------------------------------------------
(* The wallet's answer.                                                    *)

LEMMA Answered ==
    ASSUME TypeOK, IInv, NEW o \in Ops,
           NEW answer \in {"approved", "rejected", "lost"}, NEW pc, NEW entry,
           Answers(o, answer, pc, entry),
           tx' \in [Ops -> {"none", "pending", "success", "reverted", "replaced", "orphaned"}],
           \A p \in Ops : tx'[p] = tx[p] \/ tx'[p] = "none" \/ tx'[p] = "pending",
           Waits(o) => pc \in {"hash", "outcome"}
    PROVE  /\ wallet[o] = "open" /\ wallet'[o] = answer
           /\ wallet' \in [Ops -> {"none", "open", "approved", "rejected", "lost"}]
           /\ \A p \in Ops \ {o} : wallet'[p] = wallet[p]
           /\ UNCHANGED <<durable, volatile, issues, check, failed, begun, checks, mishaps>>
           /\ \A p \in Ops : wallet'[p] # "none" => wallet[p] # "none"
           /\ \A p \in Ops : tx'[p] \in {"reverted", "replaced"} => p \in failed'
           /\ \A p \in Ops : CameToNothing(p) => CameToNothing(p)'
<1>1. wallet \in [Ops -> {"none", "open", "approved", "rejected", "lost"}]
  BY DEF TypeOK
<1>2. wallet[o] = "open" /\ wallet' = [wallet EXCEPT ![o] = answer]
      /\ UNCHANGED <<durable, volatile, issues, check, failed, begun, checks, mishaps>>
  BY DEF Answers, journal
<1>3. /\ wallet' \in [Ops -> {"none", "open", "approved", "rejected", "lost"}]
      /\ wallet'[o] = answer /\ \A p \in Ops \ {o} : wallet'[p] = wallet[p]
  BY ONLY <1>1, <1>2, o \in Ops, answer \in {"approved", "rejected", "lost"}
<1>4. \A p \in Ops : CameToNothing(p) => CameToNothing(p)'
  BY <1>2, <1>3 DEF CameToNothing
<1>5. \A p \in Ops : tx'[p] \in {"reverted", "replaced"} => p \in failed'
  <2>1. \A p \in Ops : tx[p] \in {"reverted", "replaced"} => p \in failed
    BY DEF IInv, OperationSound
  <2> QED BY <1>2, <2>1
<1> QED BY <1>2, <1>3, <1>4, <1>5

\* The page of the request is gone.
LEMMA AnsweredUnheard ==
    ASSUME TypeOK, IInv, NEW o \in Ops,
           NEW answer \in {"approved", "rejected", "lost"}, NEW pc, NEW entry,
           Answers(o, answer, pc, entry), ~ Waits(o),
           tx' \in [Ops -> {"none", "pending", "success", "reverted", "replaced", "orphaned"}],
           \A p \in Ops : tx'[p] = tx[p] \/ tx'[p] = "none" \/ tx'[p] = "pending"
    PROVE  TypeOK' /\ IInv' /\ Onward
<1>1. /\ wallet[o] = "open" /\ wallet'[o] = answer
      /\ wallet' \in [Ops -> {"none", "open", "approved", "rejected", "lost"}]
      /\ \A p \in Ops \ {o} : wallet'[p] = wallet[p]
      /\ UNCHANGED <<durable, volatile, issues, check, failed, begun, checks, mishaps>>
      /\ \A p \in Ops : wallet'[p] # "none" => wallet[p] # "none"
      /\ \A p \in Ops : tx'[p] \in {"reverted", "replaced"} => p \in failed'
      /\ \A p \in Ops : CameToNothing(p) => CameToNothing(p)'
  BY Answered
<1>2. UNCHANGED submit
  BY DEF Answers
<1>3. ASSUME NEW p \in Ops PROVE Facts(p) \subseteq Facts(p)'
  BY <1>1, <1>2, FactsGrow
<1>4. Forward
  BY <1>1, <1>2, <1>3 DEF Forward, Later, TypeOK
<1>5. SubmitSound'
  <2>1. submit.pc # "idle" => submit.op \in Ops
    BY Running
  <2>2. submit.pc # "idle" => (wallet'[submit.op] = "none" <=> wallet[submit.op] = "none")
    BY <1>1, <2>1
  <2> QED BY <1>1, <1>2, <1>4, <2>2, SubmissionKept
<1>6. IInv'
  BY <1>1, <1>2, <1>3, <1>5, JournalUnwritten
<1>7. TypeOK'
  BY <1>1, <1>2 DEF TypeOK, InMemory, Revision
<1> QED BY <1>1, <1>6, <1>7, UnwrittenGoesOn

\* The page that waits goes on with what the answer makes of its entry.
LEMMA AnsweredHeard ==
    ASSUME TypeOK, IInv, NEW o \in Ops,
           NEW answer \in {"approved", "rejected", "lost"}, NEW pc \in {"hash", "outcome"},
           NEW new \in Entry,
           Answers(o, answer, pc, new), Waits(o),
           tx' \in [Ops -> {"none", "pending", "success", "reverted", "replaced", "orphaned"}],
           \A p \in Ops : tx'[p] = tx[p] \/ tx'[p] = "none" \/ tx'[p] = "pending",
           new.revision = submit.entry.revision, new.asked = submit.entry.asked,
           pc = "hash" => new.hash = o /\ new.status = "SUBMITTED"
                          /\ new.outcome = submit.entry.outcome,
           pc = "outcome" => new.hash = NoHash /\ new.status \in {"REJECTED", "UNKNOWN"}
                             /\ new.outcome = new.status
                             /\ (new.status = "REJECTED" => answer = "rejected")
    PROVE  TypeOK' /\ IInv' /\ Onward
<1>1. /\ wallet[o] = "open" /\ wallet'[o] = answer
      /\ wallet' \in [Ops -> {"none", "open", "approved", "rejected", "lost"}]
      /\ \A p \in Ops \ {o} : wallet'[p] = wallet[p]
      /\ UNCHANGED <<durable, volatile, issues, check, failed, begun, checks, mishaps>>
      /\ \A p \in Ops : wallet'[p] # "none" => wallet[p] # "none"
      /\ \A p \in Ops : tx'[p] \in {"reverted", "replaced"} => p \in failed'
  BY Answered
<1>2. submit.pc = "wallet" /\ submit.op = o /\ Hold(pc, new)
  BY DEF Waits, Answers
<1>3. PICK e \in Entry : e = submit.entry
  BY <1>2, Running DEF Holding, SubmitSteps
<1>4. /\ Good(o, e, Facts(o)) /\ Copy(durable[o], e) /\ e.revision >= 1
      /\ e.hash = NoHash /\ e.asked /\ durable[o] # Null
  BY <1>2, <1>3, Running DEF Holding, SubmitSteps, IInv, SubmitSound, BeforeWallet
<1>5. /\ submit' \in Submissions /\ submit'.pc = pc /\ submit'.tab = submit.tab
      /\ submit'.op = o /\ submit'.entry = new
  BY <1>2, HoldIs DEF SubmitSteps
<1>6. ASSUME NEW p \in Ops PROVE Facts(p) \subseteq Facts(p)'
  <2>1. CASE p = o
    BY <1>1, <1>2, <1>5, <2>1, FactsGrow
  <2>2. CASE p # o
    BY <1>1, <1>2, <1>5, <2>2, FactsGrow
  <2> QED BY <2>1, <2>2
<1>7. answer = "rejected" => "rejected" \in Facts(o)'
  BY <1>1 DEF Facts
<1>8. Good(o, new, Facts(o)')
  <2>1. Facts(o) \subseteq Facts(o)'
    BY <1>6
  <2>2. CASE pc = "hash"
    <3>1. /\ new \in Entry /\ new.status = "SUBMITTED" /\ new.hash = o /\ o # NoHash
          /\ new.outcome = e.outcome
      BY <1>3, <2>2, OpsAre
    <3>2. e.outcome = "REJECTED" => "rejected" \in Facts(o)'
      BY <1>4, <2>1 DEF Good
    <3> QED BY <3>1, <3>2 DEF Good, SentStatuses
  <2>3. CASE pc = "outcome"
    BY <1>4, <1>7, <2>3 DEF Good, SentStatuses
  <2> QED BY <2>2, <2>3
<1>9. Copy(durable'[o], new) /\ new.revision >= 1 /\ new.asked /\ durable'[o] # Null
  <2>1. UNCHANGED durable
    BY <1>1
  <2> QED BY <1>3, <1>4, <2>1 DEF Copy, Descends
<1>10. SubmitSound'
  BY <1>1, <1>2, <1>5, <1>8, <1>9, HeldIsSound DEF BeforeWallet, SubmitSteps
<1>11. \A u \in Tabs, p \in Ops :
          submit'.tab = u /\ submit'.op = p => submit.tab = u /\ submit.op = p
  BY <1>2, <1>5
<1>12. IInv'
  BY <1>1, <1>6, <1>10, <1>11, JournalUnwritten
<1>13. TypeOK'
  BY <1>1, <1>5, <1>9 DEF TypeOK, InMemory, Revision
<1> QED BY <1>1, <1>12, <1>13, UnwrittenGoesOn

LEMMA Approved ==
    ASSUME TypeOK, IInv, NEW o \in Ops, Approve(o)
    PROVE  TypeOK' /\ IInv' /\ Onward
<1>1. Answers(o, "approved", "hash", Returned(o)) /\ tx' = [tx EXCEPT ![o] = "pending"]
  BY DEF Approve
<1>2. tx \in [Ops -> {"none", "pending", "success", "reverted", "replaced", "orphaned"}]
  BY DEF TypeOK
<1>3. /\ tx' \in [Ops -> {"none", "pending", "success", "reverted", "replaced", "orphaned"}]
      /\ \A p \in Ops : tx'[p] = tx[p] \/ tx'[p] = "none" \/ tx'[p] = "pending"
  BY <1>1, <1>2
<1>4. CASE ~ Waits(o)
  BY <1>1, <1>3, <1>4, AnsweredUnheard
<1>5. CASE Waits(o)
  <2>1. PICK e \in Entry : e = submit.entry
    BY <1>5, Running DEF Holding, SubmitSteps, Waits
  <2>2. PICK new : new = Returned(o)
    OBVIOUS
  <2>3. new = [e EXCEPT !.status = "SUBMITTED", !.hash = o] /\ o \in Ops \cup {NoHash}
    BY <2>1, <2>2 DEF Returned
  <2>4. "SUBMITTED" \in Statuses
    BY DEF Statuses
  <2>5. /\ new \in Entry /\ new.revision = e.revision /\ new.asked = e.asked
        /\ new.hash = o /\ new.status = "SUBMITTED" /\ new.outcome = e.outcome
    BY ONLY <2>3, <2>4, e \in Entry DEF Entry
  <2>6. Answers(o, "approved", "hash", new)
    BY <1>1, <2>2
  <2> QED BY <1>3, <1>5, <2>1, <2>5, <2>6, AnsweredHeard
<1> QED BY <1>4, <1>5

\* A request that ended without a transaction that is known.
LEMMA Denied ==
    ASSUME TypeOK, IInv, NEW o \in Ops,
           \/ Reject(o)
           \/ LoseAnswer(o)
    PROVE  TypeOK' /\ IInv' /\ Onward
<1>1. PICK outcome \in {"REJECTED", "UNKNOWN"}, answer \in {"rejected", "lost"} :
         /\ Answers(o, answer, "outcome", Merged(submit.entry, outcome))
         /\ outcome = "REJECTED" => answer = "rejected"
  BY DEF Reject, LoseAnswer
<1>2. tx \in [Ops -> {"none", "pending", "success", "reverted", "replaced", "orphaned"}]
  BY DEF TypeOK
<1>3. tx' = tx \/ \E state \in {"none", "pending"} : tx' = [tx EXCEPT ![o] = state]
  BY DEF Reject, LoseAnswer
<1>4. /\ tx' \in [Ops -> {"none", "pending", "success", "reverted", "replaced", "orphaned"}]
      /\ \A p \in Ops : tx'[p] = tx[p] \/ tx'[p] = "none" \/ tx'[p] = "pending"
  BY <1>2, <1>3
<1>5. CASE ~ Waits(o)
  BY <1>1, <1>4, <1>5, AnsweredUnheard
<1>6. CASE Waits(o)
  <2>1. PICK e \in Entry : e = submit.entry
    BY <1>6, Running DEF Holding, SubmitSteps, Waits
  <2>2. e.hash = NoHash
    BY <1>6, <2>1 DEF Waits, IInv, SubmitSound
  <2>3. PICK new : new = Merged(e, outcome)
    OBVIOUS
  <2>4. /\ new \in Entry /\ new.revision = e.revision /\ new.asked = e.asked
        /\ new.hash = NoHash /\ new.status = outcome /\ new.outcome = outcome
    BY <2>2, <2>3, MergedIs
  <2>5. Answers(o, answer, "outcome", new)
    BY <1>1, <2>1, <2>3
  <2>6. answer \in {"approved", "rejected", "lost"}
    OBVIOUS
  <2> QED BY <1>1, <1>4, <1>6, <2>1, <2>4, <2>5, <2>6, AnsweredHeard
<1> QED BY <1>5, <1>6

-----------------------------------------------------------------------------
(* submitOperation, after the wallet.                                      *)

AfterWallet == {"hash", "hashAgain", "nonce", "saveNonce", "outcome"}

\* What a submission is that has its answer.
LEMMA AfterWalletIs ==
    ASSUME TypeOK, IInv, submit.pc \in AfterWallet
    PROVE  /\ submit.tab \in Tabs /\ submit.op \in Ops
           /\ submit.pc \notin {"idle", "create", "refuse"}
           /\ durable[submit.op] \in Entry /\ durable[submit.op] # Null
           /\ OnRecord(durable[submit.op]) /\ wallet[submit.op] # "none"
           /\ submit.pc # "nonce" =>
                /\ submit.pc \in Holding /\ submit.entry \in Entry
                /\ Good(submit.op, submit.entry, Facts(submit.op))
                /\ Copy(durable[submit.op], submit.entry) /\ submit.entry.revision >= 1
<1>1. /\ submit.pc \notin {"idle", "create", "refuse"} /\ submit.pc \notin BeforeWallet
      /\ submit.pc # "nonce" => submit.pc \in Holding
  BY DEF AfterWallet, BeforeWallet, Holding, SubmitSteps
<1>2. wallet[submit.op] # "none" /\ submit.op \in Ops
  BY <1>1 DEF IInv, SubmitSound
<1>3. OnRecord(durable[submit.op])
  BY <1>2 DEF IInv, OperationSound
<1> QED BY <1>1, <1>2, <1>3, Running

\* An overlay is written from an entry that descends from what is stored, or
\* over a base that is stored no more.
LEMMA OverlaidSound ==
    ASSUME TypeOK, IInv, NEW t \in Tabs, NEW o \in Ops, NEW e \in Entry,
           volatile' = Overlaid(t, o, e), NEW s, NEW facts, Good(o, e, facts),
           durable[o] # Null,
           volatile[t][o] = Null => Copy(durable[o], e) /\ e.revision >= 1,
           volatile[t][o] # Null /\ volatile[t][o].base = durable[o].revision =>
              Descends(durable[o], e),
           volatile[t][o] # Null /\ s.tab = t /\ s.op = o => e.revision >= volatile[t][o].base
    PROVE  OverlaySound(t, o, durable[o], volatile'[t][o], s, facts)
<1>1. /\ volatile'[t][o] # Null /\ volatile'[t][o].entry = Advanced(e, e.revision)
      /\ volatile[t][o] = Null => volatile'[t][o].base = e.revision
      /\ volatile[t][o] # Null => volatile'[t][o].base = volatile[t][o].base
  BY OverlaidIs
<1>2. PICK new \in Entry :
         /\ new = Advanced(e, e.revision) /\ new.revision = e.revision + 1
         /\ new.hash = e.hash /\ new.asked = e.asked /\ Good(o, new, facts)
  BY AdvancedGood
<1>3. PICK d \in Entry : d = durable[o]
  BY TypesOf
<1>4. e.revision \in Nat /\ d.revision \in Nat
  BY EntryFields
<1>5. \A d2 \in Entry : Descends(d2, e) => Descends(d2, new)
  BY <1>2 DEF Descends
<1>6. CASE volatile[t][o] = Null
  <2>1. volatile'[t][o].base \in 1..d.revision
    BY <1>1, <1>3, <1>4, <1>6 DEF Copy
  <2>2. Based(t, o, d, volatile'[t][o].base, s, new)
    BY <1>1, <1>2, <1>3, <1>4, <1>5, <1>6 DEF Based, Copy
  <2> QED BY <1>1, <1>2, <1>3, <2>1, <2>2 DEF OverlaySound
<1>7. CASE volatile[t][o] # Null
  <2>1. volatile[t][o].base \in 1..d.revision
    BY <1>3, <1>7 DEF IInv, OverlaySound
  <2>2. Based(t, o, d, volatile'[t][o].base, s, new)
    BY <1>1, <1>2, <1>3, <1>4, <1>5, <1>7, <2>1 DEF Based
  <2> QED BY <1>1, <1>2, <1>3, <1>7, <2>1, <2>2 DEF OverlaySound
<1> QED BY <1>6, <1>7

\* The submission ends and leaves an entry in memory.
LEMMA KeptInMemory ==
    ASSUME TypeOK, IInv, submit.pc \in AfterWallet,
           NEW t \in Tabs, t = submit.tab, NEW o \in Ops, o = submit.op,
           NEW e \in Entry, Good(o, e, Facts(o)), volatile' = Overlaid(t, o, e),
           volatile[t][o] = Null => Copy(durable[o], e) /\ e.revision >= 1,
           volatile[t][o] # Null /\ volatile[t][o].base = durable[o].revision =>
              Descends(durable[o], e),
           durable' = durable, issues' \in [Tabs -> SUBSET Ops], UNCHANGED Elsewhere, Ends
    PROVE  TypeOK' /\ IInv' /\ Onward
<1>1. submit.pc \notin {"idle", "create"} /\ durable[o] # Null
  BY AfterWalletIs
<1>2. submit' = NoSubmit /\ submit' \in Submissions /\ submit'.op # o
  BY EndsIs
<1>3. Good(o, e, Facts(o)')
  BY <1>2, FactsAtEnd, GoodKept
<1>4. OverlaySound(t, o, durable[o], volatile'[t][o], submit', Facts(o)')
  BY <1>1, <1>2, <1>3, OverlaidSound
<1>5. /\ volatile' \in [Tabs -> [Ops -> Overlays \cup {Null}]] /\ volatile'[t][o] # Null
      /\ \A u \in Tabs, p \in Ops : u # t \/ p # o => volatile'[u][p] = volatile[u][p]
      /\ volatile[t][o] # Null => volatile'[t][o].base = volatile[t][o].base
  BY OverlaidIs
<1> QED BY <1>1, <1>2, <1>4, <1>5, SubmitOverlays

\* The submission goes on to add the nonce.
LEMMA NonceNext ==
    ASSUME TypeOK, IInv, submit.pc \in AfterWallet, Hold("nonce", Null),
           UNCHANGED Elsewhere, durable'[submit.op] # Null
    PROVE  /\ submit' \in Submissions /\ submit'.tab = submit.tab /\ submit'.op = submit.op
           /\ submit'.pc = "nonce" /\ SubmitSound'
<1>1. /\ submit' \in Submissions /\ submit'.pc = "nonce" /\ submit'.entry = Null
      /\ submit'.tab = submit.tab /\ submit'.op = submit.op
  BY HoldIs DEF SubmitSteps
<1>2. PICK o \in Ops : o = submit.op
  BY AfterWalletIs
<1>3. submit.pc # "idle" /\ wallet[o] # "none"
  BY <1>2, AfterWalletIs
<1>4. wallet' = wallet /\ failed' = failed /\ begun' = begun
  BY DEF Elsewhere, chainVars
<1>5. SubmitSound'
  BY <1>1, <1>2, <1>3, <1>4, HeldIsSound DEF BeforeWallet, SubmitSteps
<1> QED BY <1>1, <1>5

\* The submission stores the entry it holds and goes on to the nonce, or ends.
LEMMA StoredAfterWallet ==
    ASSUME TypeOK, IInv, submit.pc \in AfterWallet \ {"nonce"},
           NEW t \in Tabs, t = submit.tab, NEW o \in Ops, o = submit.op,
           NEW e \in Entry, e = submit.entry, SaveInStorage(t, o, e, "stored"),
           UNCHANGED volatile, UNCHANGED Elsewhere, Ends \/ Hold("nonce", Null)
    PROVE  TypeOK' /\ IInv' /\ Onward
<1>1. /\ submit.pc \in AfterWallet /\ submit.pc # "idle" /\ submit.pc # "refuse"
      /\ durable[o] \in Entry /\ Good(o, e, Facts(o)) /\ Copy(durable[o], e)
      /\ e.revision >= 1
  BY AfterWalletIs
<1>2. PICK new \in Entry :
         /\ new = Advanced(e, e.revision) /\ new.revision = e.revision + 1 /\ new # Null
         /\ new.hash = e.hash /\ new.asked = e.asked /\ Good(o, new, Facts(o))
  BY <1>1, AdvancedGood
<1>3. Store(t, o, new) /\ e.revision = durable[o].revision
  BY <1>1, <1>2, SavedIs, RevisionOf DEF Fresh
<1>4. Later(durable[o], new) /\ new.revision >= 1
  BY <1>1, <1>2, <1>3, FreshIsLater, EntryFields DEF Descends
<1>5. durable'[o] # Null
  BY <1>3, StoreIs
<1>6. CASE Ends
  <2>1. submit' = NoSubmit /\ submit' \in Submissions
    BY <1>6, EndsIs
  <2>2. Good(o, new, Facts(o)')
    BY <1>2, <2>1, FactsAtEnd, GoodKept
  <2> QED BY <1>1, <1>3, <1>4, <2>1, <2>2, SubmitStores
<1>7. CASE Hold("nonce", Null)
  <2>1. /\ submit' \in Submissions /\ submit'.tab = t /\ submit'.op = o
        /\ submit'.pc = "nonce" /\ SubmitSound'
    BY <1>1, <1>5, <1>7, NonceNext
  <2>2. Good(o, new, Facts(o)')
    BY <1>1, <1>2, <2>1, FactsAtEnd, GoodKept
  <2> QED BY <1>1, <1>3, <1>4, <2>1, <2>2, SubmitStores
<1> QED BY <1>6, <1>7

\* Nothing is written: the submission ends, or goes on to the nonce.
LEMMA UnwrittenAfterWallet ==
    ASSUME TypeOK, IInv, submit.pc \in AfterWallet, UNCHANGED <<durable, volatile, Elsewhere>>,
           issues' \in [Tabs -> SUBSET Ops], Ends \/ Hold("nonce", Null)
    PROVE  TypeOK' /\ IInv' /\ Onward
<1>1. submit.pc # "idle" /\ submit.pc # "refuse" /\ durable'[submit.op] # Null
  BY AfterWalletIs
<1>2. CASE Ends
  BY <1>1, <1>2, EndsIs, SubmitGoesOn
<1>3. CASE Hold("nonce", Null)
  <2>1. /\ submit' \in Submissions /\ submit'.tab = submit.tab /\ submit'.op = submit.op
        /\ submit'.pc = "nonce" /\ SubmitSound'
    BY <1>1, <1>3, NonceNext
  <2> QED BY <1>1, <2>1, SubmitGoesOn
<1> QED BY <1>2, <1>3

\* The entry held goes into memory: the submission ends, or goes on to the nonce.
LEMMA SavedInMemoryAfterWallet ==
    ASSUME TypeOK, IInv, submit.pc \in AfterWallet \ {"nonce"},
           NEW t \in Tabs, t = submit.tab, NEW o \in Ops, o = submit.op,
           NEW e \in Entry, e = submit.entry, InMemory(t, o), SaveInMemory(t, o, e),
           UNCHANGED Elsewhere, Ends \/ Hold("nonce", Null)
    PROVE  TypeOK' /\ IInv' /\ Onward
<1>1. /\ submit.pc \in AfterWallet /\ submit.pc \notin {"idle", "create", "refuse"}
      /\ durable[o] # Null /\ submit.pc \in Holding
  BY AfterWalletIs
<1>2. volatile[t][o] # Null
  BY DEF InMemory
<1>3. /\ UNCHANGED <<durable, issues>>
      /\ volatile' \in [Tabs -> [Ops -> Overlays \cup {Null}]] /\ volatile'[t][o] # Null
      /\ volatile'[t][o].base = volatile[t][o].base
      /\ \A u \in Tabs, p \in Ops : u # t \/ p # o => volatile'[u][p] = volatile[u][p]
  BY <1>2, SavedInMemoryIs
<1>4. /\ submit' \in Submissions
      /\ \/ submit' = NoSubmit
         \/ submit'.tab = t /\ submit'.op = o /\ submit'.pc = "nonce" /\ SubmitSound'
  BY <1>1, <1>3, EndsIs, NonceNext
<1>5. Facts(o) \subseteq Facts(o)'
  BY <1>1, <1>4, FactsAtEnd
<1>6. OverlaySound(t, o, durable[o], volatile'[t][o], submit', Facts(o)')
  BY <1>1, <1>2, <1>5, SavedOverBase
<1> QED BY <1>1, <1>2, <1>3, <1>4, <1>6, IssuesKept, SubmitOverlays

\* What a tab loads is as good as what storage has, and descends from it as
\* long as that is its base.
LEMMA LoadIs ==
    ASSUME TypeOK, IInv, NEW t \in Tabs, NEW o \in Ops, durable[o] # Null
    PROVE  /\ Load(t, o) \in Entry /\ Load(t, o).revision \in Nat
           /\ Good(o, Load(t, o), Facts(o))
           /\ volatile[t][o] = Null =>
                 /\ Load(t, o) = durable[o] /\ Copy(durable[o], Load(t, o))
                 /\ Load(t, o).revision >= 1
           /\ volatile[t][o] # Null =>
                 /\ Load(t, o) = volatile[t][o].entry
                 /\ volatile[t][o].base \in 1..durable[o].revision
                 /\ Based(t, o, durable[o], volatile[t][o].base, submit, Load(t, o))
<1>1. durable[o] \in Entry /\ StoredSound(o, durable[o], Facts(o))
  BY TypesOf DEF IInv, OperationSound
<1>2. CASE volatile[t][o] = Null
  BY <1>1, <1>2, EntryFields DEF Load, StoredSound, Copy, Descends
<1>3. CASE volatile[t][o] # Null
  <2>1. /\ volatile[t][o].base \in 1..durable[o].revision
        /\ Good(o, volatile[t][o].entry, Facts(o))
        /\ Based(t, o, durable[o], volatile[t][o].base, submit, volatile[t][o].entry)
    BY <1>3 DEF IInv, OverlaySound
  <2>2. volatile[t][o].entry \in Entry
    BY <2>1 DEF Good
  <2> QED BY <1>3, <2>1, <2>2, EntryFields DEF Load
<1> QED BY <1>2, <1>3

LEMMA HashMerged ==
    ASSUME TypeOK, IInv, submit.pc = "hash", MergeHash, UNCHANGED durable,
           issues' \in [Tabs -> SUBSET Ops], UNCHANGED Elsewhere
    PROVE  TypeOK' /\ IInv' /\ Onward
<1>1. submit.pc \in AfterWallet /\ submit.pc \in AfterWallet \ {"nonce"} /\ submit.pc # "refuse"
  BY DEF AfterWallet
<1>2. PICK t \in Tabs : t = submit.tab
  BY <1>1, AfterWalletIs
<1>3. PICK o \in Ops : o = submit.op
  BY <1>1, AfterWalletIs
<1>4. PICK e \in Entry : e = submit.entry
  BY <1>1, AfterWalletIs
<1>5. /\ Good(o, e, Facts(o)) /\ Copy(durable[o], e) /\ e.revision >= 1
      /\ durable[o] \in Entry /\ durable[o] # Null /\ submit.pc # "idle"
  BY <1>1, <1>3, <1>4, AfterWalletIs
<1>6. e.asked /\ e.hash = o /\ o # NoHash
  BY <1>3, <1>4, OpsAre DEF IInv, SubmitSound
<1>7. PICK now : now = Load(t, o)
  OBVIOUS
<1>8. /\ now \in Entry /\ Good(o, now, Facts(o))
      /\ volatile[t][o] = Null => now = durable[o] /\ Copy(durable[o], now) /\ now.revision >= 1
      /\ volatile[t][o] # Null =>
            /\ now = volatile[t][o].entry /\ volatile[t][o].base \in 1..durable[o].revision
            /\ Based(t, o, durable[o], volatile[t][o].base, submit, now)
  BY <1>5, <1>7, LoadIs
<1>9. PICK merged : merged = [now EXCEPT !.status = "SUBMITTED", !.hash = o, !.request = 0]
  OBVIOUS
<1>10. /\ merged \in Entry /\ merged.revision = now.revision /\ merged.status = "SUBMITTED"
       /\ merged.hash = o /\ merged.outcome = now.outcome /\ merged.asked = now.asked
  <2>1. 0 \in 0..MaxChecks /\ "SUBMITTED" \in Statuses
    BY DEF Statuses
  <2>2. now \in Entry
    BY <1>8
  <2> QED BY ONLY <1>9, <2>1, <2>2, o \in Ops DEF Entry
<1>11. Good(o, merged, Facts(o))
  BY <1>6, <1>8, <1>10 DEF Good, SentStatuses
<1>12. \A d \in Entry : Descends(d, now) => Descends(d, merged)
  BY <1>6, <1>10 DEF Descends
<1>13. \/ now.hash = o /\ Hold("nonce", Null) /\ UNCHANGED volatile
       \/ now.hash # NoHash /\ volatile' = Overlaid(t, o, e) /\ Ends
       \/ /\ now.hash = NoHash
          /\ IF InMemory(t, o)
             THEN volatile' = Overlaid(t, o, merged) /\ Hold("nonce", Null)
             ELSE UNCHANGED volatile /\ Hold("hashAgain", merged)
  BY <1>2, <1>3, <1>4, <1>7, <1>9 DEF MergeHash
<1>14. CASE now.hash = o /\ Hold("nonce", Null) /\ UNCHANGED volatile
  BY <1>1, <1>14, UnwrittenAfterWallet
<1>15. CASE volatile' = Overlaid(t, o, e) /\ Ends
  <2>1. Descends(durable[o], e)
    BY <1>6 DEF Descends
  <2>2. UNCHANGED durable
    OBVIOUS
  <2> QED BY <1>1, <1>2, <1>3, <1>5, <1>15, <2>1, <2>2, KeptInMemory
<1>16. CASE volatile' = Overlaid(t, o, merged) /\ Hold("nonce", Null) /\ InMemory(t, o)
  <2>1. volatile[t][o] # Null
    BY <1>16 DEF InMemory
  <2>2. /\ submit' \in Submissions /\ submit'.tab = t /\ submit'.op = o
        /\ submit'.pc = "nonce" /\ SubmitSound'
    BY <1>1, <1>2, <1>3, <1>5, <1>16, NonceNext
  <2>3. Good(o, merged, Facts(o)')
    BY <1>1, <1>3, <1>11, <2>2, FactsAtEnd, GoodKept
  <2>4. /\ volatile[t][o].base \in Nat /\ merged.revision \in Nat
        /\ merged.revision > volatile[t][o].base
        /\ volatile[t][o].base = durable[o].revision => Descends(durable[o], merged)
    <3>1. /\ volatile[t][o].base \in Nat /\ merged.revision \in Nat
          /\ Based(t, o, durable[o], volatile[t][o].base, submit, now)
      BY <1>8, <1>10, <2>1, EntryFields, TypesOf
    <3> QED BY <1>2, <1>3, <1>5, <1>10, <1>12, <3>1 DEF Based
  <2>5. OverlaySound(t, o, durable[o], volatile'[t][o], submit', Facts(o)')
    <3>1. merged \in Entry /\ volatile' = Overlaid(t, o, merged) /\ durable[o] # Null
      BY <1>5, <1>10, <1>16
    <3>2. merged.revision >= volatile[t][o].base
      BY <2>4
    <3> QED BY <2>1, <2>3, <2>4, <3>1, <3>2, OverlaidSound
  <2>6. /\ volatile' \in [Tabs -> [Ops -> Overlays \cup {Null}]] /\ volatile'[t][o] # Null
        /\ \A u \in Tabs, p \in Ops : u # t \/ p # o => volatile'[u][p] = volatile[u][p]
        /\ volatile[t][o] # Null => volatile'[t][o].base = volatile[t][o].base
    BY <1>10, <1>16, OverlaidIs
  <2>7. submit.pc \notin {"idle", "create"} /\ durable' = durable
    BY <1>1, AfterWalletIs
  <2> QED BY <1>1, <1>2, <1>3, <2>1, <2>2, <2>5, <2>6, <2>7, SubmitOverlays
<1>17. CASE UNCHANGED volatile /\ Hold("hashAgain", merged) /\ ~ InMemory(t, o)
  <2>1. volatile[t][o] = Null
    BY <1>17 DEF InMemory
  <2>2. /\ submit' \in Submissions /\ submit'.tab = submit.tab /\ submit'.op = o
        /\ submit'.pc = "hashAgain" /\ submit'.entry = merged
    BY <1>3, <1>10, <1>17, HoldIs DEF SubmitSteps
  <2>3. Good(o, merged, Facts(o)')
    BY <1>1, <1>3, <1>11, <2>2, FactsAtEnd, GoodKept
  <2>4. UNCHANGED <<durable, wallet, failed, begun>>
    BY DEF Elsewhere, chainVars
  <2>5. Copy(durable'[o], merged) /\ merged.revision >= 1
    BY <1>5, <1>8, <1>10, <1>12, <2>1, <2>4 DEF Copy
  <2>6. wallet'[o] # "none" /\ durable'[o] # Null
    BY <1>1, <1>3, <2>4, AfterWalletIs
  <2>7. SubmitSound'
    BY <1>3, <1>5, <1>10, <2>2, <2>3, <2>4, <2>5, <2>6, HeldIsSound DEF BeforeWallet, SubmitSteps
  <2> QED BY <1>3, <1>5, <1>17, <2>2, <2>7, SubmitGoesOn
<1> QED BY <1>13, <1>14, <1>15, <1>16, <1>17

LEMMA HashSaved ==
    ASSUME TypeOK, IInv, SaveHash
    PROVE  TypeOK' /\ IInv' /\ Onward
<1>1. submit.pc = "hash" /\ UNCHANGED Elsewhere
      /\ submit.pc \in AfterWallet /\ submit.pc \in AfterWallet \ {"nonce"}
  BY DEF SaveHash, AfterWallet
<1>2. PICK t \in Tabs : t = submit.tab
  BY <1>1, AfterWalletIs
<1>3. PICK o \in Ops : o = submit.op
  BY <1>1, AfterWalletIs
<1>4. PICK e \in Entry : e = submit.entry
  BY <1>1, AfterWalletIs
<1>5. \/ SaveInStorage(t, o, e, "stored") /\ UNCHANGED volatile /\ Hold("nonce", Null)
      \/ SaveInStorage(t, o, e, "conflict") /\ MergeHash
      \/ SaveInStorage(t, o, e, "unavailable") /\ volatile' = Overlaid(t, o, e) /\ Ends
      \/ InMemory(t, o) /\ SaveInMemory(t, o, e) /\ Hold("nonce", Null)
      \/ MergeHash /\ UNCHANGED <<durable, issues>>
  BY <1>2, <1>3, <1>4 DEF SaveHash
<1>6. CASE SaveInStorage(t, o, e, "stored") /\ UNCHANGED volatile /\ Hold("nonce", Null)
  BY <1>1, <1>2, <1>3, <1>4, <1>6, StoredAfterWallet
<1>7. CASE SaveInStorage(t, o, e, "conflict") /\ MergeHash
  BY <1>1, <1>7, SavedIs, IssuesKept, HashMerged
<1>8. CASE SaveInStorage(t, o, e, "unavailable") /\ volatile' = Overlaid(t, o, e) /\ Ends
  <2>1. durable' = durable /\ issues' \in [Tabs -> SUBSET Ops]
    BY <1>8, SavedIs, WriteFailsIs
  <2>2. Good(o, e, Facts(o)) /\ Copy(durable[o], e) /\ e.revision >= 1
    BY <1>1, <1>3, <1>4, AfterWalletIs
  <2>3. Descends(durable[o], e)
    <3>1. e.asked /\ e.hash = o /\ o # NoHash
      BY <1>1, <1>3, <1>4, OpsAre DEF IInv, SubmitSound
    <3> QED BY <3>1 DEF Descends
  <2> QED BY <1>1, <1>2, <1>3, <1>8, <2>1, <2>2, <2>3, KeptInMemory
<1>9. CASE InMemory(t, o) /\ SaveInMemory(t, o, e) /\ Hold("nonce", Null)
  BY <1>1, <1>2, <1>3, <1>4, <1>9, SavedInMemoryAfterWallet
<1>10. CASE MergeHash /\ UNCHANGED <<durable, issues>>
  BY <1>1, <1>10, IssuesKept, HashMerged
<1> QED BY <1>5, <1>6, <1>7, <1>8, <1>9, <1>10

LEMMA HashSavedAgain ==
    ASSUME TypeOK, IInv, SaveHashAgain
    PROVE  TypeOK' /\ IInv' /\ Onward
<1>1. submit.pc = "hashAgain" /\ UNCHANGED Elsewhere
      /\ submit.pc \in AfterWallet /\ submit.pc \in AfterWallet \ {"nonce"}
  BY DEF SaveHashAgain, AfterWallet
<1>2. PICK t \in Tabs : t = submit.tab
  BY <1>1, AfterWalletIs
<1>3. PICK o \in Ops : o = submit.op
  BY <1>1, AfterWalletIs
<1>4. PICK e \in Entry : e = submit.entry
  BY <1>1, AfterWalletIs
<1>5. PICK returned : returned = [e EXCEPT !.revision = 2, !.outcome = Null, !.asked = TRUE]
  OBVIOUS
<1>6. \/ SaveInStorage(t, o, e, "stored") /\ UNCHANGED volatile /\ Hold("nonce", Null)
      \/ /\ \E result \in {"conflict", "unavailable"} : SaveInStorage(t, o, e, result)
         /\ volatile' = Overlaid(t, o, returned) /\ Ends
  BY <1>2, <1>3, <1>4, <1>5 DEF SaveHashAgain
<1>7. CASE SaveInStorage(t, o, e, "stored") /\ UNCHANGED volatile /\ Hold("nonce", Null)
  BY <1>1, <1>2, <1>3, <1>4, <1>7, StoredAfterWallet
<1>8. CASE /\ \E result \in {"conflict", "unavailable"} : SaveInStorage(t, o, e, result)
           /\ volatile' = Overlaid(t, o, returned) /\ Ends
  <2>1. durable' = durable /\ issues' \in [Tabs -> SUBSET Ops]
    BY <1>8, SavedIs, WriteFailsIs, IssuesKept
  <2>2. /\ Good(o, e, Facts(o)) /\ OnRecord(durable[o]) /\ durable[o] \in Entry
        /\ e.hash = o /\ o # NoHash
    BY <1>1, <1>3, <1>4, AfterWalletIs, OpsAre DEF IInv, SubmitSound
  <2>3. /\ returned \in Entry /\ returned.revision = 2 /\ returned.status = e.status
        /\ returned.hash = e.hash /\ returned.outcome = Null /\ returned.asked
    BY ONLY <1>5, e \in Entry DEF Entry
  <2>4. Good(o, returned, Facts(o))
    BY <2>2, <2>3, NullAssumption DEF Good
  <2>5. Descends(durable[o], returned)
    BY <2>2, <2>3 DEF Descends
  <2>6. Copy(durable[o], returned) /\ returned.revision >= 1
    BY <2>2, <2>3, <2>5, EntryFields DEF Copy, OnRecord
  <2> QED BY <1>1, <1>2, <1>3, <1>8, <2>1, <2>3, <2>4, <2>5, <2>6, KeptInMemory
<1> QED BY <1>6, <1>7, <1>8

LEMMA NonceRead ==
    ASSUME TypeOK, IInv, ReadNonce
    PROVE  TypeOK' /\ IInv' /\ Onward
<1>1. submit.pc = "nonce" /\ UNCHANGED Elsewhere /\ submit.pc \in AfterWallet
  BY DEF ReadNonce, AfterWallet
<1>2. PICK t \in Tabs : t = submit.tab
  BY <1>1, AfterWalletIs
<1>3. PICK o \in Ops : o = submit.op
  BY <1>1, AfterWalletIs
<1>4. /\ durable[o] \in Entry /\ durable[o] # Null /\ wallet[o] # "none"
      /\ submit.pc \notin {"idle", "create", "refuse"}
  BY <1>1, <1>3, AfterWalletIs
<1>5. PICK now : now = Load(t, o)
  OBVIOUS
<1>6. /\ now \in Entry /\ Good(o, now, Facts(o))
      /\ volatile[t][o] = Null => now = durable[o] /\ Copy(durable[o], now) /\ now.revision >= 1
      /\ volatile[t][o] # Null =>
            /\ now = volatile[t][o].entry /\ volatile[t][o].base \in 1..durable[o].revision
            /\ Based(t, o, durable[o], volatile[t][o].base, submit, now)
  BY <1>4, <1>5, LoadIs
<1>7. \/ Ends /\ UNCHANGED journal
      \/ InMemory(t, o) /\ SaveInMemory(t, o, now) /\ Ends
      \/ ~ InMemory(t, o) /\ Hold("saveNonce", now) /\ UNCHANGED journal
  BY <1>2, <1>3, <1>5 DEF ReadNonce
<1>8. CASE Ends /\ UNCHANGED journal
  BY <1>1, <1>8, IssuesKept, UnwrittenAfterWallet DEF journal
<1>9. CASE InMemory(t, o) /\ SaveInMemory(t, o, now) /\ Ends
  <2>1. volatile[t][o] # Null
    BY <1>9 DEF InMemory
  <2>2. /\ UNCHANGED <<durable, issues>>
        /\ volatile' \in [Tabs -> [Ops -> Overlays \cup {Null}]] /\ volatile'[t][o] # Null
        /\ volatile'[t][o].entry = Advanced(now, now.revision)
        /\ volatile'[t][o].base = volatile[t][o].base
        /\ \A u \in Tabs, p \in Ops : u # t \/ p # o => volatile'[u][p] = volatile[u][p]
    BY <1>6, <1>9, <2>1, SavedInMemoryIs
  <2>3. submit' = NoSubmit /\ submit' \in Submissions /\ submit'.op # o
    BY <1>9, EndsIs
  <2>4. PICK new \in Entry :
           /\ new = Advanced(now, now.revision) /\ new.revision = now.revision + 1
           /\ new.hash = now.hash /\ new.asked = now.asked /\ Good(o, new, Facts(o))
    BY <1>6, AdvancedGood
  <2>5. Good(o, new, Facts(o)')
    BY <1>1, <2>3, <2>4, FactsAtEnd, GoodKept
  <2>6. Based(t, o, durable[o], volatile[t][o].base, submit', new)
    BY <1>6, <2>1, <2>3, <2>4 DEF Based, Descends
  <2>7. OverlaySound(t, o, durable[o], volatile'[t][o], submit', Facts(o)')
    BY <1>4, <1>6, <2>1, <2>2, <2>4, <2>5, <2>6 DEF OverlaySound
  <2> QED BY <1>1, <1>2, <1>3, <1>4, <2>2, <2>3, <2>7, IssuesKept, SubmitOverlays
<1>10. CASE ~ InMemory(t, o) /\ Hold("saveNonce", now) /\ UNCHANGED journal
  <2>1. volatile[t][o] = Null /\ UNCHANGED <<durable, volatile, issues>>
    BY <1>10 DEF InMemory, journal
  <2>2. /\ submit' \in Submissions /\ submit'.tab = submit.tab /\ submit'.op = o
        /\ submit'.pc = "saveNonce" /\ submit'.entry = now
    BY <1>3, <1>6, <1>10, HoldIs DEF SubmitSteps
  <2>3. Good(o, now, Facts(o)')
    BY <1>1, <1>3, <1>6, <2>2, FactsAtEnd, GoodKept
  <2>4. UNCHANGED <<wallet, failed, begun>>
    BY <1>1 DEF Elsewhere, chainVars
  <2>5. Copy(durable'[o], now) /\ now.revision >= 1 /\ durable'[o] # Null /\ wallet'[o] # "none"
    BY <1>4, <1>6, <2>1, <2>4
  <2>6. SubmitSound'
    BY <1>3, <1>4, <2>2, <2>3, <2>4, <2>5, HeldIsSound DEF BeforeWallet, SubmitSteps
  <2> QED BY <1>1, <1>3, <1>4, <2>1, <2>2, <2>6, IssuesKept, SubmitGoesOn
<1> QED BY <1>7, <1>8, <1>9, <1>10

LEMMA NonceSaved ==
    ASSUME TypeOK, IInv, SaveNonce
    PROVE  TypeOK' /\ IInv' /\ Onward
<1>1. /\ submit.pc = "saveNonce" /\ UNCHANGED <<volatile, Elsewhere>> /\ Ends
      /\ submit.pc \in AfterWallet /\ submit.pc \in AfterWallet \ {"nonce"}
  BY DEF SaveNonce, AfterWallet
<1>2. PICK t \in Tabs : t = submit.tab
  BY <1>1, AfterWalletIs
<1>3. PICK o \in Ops : o = submit.op
  BY <1>1, AfterWalletIs
<1>4. PICK e \in Entry : e = submit.entry
  BY <1>1, AfterWalletIs
<1>5. PICK result \in {"stored", "conflict", "unavailable"} : SaveInStorage(t, o, e, result)
  BY <1>2, <1>3, <1>4 DEF SaveNonce
<1>6. CASE result = "stored"
  BY <1>1, <1>2, <1>3, <1>4, <1>5, <1>6, StoredAfterWallet
<1>7. CASE result # "stored"
  <2>1. durable' = durable /\ issues' \in [Tabs -> SUBSET Ops]
    BY <1>5, <1>7, SavedIs, WriteFailsIs, IssuesKept
  <2> QED BY <1>1, <2>1, UnwrittenAfterWallet
<1> QED BY <1>6, <1>7

\* What the outcome of a request makes of the latest entry.
LEMMA LatestIs ==
    ASSUME TypeOK, IInv, submit.pc = "outcome", NEW t \in Tabs, t = submit.tab,
           NEW o \in Ops, o = submit.op, NEW e \in Entry, e = submit.entry,
           NEW now, now = Load(t, o),
           NEW latest, latest = IF now.asked THEN Merged(now, e.outcome) ELSE e
    PROVE  /\ latest \in Entry /\ latest.asked /\ Good(o, latest, Facts(o))
           /\ latest.outcome \in {"REJECTED", "UNKNOWN"}
           /\ volatile[t][o] = Null => Copy(durable[o], latest) /\ latest.revision >= 1
           /\ volatile[t][o] # Null /\ volatile[t][o].base = durable[o].revision =>
                 Descends(durable[o], latest)
<1>1. submit.pc \in AfterWallet /\ submit.pc # "nonce"
  BY DEF AfterWallet
<1>2. /\ Good(o, e, Facts(o)) /\ Copy(durable[o], e) /\ e.revision >= 1
      /\ OnRecord(durable[o]) /\ durable[o] \in Entry /\ durable[o] # Null
  BY <1>1, AfterWalletIs
<1>3. e.asked /\ e.outcome \in {"REJECTED", "UNKNOWN"}
  BY DEF IInv, SubmitSound
<1>4. /\ now \in Entry /\ Good(o, now, Facts(o))
      /\ volatile[t][o] = Null => now = durable[o] /\ Copy(durable[o], now) /\ now.revision >= 1
      /\ volatile[t][o] # Null => Based(t, o, durable[o], volatile[t][o].base, submit, now)
  BY <1>2, LoadIs
<1>5. CASE now.asked
  <2>1. /\ latest \in Entry /\ latest.revision = now.revision
        /\ latest.status = IF now.hash # NoHash THEN now.status ELSE e.outcome
        /\ latest.hash = now.hash /\ latest.outcome = e.outcome /\ latest.asked = now.asked
    <3>1. latest = Merged(now, e.outcome)
      BY <1>5
    <3> QED BY <1>3, <1>4, <3>1, MergedIs
  <2>2. e.outcome = "REJECTED" => "rejected" \in Facts(o)
    BY <1>2 DEF Good
  <2>3. Good(o, latest, Facts(o))
    <3>1. CASE now.hash # NoHash
      BY <1>4, <2>1, <2>2, <3>1 DEF Good
    <3>2. CASE now.hash = NoHash
      BY <1>3, <1>4, <2>1, <2>2, <3>2 DEF Good, SentStatuses
    <3> QED BY <3>1, <3>2
  <2>4. \A d \in Entry : Descends(d, now) => Descends(d, latest)
    BY <2>1 DEF Descends
  <2>5. volatile[t][o] = Null => Copy(durable[o], latest) /\ latest.revision >= 1
    BY <1>2, <1>4, <2>1, <2>4 DEF Copy
  <2>6. volatile[t][o] # Null /\ volatile[t][o].base = durable[o].revision =>
           Descends(durable[o], latest)
    BY <1>2, <1>4, <2>4 DEF Based
  <2> QED BY <1>3, <1>5, <2>1, <2>3, <2>5, <2>6
<1>6. CASE ~ now.asked
  <2>1. latest = e
    BY <1>6
  <2>2. ~ Descends(durable[o], now)
    BY <1>2, <1>6 DEF Descends, OnRecord
  <2>3. volatile[t][o] # Null /\ volatile[t][o].base # durable[o].revision
    BY <1>2, <1>4, <1>6, <2>2 DEF Based, OnRecord
  <2> QED BY <1>2, <1>3, <2>1, <2>3
<1> QED BY <1>5, <1>6

LEMMA OutcomeSaved ==
    ASSUME TypeOK, IInv, SaveOutcome
    PROVE  TypeOK' /\ IInv' /\ Onward
<1>1. submit.pc = "outcome" /\ UNCHANGED Elsewhere
      /\ submit.pc \in AfterWallet /\ submit.pc \in AfterWallet \ {"nonce"}
  BY DEF SaveOutcome, AfterWallet
<1>2. PICK t \in Tabs : t = submit.tab
  BY <1>1, AfterWalletIs
<1>3. PICK o \in Ops : o = submit.op
  BY <1>1, AfterWalletIs
<1>4. PICK e \in Entry : e = submit.entry
  BY <1>1, AfterWalletIs
<1>5. PICK now : now = Load(t, o)
  OBVIOUS
<1>6. PICK latest : latest = IF now.asked THEN Merged(now, e.outcome) ELSE e
  OBVIOUS
<1>7. \/ /\ submit.waiting
         /\ \/ SaveInStorage(t, o, e, "stored") /\ UNCHANGED volatile /\ Ends
            \/ SaveInStorage(t, o, e, "unavailable") /\ volatile' = Overlaid(t, o, latest) /\ Ends
            \/ /\ SaveInStorage(t, o, e, "conflict")
               /\ CASE ~ now.asked -> UNCHANGED volatile /\ Ends
                    [] now.asked /\ (InMemory(t, o) \/ submit.tries = 2) ->
                          volatile' = Overlaid(t, o, latest) /\ Ends
                    [] OTHER ->
                          /\ submit' = [submit EXCEPT !.entry = latest, !.tries = @ + 1]
                          /\ UNCHANGED volatile
      \/ /\ ~ submit.waiting /\ InMemory(t, o) /\ Ends
         /\ \/ SaveInMemory(t, o, e)
            \/ /\ volatile' = IF now.asked THEN Overlaid(t, o, latest) ELSE volatile
               /\ UNCHANGED <<durable, issues>>
  BY <1>2, <1>3, <1>4, <1>5, <1>6, Zenon DEF SaveOutcome
<1>8. /\ latest \in Entry /\ latest.asked /\ Good(o, latest, Facts(o))
      /\ latest.outcome \in {"REJECTED", "UNKNOWN"}
      /\ volatile[t][o] = Null => Copy(durable[o], latest) /\ latest.revision >= 1
      /\ volatile[t][o] # Null /\ volatile[t][o].base = durable[o].revision =>
            Descends(durable[o], latest)
  BY <1>1, <1>2, <1>3, <1>4, <1>5, <1>6, LatestIs
<1>9. CASE SaveInStorage(t, o, e, "stored") /\ UNCHANGED volatile /\ Ends
  BY <1>1, <1>2, <1>3, <1>4, <1>9, StoredAfterWallet
<1>10. CASE /\ volatile' = Overlaid(t, o, latest) /\ Ends
            /\ durable' = durable /\ issues' \in [Tabs -> SUBSET Ops]
  BY <1>1, <1>2, <1>3, <1>8, <1>10, KeptInMemory
<1>11. CASE UNCHANGED <<durable, volatile>> /\ Ends /\ issues' \in [Tabs -> SUBSET Ops]
  BY <1>1, <1>11, UnwrittenAfterWallet
<1>12. CASE /\ ~ InMemory(t, o) /\ submit.tries # 2
            /\ submit' = [submit EXCEPT !.entry = latest, !.tries = @ + 1]
            /\ UNCHANGED <<durable, volatile, issues>>
  <2>1. submit \in Submissions /\ volatile[t][o] = Null
    BY <1>12 DEF TypeOK, InMemory
  <2>2. PICK n \in 0..2 : n = submit.tries + 1
    <3>1. submit.tries \in 0..2
      BY <2>1 DEF Submissions
    <3> QED BY <1>12, <3>1
  <2>3. submit' = [submit EXCEPT !.entry = latest, !.tries = n]
    BY <1>12, <2>2
  <2>4. /\ submit' \in Submissions /\ submit'.pc = submit.pc /\ submit'.tab = submit.tab
        /\ submit'.op = submit.op /\ submit'.entry = latest
    <3>1. latest \in Entry
      BY <1>8
    <3> QED BY ONLY <2>1, <2>3, <3>1, n \in 0..2 DEF Submissions
  <2>5. UNCHANGED <<durable, wallet, failed, begun>>
    BY <1>1, <1>12 DEF Elsewhere, chainVars
  <2>6. Good(o, latest, Facts(o)')
    BY <1>1, <1>3, <1>8, <2>4, FactsAtEnd, GoodKept
  <2>7. /\ Copy(durable'[o], latest) /\ latest.revision >= 1 /\ latest.asked
        /\ wallet'[o] # "none" /\ durable'[o] # Null
    BY <1>1, <1>3, <1>8, <2>1, <2>5, AfterWalletIs
  <2>8. SubmitSound'
    BY <1>1, <1>3, <1>8, <2>4, <2>5, <2>6, <2>7, HeldIsSound DEF BeforeWallet, SubmitSteps
  <2> QED BY <1>1, <1>12, <2>4, <2>8, IssuesKept, SubmitGoesOn
<1>13. CASE InMemory(t, o) /\ SaveInMemory(t, o, e) /\ Ends
  BY <1>1, <1>2, <1>3, <1>4, <1>13, SavedInMemoryAfterWallet
<1>14. ASSUME SaveInStorage(t, o, e, "unavailable") \/ SaveInStorage(t, o, e, "conflict")
       PROVE  durable' = durable /\ issues' \in [Tabs -> SUBSET Ops]
  BY <1>14, SavedIs, WriteFailsIs, IssuesKept
<1>15. CASE /\ SaveInStorage(t, o, e, "conflict")
            /\ CASE ~ now.asked -> UNCHANGED volatile /\ Ends
                 [] now.asked /\ (InMemory(t, o) \/ submit.tries = 2) ->
                       volatile' = Overlaid(t, o, latest) /\ Ends
                 [] OTHER ->
                       /\ submit' = [submit EXCEPT !.entry = latest, !.tries = @ + 1]
                       /\ UNCHANGED volatile
  <2>1. \/ UNCHANGED volatile /\ Ends
        \/ volatile' = Overlaid(t, o, latest) /\ Ends
        \/ /\ ~ InMemory(t, o) /\ submit.tries # 2
           /\ submit' = [submit EXCEPT !.entry = latest, !.tries = @ + 1]
           /\ UNCHANGED volatile
    BY <1>15, Zenon
  <2>2. UNCHANGED <<durable, issues>>
    BY <1>15, SavedIs
  <2> QED BY <1>10, <1>11, <1>12, <1>14, <1>15, <2>1, <2>2
<1>16. CASE /\ volatile' = IF now.asked THEN Overlaid(t, o, latest) ELSE volatile
            /\ Ends /\ UNCHANGED <<durable, issues>>
  BY <1>10, <1>11, <1>16, IssuesKept
<1> QED BY <1>7, <1>9, <1>10, <1>13, <1>14, <1>15, <1>16

LEMMA Submitted ==
    ASSUME TypeOK, IInv, Submit
    PROVE  TypeOK' /\ IInv' /\ Onward
<1>1. CASE \E t \in Tabs : Start(t)
  BY <1>1, Started
<1>2. CASE Requeue
  BY <1>2, Requeued
<1>3. CASE Create
  BY <1>3, Saving DEF Create, NextAfter
<1>4. CASE Simulate
  BY <1>4, Simulated
<1>5. CASE SaveAwaiting
  BY <1>5, Saving DEF SaveAwaiting, NextAfter
<1>6. CASE Verify
  BY <1>6, Verified
<1>7. CASE SaveRefusal
  BY <1>7, Saving DEF SaveRefusal, NextAfter
<1>8. CASE SaveHash \/ SaveHashAgain
  BY <1>8, HashSaved, HashSavedAgain
<1>9. CASE ReadNonce \/ SaveNonce
  BY <1>9, NonceRead, NonceSaved
<1>10. CASE SaveOutcome
  BY <1>10, OutcomeSaved
<1> QED BY <1>1, <1>2, <1>3, <1>4, <1>5, <1>6, <1>7, <1>8, <1>9, <1>10 DEF Submit

-----------------------------------------------------------------------------
(* Verification.                                                           *)

\* A step of a verification touches its operation.
LEMMA ObserverStep ==
    ASSUME TypeOK, IInv, UNCHANGED Sideways, NEW o \in Ops, durable[o] # Null,
           durable' \in [Ops -> Entry \cup {Null}],
           \A p \in Ops \ {o} : durable'[p] = durable[p],
           Later(durable[o], durable'[o]), StoredSound(o, durable'[o], Facts(o)),
           volatile' \in [Tabs -> [Ops -> Overlays \cup {Null}]],
           \A u \in Tabs, p \in Ops \ {o} : volatile'[u][p] = volatile[u][p],
           \A u \in Tabs :
              \/ volatile'[u][o] = volatile[u][o]
              \/ OverlaySound(u, o, durable'[o], volatile'[u][o], submit, Facts(o)),
           issues' \in [Tabs -> SUBSET Ops], checks' \in 0..MaxChecks,
           NEW c \in Verifications, check' = [check EXCEPT ![o] = c],
           CheckSound(o, durable'[o], c, volatile'[c.tab][o], submit, Facts(o))
    PROVE  TypeOK' /\ IInv' /\ Onward
<1>1. UNCHANGED <<submit, wallet, tx, failed, begun, mishaps>>
  BY DEF Sideways, chainVars
<1>2. check \in [Ops -> Verifications]
  BY DEF TypeOK
<1>3. /\ check' \in [Ops -> Verifications] /\ check'[o] = c
      /\ \A p \in Ops \ {o} : check'[p] = check[p]
  BY ONLY <1>2, o \in Ops, c \in Verifications, check' = [check EXCEPT ![o] = c]
<1>4. ASSUME NEW p \in Ops PROVE Facts(p)' = Facts(p)
  BY <1>1 DEF Facts
<1>5. ASSUME NEW p \in Ops PROVE Later(durable[p], durable'[p])
  BY DEF Later
<1>6. Forward
  BY <1>1, <1>4, <1>5 DEF Forward
<1>7. ASSUME NEW u \in Tabs
      PROVE  OverlaySound(u, o, durable'[o], volatile'[u][o], submit', Facts(o)')
  <2>1. CASE volatile'[u][o] = volatile[u][o]
    BY <1>6, <2>1, OverlaysKept
  <2>2. CASE OverlaySound(u, o, durable'[o], volatile'[u][o], submit, Facts(o))
    BY <1>1, <1>4, <2>2
  <2> QED BY <2>1, <2>2
<1>8. CheckSound(o, durable'[o], check'[o], volatile'[check'[o].tab][o], submit', Facts(o)')
  BY <1>1, <1>3, <1>4
<1>9. StoredSound(o, durable'[o], Facts(o)')
  BY <1>4
<1>10. ~ (o > begun)
  BY DEF IInv, OperationSound
<1>11. submit.pc = "create" => durable'[submit.op] = durable[submit.op]
  <2>1. submit.pc = "create" => submit.op \in Ops /\ durable[submit.op] = Null
    BY DEF IInv, SubmitSound
  <2> QED BY <2>1
<1>12. SubmitSound'
  BY <1>1, <1>6, <1>11, SubmissionKept DEF CameToNothing
<1>13. \A p \in Ops : tx'[p] \in {"reverted", "replaced"} => p \in failed'
  BY <1>1 DEF IInv, OperationSound
<1>14. IInv'
  BY <1>1, <1>3, <1>6, <1>7, <1>8, <1>9, <1>10, <1>12, <1>13, OneOperation
<1>15. TypeOK'
  <2>1. ASSUME NEW u \in Tabs, NEW p \in Ops, volatile'[u][p] # Null
        PROVE  volatile'[u][p].base \in 1..Revision(durable'[p])
    <3>1. CASE p = o
      <4>1. durable'[p] # Null /\ volatile'[u][p].base \in 1..durable'[p].revision
        BY <1>7, <2>1, <3>1 DEF OverlaySound
      <4> QED BY <4>1 DEF Revision
    <3>2. CASE p # o
      BY <2>1, <3>2, TypesOf
    <3> QED BY <3>1, <3>2
  <2>2. submit.pc \notin {"idle", "create"} => durable'[submit.op] # Null
    <3>1. submit.pc \notin {"idle", "create"} => submit.op \in Ops /\ durable[submit.op] # Null
      BY Running, EntryFields
    <3> QED BY <1>5, <3>1 DEF Later
  <2> QED BY <1>1, <1>3, <2>1, <2>2 DEF TypeOK, InMemory
<1> QED BY <1>5, <1>14, <1>15 DEF Onward

\* What a verification is, whatever it does next.
LEMMA CheckIs ==
    ASSUME TypeOK, IInv, NEW o \in Ops, check[o].pc # "idle"
    PROVE  /\ check[o] \in Verifications /\ check[o].tab \in Tabs
           /\ durable[o] \in Entry /\ durable[o] # Null
           /\ OwnCandidates => check[o].hash \in {NoHash, o}
           /\ check[o].pc = "inspect" \/ check[o].then = "inspect" => check[o].hash # NoHash
<1>1. CheckSound(o, durable[o], check[o], volatile[check[o].tab][o], submit, Facts(o))
  BY DEF IInv, OperationSound
<1> QED BY <1>1, TypesOf DEF CheckSound

LEMMA NoCheckIs ==
    ASSUME NEW o, NEW d, NEW v, NEW s, NEW facts
    PROVE  NoCheck \in Verifications /\ CheckSound(o, d, NoCheck, v, s, facts)
<1>1. NoCheck.pc = "idle" /\ NoCheck.then = "idle"
  BY DEF NoCheck
<1>2. NoCheck \in Verifications
  BY DEF NoCheck, Verifications, NoHash
<1> QED BY <1>1, <1>2 DEF CheckSound

\* A verification that only goes on, or ends.
LEMMA CheckGoesOn ==
    ASSUME TypeOK, IInv, UNCHANGED <<journal, Sideways>>, NEW o \in Ops, durable[o] # Null,
           checks' \in 0..MaxChecks, NEW c \in Verifications, check' = [check EXCEPT ![o] = c],
           CheckSound(o, durable[o], c, volatile[c.tab][o], submit, Facts(o))
    PROVE  TypeOK' /\ IInv' /\ Onward
<1>1. UNCHANGED <<durable, volatile, issues>> /\ UNCHANGED Sideways
  BY DEF journal
<1>2. StoredSound(o, durable[o], Facts(o)) /\ Later(durable[o], durable[o])
  BY DEF IInv, OperationSound, Later
<1>3. /\ durable' \in [Ops -> Entry \cup {Null}] /\ issues' \in [Tabs -> SUBSET Ops]
      /\ volatile' \in [Tabs -> [Ops -> Overlays \cup {Null}]]
  BY <1>1 DEF TypeOK
<1> QED BY <1>1, <1>2, <1>3, ObserverStep

LEMMA Selected ==
    ASSUME TypeOK, IInv, NEW t \in Tabs, NEW o \in Ops, Select(t, o)
    PROVE  TypeOK' /\ IInv' /\ Onward
<1>1. /\ checks < MaxChecks /\ Load(t, o) # Null /\ checks' = checks + 1
      /\ UNCHANGED <<journal, Sideways>>
  BY DEF Select
<1>2. PICK h \in Supplied(o) \cup {NoHash} :
         check' = [check EXCEPT ![o] = [NoCheck EXCEPT !.pc = "selected", !.tab = t, !.hash = h,
                                                       !.id = checks + 1]]
  BY DEF Select
<1>3. h \in Ops \cup {NoHash} /\ (OwnCandidates => h \in {NoHash, o})
  BY <1>2 DEF Supplied
<1>4. PICK n \in 0..MaxChecks : n = checks + 1
  <2>1. checks \in 0..MaxChecks
    BY DEF TypeOK
  <2> QED BY <1>1, <2>1
<1>5. PICK c : c = [NoCheck EXCEPT !.pc = "selected", !.tab = t, !.hash = h, !.id = n]
  OBVIOUS
<1>6. /\ c \in Verifications
      /\ c.pc = "selected" /\ c.tab = t /\ c.hash = h /\ c.then = "idle"
  <2>1. NoCheck \in Verifications /\ NoCheck.then = "idle"
    BY NoCheckIs DEF NoCheck
  <2> QED BY ONLY <1>3, <1>5, <2>1, t \in Tabs, n \in 0..MaxChecks DEF Verifications
<1>7. check' = [check EXCEPT ![o] = c]
  BY <1>2, <1>4, <1>5
<1>8. durable[o] # Null
  BY <1>1 DEF Load, IInv, OverlaySound
<1>10. CheckSound(o, durable[o], c, volatile[c.tab][o], submit, Facts(o))
  BY <1>3, <1>6, <1>8 DEF CheckSound
<1> QED BY <1>1, <1>4, <1>6, <1>7, <1>8, <1>10, CheckGoesOn

\* An update writes an entry made of the one that was read.
LEMMA Updated ==
    ASSUME TypeOK, IInv, UNCHANGED <<checks, Sideways>>, NEW o \in Ops,
           NEW c \in Verifications, c.tab \in Tabs, c.pc \in {"selected", "inspect"},
           durable[o] # Null, OwnCandidates => c.hash \in {NoHash, o},
           NEW then \in {"idle", "inspect"},
           c.pc = "inspect" \/ c.then = "inspect" \/ then = "inspect" => c.hash # NoHash,
           NEW now, now = Load(c.tab, o), NEW e \in Entry, Good(o, e, Facts(o)),
           e.revision = now.revision, Descends(now, e), Update(o, c, e, then)
    PROVE  TypeOK' /\ IInv' /\ Onward
<1>1. PICK t \in Tabs : t = c.tab
  OBVIOUS
<1>2. /\ now \in Entry /\ durable[o] \in Entry
      /\ volatile[t][o] = Null => now = durable[o] /\ Copy(durable[o], now) /\ now.revision >= 1
      /\ volatile[t][o] # Null =>
            /\ volatile[t][o].base \in 1..durable[o].revision
            /\ Based(t, o, durable[o], volatile[t][o].base, submit, now)
  BY <1>1, LoadIs, TypesOf
<1>3. \A d \in Entry : Descends(d, now) => Descends(d, e)
  BY DEF Descends
<1>4. /\ volatile[t][o] = Null => Copy(durable[o], e) /\ e.revision >= 1
      /\ volatile[t][o] # Null => Based(t, o, durable[o], volatile[t][o].base, submit, e)
  BY <1>2, <1>3 DEF Copy, Based
<1>5. checks' \in 0..MaxChecks /\ UNCHANGED Sideways
  BY DEF TypeOK
<1>6. CASE InMemory(t, o) /\ issues[t] = {}
  <2>1. /\ volatile' = Overlaid(t, o, e) /\ UNCHANGED <<durable, issues>>
        /\ check' = [check EXCEPT ![o] = IF then = "idle" THEN NoCheck ELSE [c EXCEPT !.pc = then]]
    BY <1>1, <1>6 DEF Update
  <2>2. volatile[t][o] # Null
    BY <1>6 DEF InMemory
  <2>3. OverlaySound(t, o, durable[o], volatile'[t][o], submit, Facts(o))
    <3>1. /\ volatile[t][o].base \in Nat /\ e.revision \in Nat
          /\ Based(t, o, durable[o], volatile[t][o].base, submit, e)
      BY <1>4, <2>2, TypesOf, EntryFields
    <3>2. /\ volatile[t][o].base = durable[o].revision => Descends(durable[o], e)
          /\ submit.tab = t /\ submit.op = o => e.revision >= volatile[t][o].base
      BY <3>1 DEF Based
    <3> QED BY <2>1, <2>2, <3>2, OverlaidSound
  <2>4. /\ volatile' \in [Tabs -> [Ops -> Overlays \cup {Null}]]
        /\ \A u \in Tabs, p \in Ops : u # t \/ p # o => volatile'[u][p] = volatile[u][p]
    BY <2>1, OverlaidIs
  <2>5. PICK c2 : c2 = IF then = "idle" THEN NoCheck ELSE [c EXCEPT !.pc = then]
    OBVIOUS
  <2>6. /\ c2 \in Verifications
        /\ CheckSound(o, durable[o], c2, volatile'[c2.tab][o], submit, Facts(o))
    <3>1. CASE then = "idle"
      BY <2>5, <3>1, NoCheckIs
    <3>2. CASE then = "inspect"
      <4>1. c2 = [c EXCEPT !.pc = then]
        BY <2>5, <3>2
      <4>2. /\ c2 \in Verifications /\ c2.pc = then /\ c2.tab = c.tab /\ c2.hash = c.hash
            /\ c2.then = c.then
        BY ONLY <4>1, <3>2, c \in Verifications DEF Verifications
      <4> QED BY <3>2, <4>2 DEF CheckSound
    <3> QED BY <3>1, <3>2
  <2>7. /\ StoredSound(o, durable'[o], Facts(o)) /\ Later(durable[o], durable'[o])
        /\ durable' \in [Ops -> Entry \cup {Null}] /\ issues' \in [Tabs -> SUBSET Ops]
        /\ \A p \in Ops : durable'[p] = durable[p]
    <3>1. StoredSound(o, durable[o], Facts(o))
      BY DEF IInv, OperationSound
    <3> QED BY <2>1, <3>1 DEF Later, TypeOK
  <2>8. check' = [check EXCEPT ![o] = c2]
    BY <2>1, <2>5
  <2>9. /\ \A u \in Tabs, p \in Ops \ {o} : volatile'[u][p] = volatile[u][p]
        /\ \A u \in Tabs :
              \/ volatile'[u][o] = volatile[u][o]
              \/ OverlaySound(u, o, durable'[o], volatile'[u][o], submit, Facts(o))
    BY <2>3, <2>4, <2>7
  <2>10. CheckSound(o, durable'[o], c2, volatile'[c2.tab][o], submit, Facts(o))
    BY <2>6, <2>7
  <2> QED BY <1>5, <2>4, <2>6, <2>7, <2>8, <2>9, <2>10, ObserverStep
<1>7. CASE ~ (InMemory(t, o) /\ issues[t] = {})
  <2>0. PICK retry : retry = InMemory(t, o)
    OBVIOUS
  <2>1. retry \in BOOLEAN /\ (retry <=> InMemory(t, o))
    BY <2>0 DEF InMemory
  <2>2. PICK c2 : c2 = [c EXCEPT !.pc = "write", !.entry = e, !.retry = retry, !.then = then]
    OBVIOUS
  <2>3. check' = [check EXCEPT ![o] = c2] /\ UNCHANGED journal
    BY <1>1, <1>7, <2>0, <2>2, Zenon DEF Update
  <2>4. /\ c2 \in Verifications /\ c2.pc = "write" /\ c2.tab = c.tab /\ c2.hash = c.hash
        /\ c2.then = then /\ c2.retry = retry /\ c2.entry = e
    BY ONLY <2>2, c \in Verifications, <2>1, then \in {"idle", "inspect"},
       e \in Entry DEF Verifications
  <2>5. CheckSound(o, durable[o], c2, volatile[t][o], submit, Facts(o))
    <3>1. retry => volatile[t][o] # Null
      BY <2>1 DEF InMemory
    <3>2. ~ retry => volatile[t][o] = Null
      BY <2>1 DEF InMemory
    <3> QED BY <1>1, <1>4, <2>4, <3>1, <3>2 DEF CheckSound
  <2> QED BY <1>1, <1>5, <2>3, <2>4, <2>5, CheckGoesOn
<1> QED BY <1>6, <1>7

LEMMA Began ==
    ASSUME TypeOK, IInv, NEW o \in Ops, Begin(o)
    PROVE  TypeOK' /\ IInv' /\ Onward
<1>1. check[o].pc = "selected" /\ check[o].pc # "idle" /\ UNCHANGED <<checks, Sideways>>
  BY DEF Begin
<1>2. PICK c \in Verifications : c = check[o]
  BY <1>1, CheckIs
<1>3. /\ c.tab \in Tabs /\ durable[o] # Null
      /\ OwnCandidates => c.hash \in {NoHash, o}
      /\ c.then = "inspect" => c.hash # NoHash
  BY <1>1, <1>2, CheckIs
<1>4. PICK now : now = Load(c.tab, o)
  OBVIOUS
<1>5. now \in Entry /\ Good(o, now, Facts(o))
  BY <1>3, <1>4, LoadIs
<1>6. PICK h : h = IF c.hash # NoHash THEN c.hash ELSE now.hash
  OBVIOUS
<1>7. h \in Ops \cup {NoHash} /\ (OwnCandidates => h \in {NoHash, o})
  <2>1. c.hash \in Ops \cup {NoHash}
    BY DEF Verifications
  <2> QED BY <1>3, <1>5, <1>6, <2>1, EntryFields DEF Good
<1>8. IF h = NoHash
      THEN Update(o, c, [now EXCEPT !.status = "UNKNOWN"], "idle")
      ELSE Update(o, [c EXCEPT !.hash = h], [now EXCEPT !.request = c.id], "inspect")
  BY <1>2, <1>4, <1>6 DEF Begin
<1>9. CASE h = NoHash
  <2>1. PICK e : e = [now EXCEPT !.status = "UNKNOWN"]
    OBVIOUS
  <2>2. /\ e \in Entry /\ e.revision = now.revision /\ e.status = "UNKNOWN" /\ e.hash = now.hash
        /\ e.outcome = now.outcome /\ e.asked = now.asked
    BY <1>5, <2>1, StatusIs DEF Statuses
  <2>3. now.hash = NoHash /\ c.hash = NoHash
    BY <1>6, <1>9
  <2>4. Good(o, e, Facts(o)) /\ Descends(now, e)
    BY <1>5, <2>2, <2>3 DEF Good, SentStatuses, Descends
  <2> QED BY <1>1, <1>2, <1>3, <1>4, <1>8, <1>9, <2>1, <2>2, <2>4, Updated
<1>10. CASE h # NoHash
  <2>1. PICK id \in 0..MaxChecks : id = c.id
    BY DEF Verifications
  <2>2. PICK e : e = [now EXCEPT !.request = id]
    OBVIOUS
  <2>3. /\ e \in Entry /\ e.revision = now.revision /\ e.status = now.status
        /\ e.hash = now.hash /\ e.outcome = now.outcome /\ e.asked = now.asked
    BY <1>5, <2>2, RequestIs
  <2>4. Good(o, e, Facts(o)) /\ Descends(now, e)
    BY <1>5, <2>3, GoodLike DEF Descends
  <2>5. PICK c2 : c2 = [c EXCEPT !.hash = h]
    OBVIOUS
  <2>6. /\ c2 \in Verifications /\ c2.tab = c.tab /\ c2.pc = c.pc /\ c2.hash = h
        /\ c2.then = c.then
    BY ONLY <1>7, <2>5, c \in Verifications DEF Verifications
  <2>7. Update(o, c2, e, "inspect")
    BY <1>8, <1>10, <2>1, <2>2, <2>5
  <2> QED BY <1>1, <1>2, <1>3, <1>4, <1>7, <1>10, <2>3, <2>4, <2>6, <2>7, Updated
<1> QED BY <1>8, <1>9, <1>10

\* What is shown of a transaction is how it is, or was before a reorganisation.
LEMMA ShownIs ==
    ASSUME NEW h, NEW shown \in Shown(h)
    PROVE  /\ shown \in {"nothing", "ORPHANED"} \cup SentStatuses
           /\ shown = "INCLUDED_REVERTED" => tx[h] = "reverted"
           /\ shown = "REPLACED_OR_CANCELLED" => tx[h] = "replaced"
<1>1. CASE tx[h] = "pending"
  <2>1. Shown(h) = {"nothing"} \cup {"SUBMITTED"}
    BY <1>1, Zenon DEF Shown
  <2> QED BY <2>1 DEF SentStatuses
<1>2. CASE tx[h] = "success"
  <2>1. Shown(h) = {"nothing"} \cup {"INCLUDED_SUCCESS"}
    BY <1>2, Zenon DEF Shown
  <2> QED BY <2>1 DEF SentStatuses
<1>3. CASE tx[h] = "reverted"
  <2>1. Shown(h) = {"nothing"} \cup {"INCLUDED_REVERTED"}
    BY <1>3, Zenon DEF Shown
  <2> QED BY <1>3, <2>1 DEF SentStatuses
<1>4. CASE tx[h] = "replaced"
  <2>1. Shown(h) = {"nothing"} \cup {"REPLACED_OR_CANCELLED"}
    BY <1>4, Zenon DEF Shown
  <2> QED BY <1>4, <2>1 DEF SentStatuses
<1>5. CASE tx[h] = "orphaned"
  <2>1. Shown(h) = {"nothing"} \cup {"SUBMITTED", "ORPHANED"}
    BY <1>5, Zenon DEF Shown
  <2> QED BY <2>1 DEF SentStatuses
<1>6. CASE tx[h] \notin {"pending", "success", "reverted", "replaced", "orphaned"}
  <2>1. Shown(h) = {"nothing"} \cup {}
    BY <1>6, Zenon DEF Shown
  <2> QED BY <2>1
<1> QED BY <1>1, <1>2, <1>3, <1>4, <1>5, <1>6

\* What an inspection records is good, whatever it was shown.
LEMMA ObservedGood ==
    ASSUME TypeOK, IInv, NEW o \in Ops, NEW h \in Ops, OwnCandidates => h = o,
           NEW now \in Entry, Good(o, now, Facts(o)), NEW shown \in Shown(h),
           NEW e, e = Observed(now, h, shown)
    PROVE  /\ e \in Entry /\ e.revision = now.revision /\ Descends(now, e)
           /\ Good(o, e, Facts(o))
<1>1. h # NoHash
  BY OpsAre
<1>2. CASE shown = "nothing"
  <2>1. e = now
    BY <1>2, Zenon DEF Observed
  <2> QED BY <2>1 DEF Descends
<1>3. CASE shown = "ORPHANED"
  <2>1. e = [now EXCEPT !.status = shown]
    BY <1>3, Zenon DEF Observed
  <2>2. /\ e \in Entry /\ e.revision = now.revision /\ e.status = "ORPHANED"
        /\ e.hash = now.hash /\ e.outcome = now.outcome /\ e.asked = now.asked
    BY <1>3, <2>1, StatusIs DEF Statuses
  <2> QED BY <2>2 DEF Good, Descends, SentStatuses
<1>4. CASE shown \notin {"nothing", "ORPHANED"}
  <2>1. shown \in SentStatuses /\ shown \in Statuses
    BY <1>4, ShownIs DEF SentStatuses, Statuses
  <2>2. e = [now EXCEPT !.status = shown, !.hash = h]
    BY <1>4, Zenon DEF Observed
  <2>3. /\ e \in Entry /\ e.revision = now.revision /\ e.status = shown
        /\ e.hash = h /\ e.outcome = now.outcome /\ e.asked = now.asked
    BY ONLY <2>1, <2>2, now \in Entry, h \in Ops DEF Entry
  <2>4. OwnCandidates /\ shown \in {"INCLUDED_REVERTED", "REPLACED_OR_CANCELLED"} =>
           "failed" \in Facts(o)
    <3>1. tx[o] \in {"reverted", "replaced"} => o \in failed
      BY DEF IInv, OperationSound
    <3>2. shown \in {"INCLUDED_REVERTED", "REPLACED_OR_CANCELLED"} =>
             tx[h] \in {"reverted", "replaced"}
      BY ShownIs
    <3>3. o \in failed => "failed" \in Facts(o)
      BY DEF Facts
    <3> QED BY <3>1, <3>2, <3>3
  <2>5. shown \notin {"REJECTED", "FAILED_BEFORE_SUBMIT"}
    BY <2>1 DEF SentStatuses
  <2>6. OwnCandidates => e.hash \in {NoHash, o}
    BY <2>3
  <2> QED BY <1>1, <2>1, <2>3, <2>4, <2>5, <2>6 DEF Good, Descends
<1> QED BY <1>2, <1>3, <1>4

LEMMA Inspected ==
    ASSUME TypeOK, IInv, NEW o \in Ops, Inspect(o)
    PROVE  TypeOK' /\ IInv' /\ Onward
<1>1. check[o].pc = "inspect" /\ check[o].pc # "idle" /\ UNCHANGED <<checks, Sideways>>
  BY DEF Inspect
<1>2. PICK c \in Verifications : c = check[o]
  BY <1>1, CheckIs
<1>3. /\ c.tab \in Tabs /\ durable[o] # Null /\ c.hash # NoHash /\ c.pc = "inspect"
      /\ OwnCandidates => c.hash \in {NoHash, o}
  BY <1>1, <1>2, CheckIs
<1>4. PICK now : now = Load(c.tab, o)
  OBVIOUS
<1>5. now \in Entry /\ Good(o, now, Facts(o))
  BY <1>3, <1>4, LoadIs
<1>6. IF now.request # c.id
      THEN check' = [check EXCEPT ![o] = NoCheck] /\ UNCHANGED journal
      ELSE \E shown \in Shown(c.hash) : Update(o, c, Observed(now, c.hash, shown), "idle")
  BY <1>2, <1>4 DEF Inspect
<1>7. CASE check' = [check EXCEPT ![o] = NoCheck] /\ UNCHANGED journal
  <2>1. checks' \in 0..MaxChecks /\ UNCHANGED <<journal, Sideways>>
    BY <1>1, <1>7 DEF TypeOK
  <2> QED BY <1>3, <1>7, <2>1, NoCheckIs, CheckGoesOn
<1>8. CASE \E shown \in Shown(c.hash) : Update(o, c, Observed(now, c.hash, shown), "idle")
  <2>1. PICK shown \in Shown(c.hash) : Update(o, c, Observed(now, c.hash, shown), "idle")
    BY <1>8
  <2>2. c.hash \in Ops /\ (OwnCandidates => c.hash = o)
    BY <1>3 DEF Verifications
  <2>3. PICK e : e = Observed(now, c.hash, shown)
    OBVIOUS
  <2>4. /\ e \in Entry /\ e.revision = now.revision /\ Descends(now, e)
        /\ Good(o, e, Facts(o))
    BY <1>5, <2>2, <2>3, ObservedGood
  <2> QED BY <1>1, <1>3, <1>4, <2>1, <2>3, <2>4, Updated
<1> QED BY <1>6, <1>7, <1>8

\* What a retry stores descends from what is stored.
LEMMA CandidateIs ==
    ASSUME TypeOK, IInv, NEW t \in Tabs, NEW o \in Ops, NEW e \in Entry,
           Good(o, e, Facts(o)), volatile[t][o] # Null, durable[o] # Null,
           Based(t, o, durable[o], volatile[t][o].base, submit, e),
           NEW candidate, candidate = Candidate(t, o, e), candidate # Null
    PROVE  candidate \in Entry /\ Good(o, candidate, Facts(o)) /\ Descends(durable[o], candidate)
<1>1. /\ durable[o] \in Entry /\ Good(o, durable[o], Facts(o))
      /\ Revision(durable[o]) = durable[o].revision
  BY TypesOf DEF IInv, OperationSound, StoredSound, Revision
<1>2. CASE durable[o].revision = volatile[t][o].base
  BY <1>1, <1>2 DEF Candidate, Based
<1>3. CASE durable[o].revision # volatile[t][o].base
  <2>1. candidate = Rebased(durable[o], e)
    BY <1>1, <1>3 DEF Candidate
  <2>2. /\ durable[o].asked = e.asked /\ durable[o].hash = NoHash /\ e.hash # NoHash
        /\ candidate = [e EXCEPT !.outcome = IF @ = Null THEN durable[o].outcome ELSE @]
    BY <2>1 DEF Rebased
  <2>3. PICK oc : oc = IF e.outcome = Null THEN durable[o].outcome ELSE e.outcome
    OBVIOUS
  <2>4. oc \in {Null, "REJECTED", "UNKNOWN"}
    BY <1>1, <2>3, EntryFields
  <2>5. candidate = [e EXCEPT !.outcome = oc]
    BY <2>2, <2>3 DEF Entry
  <2>6. /\ candidate \in Entry /\ candidate.status = e.status /\ candidate.hash = e.hash
        /\ candidate.outcome = oc /\ candidate.asked = e.asked
    BY <2>4, <2>5, OutcomeIs
  <2>7. oc = "REJECTED" => "rejected" \in Facts(o)
    BY <1>1, <2>3 DEF Good
  <2>8. Good(o, candidate, Facts(o))
    BY <2>6, <2>7 DEF Good
  <2> QED BY <2>2, <2>6, <2>8 DEF Descends
<1> QED BY <1>2, <1>3

LEMMA RetriedIs ==
    ASSUME NEW t, NEW o, NEW e
    PROVE  /\ RetryDurable(t, o, e, "stored") =>
                 /\ Candidate(t, o, e) # Null
                 /\ Store(t, o, Advanced(Candidate(t, o, e), Revision(durable[o])))
           /\ RetryDurable(t, o, e, "conflict") => UNCHANGED <<durable, issues>>
           /\ RetryDurable(t, o, e, "unavailable") => WriteFails(t, o)
  BY DEF RetryDurable

LEMMA UpdateWritten ==
    ASSUME TypeOK, IInv, NEW o \in Ops, WriteUpdate(o)
    PROVE  TypeOK' /\ IInv' /\ Onward
<1>1. /\ check[o].pc = "write" /\ check[o].pc # "idle" /\ UNCHANGED <<checks, Sideways>>
  BY DEF WriteUpdate
<1>2. PICK c \in Verifications : c = check[o]
  BY <1>1, CheckIs
<1>3. PICK t \in Tabs : t = c.tab
  BY <1>1, <1>2, CheckIs
<1>4. PICK e : e = c.entry
  OBVIOUS
<1>5. /\ durable[o] \in Entry /\ durable[o] # Null
      /\ OwnCandidates => c.hash \in {NoHash, o}
      /\ c.then = "inspect" => c.hash # NoHash
  BY <1>1, <1>2, CheckIs
<1>6. /\ Good(o, e, Facts(o)) /\ e \in Entry
      /\ c.retry =>
            volatile[t][o] # Null /\ Based(t, o, durable[o], volatile[t][o].base, submit, e)
      /\ ~ c.retry =>
            /\ Copy(durable[o], e)
            /\ submit.tab = t /\ submit.op = o => volatile[t][o] = Null
  BY <1>1, <1>2, <1>3, <1>4 DEF IInv, OperationSound, CheckSound, Good
<1>7. PICK result \in {"stored", "conflict", "unavailable"} :
         /\ IF c.retry THEN RetryDurable(t, o, e, result) ELSE SaveInStorage(t, o, e, result)
         /\ volatile' = CASE result = "unavailable" -> Overlaid(t, o, e)
                          [] result = "stored" /\ c.retry -> [volatile EXCEPT ![t][o] = Null]
                          [] OTHER -> volatile
  BY <1>2, <1>3, <1>4, Zenon DEF WriteUpdate
<1>8. PICK c2 : c2 = IF c.then = "idle" THEN NoCheck ELSE [c EXCEPT !.pc = c.then, !.entry = Null]
  OBVIOUS
<1>9. check' = [check EXCEPT ![o] = c2]
  BY <1>2, <1>8 DEF WriteUpdate
<1>10. /\ c2 \in Verifications
       /\ \A d \in Entry : \A v : d # Null => CheckSound(o, d, c2, v, submit, Facts(o))
  <2>1. CASE c.then = "idle"
    BY <1>8, <2>1, NoCheckIs
  <2>2. CASE c.then # "idle"
    <3>1. c.then = "inspect"
      BY <2>2 DEF Verifications
    <3>2. c2 = [c EXCEPT !.pc = "inspect", !.entry = Null]
      BY <1>8, <2>2, <3>1
    <3>3. /\ c2 \in Verifications /\ c2.pc = "inspect" /\ c2.tab = c.tab /\ c2.hash = c.hash
          /\ c2.then = c.then
      BY ONLY <3>2, c \in Verifications DEF Verifications
    <3> QED BY <1>3, <1>5, <3>1, <3>3 DEF CheckSound
  <2> QED BY <2>1, <2>2
<1>11. checks' \in 0..MaxChecks /\ UNCHANGED Sideways
  BY <1>1 DEF TypeOK
<1>12. /\ StoredSound(o, durable[o], Facts(o))
       /\ durable[o].revision >= 1 /\ durable[o].revision \in Nat
  BY <1>5, EntryFields DEF IInv, OperationSound, StoredSound
<1>13. CASE result = "conflict"
  <2>1. volatile' = volatile
    BY <1>7, <1>13, Zenon
  <2>2. UNCHANGED <<durable, issues>>
    BY <1>7, <1>13, RetriedIs, SavedIs
  <2>3. UNCHANGED <<journal, Sideways>>
    BY <1>11, <2>1, <2>2 DEF journal
  <2>4. CheckSound(o, durable[o], c2, volatile[c2.tab][o], submit, Facts(o))
    BY <1>5, <1>10
  <2> QED BY <1>5, <1>9, <1>10, <1>11, <2>3, <2>4, CheckGoesOn
<1>14. CASE result = "unavailable"
  <2>1. volatile' = Overlaid(t, o, e)
    BY <1>7, <1>14, Zenon
  <2>2. durable' = durable /\ issues' \in [Tabs -> SUBSET Ops]
    BY <1>7, <1>14, RetriedIs, SavedIs, WriteFailsIs
  <2>3. OverlaySound(t, o, durable[o], volatile'[t][o], submit, Facts(o))
    <3>1. CASE c.retry
      <4>1. /\ volatile[t][o] # Null /\ volatile[t][o].base \in Nat /\ e.revision \in Nat
            /\ Based(t, o, durable[o], volatile[t][o].base, submit, e)
        BY <1>6, <3>1, TypesOf, EntryFields
      <4>2. /\ volatile[t][o].base = durable[o].revision => Descends(durable[o], e)
            /\ submit.tab = t /\ submit.op = o => e.revision >= volatile[t][o].base
        BY <4>1 DEF Based
      <4> QED BY <1>5, <1>6, <2>1, <4>1, <4>2, OverlaidSound
    <3>2. CASE ~ c.retry
      <4>1. e.revision = durable[o].revision
        BY <1>5, <1>7, <1>14, <3>2, SavedIs, RevisionOf DEF Fresh
      <4>2. Descends(durable[o], e) /\ Copy(durable[o], e) /\ e.revision >= 1
        BY <1>6, <1>12, <3>2, <4>1 DEF Copy
      <4> QED BY <1>5, <1>6, <2>1, <3>2, <4>2, OverlaidSound
    <3> QED BY <3>1, <3>2
  <2>4. /\ volatile' \in [Tabs -> [Ops -> Overlays \cup {Null}]]
        /\ \A u \in Tabs, p \in Ops : u # t \/ p # o => volatile'[u][p] = volatile[u][p]
    BY <1>6, <2>1, OverlaidIs
  <2>5. /\ \A u \in Tabs, p \in Ops \ {o} : volatile'[u][p] = volatile[u][p]
        /\ \A u \in Tabs :
              \/ volatile'[u][o] = volatile[u][o]
              \/ OverlaySound(u, o, durable'[o], volatile'[u][o], submit, Facts(o))
    BY <2>2, <2>3, <2>4
  <2>6. /\ durable' \in [Ops -> Entry \cup {Null}] /\ \A p \in Ops : durable'[p] = durable[p]
        /\ Later(durable[o], durable'[o]) /\ StoredSound(o, durable'[o], Facts(o))
    BY <1>12, <2>2 DEF TypeOK, Later
  <2>7. CheckSound(o, durable'[o], c2, volatile'[c2.tab][o], submit, Facts(o))
    BY <1>5, <1>10, <2>2
  <2> QED BY <1>5, <1>9, <1>10, <1>11, <2>2, <2>4, <2>5, <2>6, <2>7, ObserverStep
<1>15. CASE result = "stored"
  <2>1. PICK new \in Entry :
           /\ Store(t, o, new) /\ new.revision = durable[o].revision + 1
           /\ Good(o, new, Facts(o)) /\ Descends(durable[o], new)
    <3>1. CASE c.retry
      <4>1. PICK candidate : candidate = Candidate(t, o, e)
        OBVIOUS
      <4>2. candidate # Null /\ Store(t, o, Advanced(candidate, durable[o].revision))
        BY <1>5, <1>7, <1>15, <3>1, <4>1, RetriedIs, RevisionOf
      <4>3. /\ candidate \in Entry /\ Good(o, candidate, Facts(o))
            /\ Descends(durable[o], candidate)
        BY <1>5, <1>6, <3>1, <4>1, <4>2, CandidateIs
      <4>4. PICK new : new = Advanced(candidate, durable[o].revision)
        OBVIOUS
      <4>5. /\ new \in Entry /\ new.revision = durable[o].revision + 1
            /\ new.hash = candidate.hash /\ new.asked = candidate.asked
        BY <1>12, <4>3, <4>4, AdvancedIs
      <4>6. Good(o, new, Facts(o))
        BY <1>12, <4>3, <4>4, GoodAdvanced
      <4> QED BY <4>2, <4>3, <4>4, <4>5, <4>6 DEF Descends
    <3>2. CASE ~ c.retry
      <4>1. Store(t, o, Advanced(e, e.revision)) /\ e.revision = durable[o].revision
        BY <1>5, <1>7, <1>15, <3>2, SavedIs, RevisionOf DEF Fresh
      <4>2. PICK new \in Entry :
               /\ new = Advanced(e, e.revision) /\ new.revision = e.revision + 1 /\ new # Null
               /\ new.hash = e.hash /\ new.asked = e.asked /\ Good(o, new, Facts(o))
        BY <1>6, AdvancedGood
      <4>3. Descends(durable[o], e)
        BY <1>6, <3>2, <4>1 DEF Copy
      <4> QED BY <4>1, <4>2, <4>3 DEF Descends
    <3> QED BY <3>1, <3>2
  <2>2. /\ durable' \in [Ops -> Entry \cup {Null}] /\ durable'[o] = new /\ durable'[o] # Null
        /\ \A p \in Ops \ {o} : durable'[p] = durable[p]
        /\ issues' \in [Tabs -> SUBSET Ops]
    BY <2>1, StoreIs
  <2>3. Later(durable[o], durable'[o]) /\ StoredSound(o, durable'[o], Facts(o))
    BY <1>5, <1>12, <2>1, <2>2, RevisionOf DEF Later, StoredSound
  <2>4. volatile' = volatile \/ volatile' = [volatile EXCEPT ![t][o] = Null]
    BY <1>7, <1>15, Zenon
  <2>5. volatile \in [Tabs -> [Ops -> Overlays \cup {Null}]]
    BY DEF TypeOK
  <2>6. /\ volatile' \in [Tabs -> [Ops -> Overlays \cup {Null}]]
        /\ \A u \in Tabs, p \in Ops \ {o} : volatile'[u][p] = volatile[u][p]
        /\ \A u \in Tabs : volatile'[u][o] = volatile[u][o] \/ volatile'[u][o] = Null
    BY ONLY <2>4, <2>5, t \in Tabs, o \in Ops
  <2>7. \A u \in Tabs :
           \/ volatile'[u][o] = volatile[u][o]
           \/ OverlaySound(u, o, durable'[o], volatile'[u][o], submit, Facts(o))
    BY <2>6 DEF OverlaySound
  <2>8. CheckSound(o, durable'[o], c2, volatile'[c2.tab][o], submit, Facts(o))
    BY <1>10, <2>1, <2>2
  <2> QED BY <1>5, <1>9, <1>10, <1>11, <2>2, <2>3, <2>6, <2>7, <2>8, ObserverStep
<1> QED BY <1>7, <1>13, <1>14, <1>15

-----------------------------------------------------------------------------
(* The chain, and pages loaded anew.                                       *)

LEMMA ChainMoved ==
    ASSUME TypeOK, IInv, NEW o \in Ops, Resolve(o) \/ Reorg(o)
    PROVE  TypeOK' /\ IInv' /\ Onward
<1>1. UNCHANGED <<durable, volatile, issues, submit, check, wallet, begun, checks>>
  BY DEF Resolve, Reorg, journal
<1>2. /\ tx \in [Ops -> {"none", "pending", "success", "reverted", "replaced", "orphaned"}]
      /\ failed \subseteq Ops /\ mishaps \in 0..MaxMishaps
      /\ \A p \in Ops : tx[p] \in {"reverted", "replaced"} => p \in failed
  BY DEF TypeOK, IInv, OperationSound
<1>3. /\ tx' \in [Ops -> {"none", "pending", "success", "reverted", "replaced", "orphaned"}]
      /\ failed' \subseteq Ops /\ mishaps' \in 0..MaxMishaps /\ failed \subseteq failed'
      /\ \A p \in Ops : tx'[p] \in {"reverted", "replaced"} => p \in failed'
  <2>1. CASE Resolve(o)
    <3>1. PICK state \in {"success", "reverted", "replaced"} :
             /\ tx' = [tx EXCEPT ![o] = state]
             /\ failed' = IF state = "success" THEN failed ELSE failed \cup {o}
      BY <2>1 DEF Resolve
    <3>2. mishaps' = mishaps
      BY <2>1 DEF Resolve
    <3> QED BY <1>2, <3>1, <3>2
  <2>2. CASE Reorg(o)
    BY <1>2, <2>2 DEF Reorg
  <2> QED BY <2>1, <2>2
<1>4. ASSUME NEW p \in Ops PROVE Facts(p) \subseteq Facts(p)'
  BY <1>1, <1>3, FactsGrow
<1>5. Forward
  BY <1>1, <1>4 DEF Forward, Later, TypeOK
<1>6. \A p \in Ops : CameToNothing(p) => CameToNothing(p)'
  BY <1>1, <1>3 DEF CameToNothing
<1>7. SubmitSound'
  BY <1>1, <1>5, <1>6, SubmissionKept
<1>8. IInv'
  BY <1>1, <1>3, <1>4, <1>7, JournalUnwritten
<1>9. TypeOK'
  BY <1>1, <1>3 DEF TypeOK, InMemory, Revision
<1> QED BY <1>1, <1>8, <1>9, UnwrittenGoesOn

LEMMA Reloaded ==
    ASSUME TypeOK, IInv, NEW t \in Tabs, Reload(t)
    PROVE  TypeOK' /\ IInv' /\ Onward
<1>1. /\ UNCHANGED <<durable, wallet, tx, failed, begun, checks>>
      /\ mishaps < MaxMishaps /\ mishaps' = mishaps + 1
      /\ volatile' = [volatile EXCEPT ![t] = [o \in Ops |-> Null]]
      /\ issues' = [issues EXCEPT ![t] = {}]
      /\ submit' = IF submit.tab = t THEN NoSubmit ELSE submit
      /\ check' = [o \in Ops |-> IF check[o].tab = t THEN NoCheck ELSE check[o]]
  BY DEF Reload, Forget, chainVars
<1>2. /\ volatile \in [Tabs -> [Ops -> Overlays \cup {Null}]] /\ issues \in [Tabs -> SUBSET Ops]
      /\ check \in [Ops -> Verifications] /\ submit \in Submissions /\ mishaps \in 0..MaxMishaps
  BY DEF TypeOK
<1>3. /\ volatile' \in [Tabs -> [Ops -> Overlays \cup {Null}]]
      /\ \A o \in Ops : volatile'[t][o] = Null
      /\ \A u \in Tabs \ {t}, o \in Ops : volatile'[u][o] = volatile[u][o]
  <2>1. [o \in Ops |-> Null] \in [Ops -> Overlays \cup {Null}]
    OBVIOUS
  <2> QED BY <1>1, <1>2, <2>1
<1>4. issues' \in [Tabs -> SUBSET Ops] /\ mishaps' \in 0..MaxMishaps
  BY <1>1, <1>2
<1>5. check' \in [Ops -> Verifications]
  BY <1>1, <1>2, NoCheckIs
<1>6. submit' \in Submissions /\ (submit' = NoSubmit \/ submit' = submit)
  BY <1>1, <1>2 DEF NoSubmit, Submissions, SubmitSteps
<1>7. ASSUME NEW o \in Ops, submit'.op = o PROVE submit' = submit
  BY <1>6, <1>7, OpsAre DEF NoSubmit
<1>8. ASSUME NEW p \in Ops PROVE Facts(p) \subseteq Facts(p)'
  BY <1>1, <1>7, FactsGrow
<1>9. Forward
  BY <1>1, <1>7, <1>8 DEF Forward, Later, TypeOK
<1>10. TypeOK'
  <2>1. submit'.pc \notin {"idle", "create"} => durable'[submit'.op] # Null
    <3>1. submit'.pc \notin {"idle", "create"} => submit' = submit
      BY <1>6 DEF NoSubmit
    <3> QED BY <1>1, <3>1 DEF TypeOK
  <2>2. ASSUME NEW u \in Tabs, NEW p \in Ops, volatile'[u][p] # Null
        PROVE  volatile'[u][p].base \in 1..Revision(durable'[p])
    BY <1>1, <1>3, <2>2, TypesOf
  <2> QED BY <1>1, <1>3, <1>4, <1>5, <1>6, <2>1, <2>2 DEF TypeOK, InMemory
<1>11. ASSUME NEW p \in Ops PROVE OperationSound(p)'
  <2>1. OperationSound(p)
    BY DEF IInv
  <2>2. StoredSound(p, durable'[p], Facts(p)')
    <3>1. StoredSound(p, durable[p], Facts(p)) /\ durable' = durable
      BY <1>1, <2>1 DEF OperationSound
    <3> QED BY <1>8, <3>1, StoredKept
  <2>3. CheckSound(p, durable'[p], check'[p], volatile'[check'[p].tab][p], submit', Facts(p)')
    <3>1. CASE check'[p] = NoCheck
      BY <3>1, NoCheckIs
    <3>2. CASE check'[p] # NoCheck
      <4>1. PICK c \in Verifications : c = check[p]
        BY <1>2
      <4>2. check'[p] = c /\ c.tab # t
        BY <1>1, <3>2, <4>1
      <4>3. CheckSound(p, durable[p], c, volatile[c.tab][p], submit, Facts(p))
        BY <2>1, <4>1 DEF OperationSound
      <4>4. c.tab \in Tabs \ {t} /\ durable[p] # Null
        BY <3>2, <4>2, <4>3 DEF CheckSound
      <4>5. PICK u \in Tabs \ {t} : u = c.tab
        BY <4>4
      <4>6. PICK v : v = volatile[u][p] /\ v = volatile'[u][p]
        BY <1>3
      <4>7. /\ durable[p] \in Entry \cup {Null}
            /\ v # Null => v.base \in Nat
            /\ durable[p] # Null /\ v # Null => v.base <= durable[p].revision
        <5>1. u \in Tabs /\ v = volatile[u][p]
          BY <4>6
        <5>2. /\ durable[p] \in Entry \cup {Null}
              /\ v # Null => v.base \in Nat /\ v.base \in 1..Revision(durable[p])
          BY <5>1, TypesOf
        <5>3. durable[p] # Null => Revision(durable[p]) = durable[p].revision
          BY DEF Revision
        <5>4. Revision(durable[p]) \in Nat
          BY <5>2, EntryFields DEF Revision
        <5> QED BY <5>2, <5>3, <5>4
      <4>8. Later(durable[p], durable[p])
        BY DEF Later
      <4>9. submit'.tab = c.tab /\ submit'.op = p => submit.tab = c.tab /\ submit.op = p
        BY <1>7
      <4>10. CheckSound(p, durable[p], c, v, submit, Facts(p)) /\ Facts(p) \subseteq Facts(p)'
        BY <1>8, <4>3, <4>5, <4>6
      <4>11. CheckSound(p, durable[p], c, v, submit', Facts(p)')
        BY <4>7, <4>8, <4>9, <4>10, CheckKept
      <4>12. durable' = durable
        BY <1>1
      <4> QED BY <4>2, <4>5, <4>6, <4>11, <4>12
    <3> QED BY <3>1, <3>2
  <2> QED BY <1>1, <2>1, <2>2, <2>3 DEF OperationSound
<1>12. ASSUME NEW u \in Tabs, NEW p \in Ops
       PROVE  OverlaySound(u, p, durable'[p], volatile'[u][p], submit', Facts(p)')
  <2>1. CASE u = t
    BY <1>3, <2>1 DEF OverlaySound
  <2>2. CASE u # t
    BY <1>3, <1>9, <2>2, OverlaysKept
  <2> QED BY <2>1, <2>2
<1>13. SubmitSound'
  <2>1. CASE submit' = NoSubmit
    BY <2>1, IdleIsSound
  <2>2. CASE submit' = submit
    BY <1>1, <1>9, <2>2, SubmissionKept DEF CameToNothing
  <2> QED BY <1>6, <2>1, <2>2
<1>14. UNCHANGED durable
  BY <1>1
<1> QED BY <1>10, <1>11, <1>12, <1>13, <1>14, UnwrittenGoesOn DEF IInv

-----------------------------------------------------------------------------
(* The theorems.                                                           *)

LEMMA InitSound ==
    ASSUME Init
    PROVE  TypeOK /\ IInv
<1>1. /\ durable = [o \in Ops |-> Null] /\ volatile = [t \in Tabs |-> [o \in Ops |-> Null]]
      /\ issues = [t \in Tabs |-> {}] /\ submit = NoSubmit /\ check = [o \in Ops |-> NoCheck]
      /\ wallet = [o \in Ops |-> "none"] /\ tx = [o \in Ops |-> "none"] /\ failed = {}
      /\ begun = 0 /\ checks = 0 /\ mishaps = 0
  BY DEF Init, JournalInit
<1>2. NoSubmit \in Submissions /\ NoSubmit.pc = "idle"
  BY DEF NoSubmit, Submissions, SubmitSteps
<1>3. \A t \in Tabs, o \in Ops : volatile[t][o] = Null
  BY <1>1
<1>4. /\ durable \in [Ops -> Entry \cup {Null}] /\ issues \in [Tabs -> SUBSET Ops]
      /\ check \in [Ops -> Verifications]
      /\ wallet \in [Ops -> {"none", "open", "approved", "rejected", "lost"}]
      /\ tx \in [Ops -> {"none", "pending", "success", "reverted", "replaced", "orphaned"}]
  BY <1>1, NoCheckIs
<1>5. volatile \in [Tabs -> [Ops -> Overlays \cup {Null}]]
  BY <1>1
<1>6. begun \in 0..MaxOps /\ checks \in 0..MaxChecks /\ mishaps \in 0..MaxMishaps
  BY <1>1
<1>7. TypeOK
  BY <1>1, <1>2, <1>3, <1>4, <1>5, <1>6 DEF TypeOK, InMemory
<1>8. ASSUME NEW o \in Ops PROVE OperationSound(o)
  BY <1>1, NoCheckIs DEF OperationSound, StoredSound
<1>9. \A t \in Tabs, o \in Ops : OverlaySound(t, o, durable[o], volatile[t][o], submit, Facts(o))
  BY <1>3 DEF OverlaySound
<1>10. SubmitSound
  BY <1>1, <1>2 DEF SubmitSound, Holding, BeforeWallet
<1> QED BY <1>7, <1>8, <1>9, <1>10 DEF IInv

LEMMA NextSound ==
    ASSUME TypeOK, IInv, [Next]_vars
    PROVE  TypeOK' /\ IInv' /\ Onward
<1>1. CASE Submit
  BY <1>1, Submitted
<1>2. CASE \E o \in Ops : Approve(o) \/ Reject(o) \/ LoseAnswer(o)
  BY <1>2, Approved, Denied
<1>3. CASE \E o \in Ops : Observe(o)
  BY <1>3, Selected, Began, Inspected, UpdateWritten DEF Observe
<1>4. CASE \E o \in Ops : Resolve(o) \/ Reorg(o)
  BY <1>4, ChainMoved
<1>5. CASE \E t \in Tabs : Reload(t)
  BY <1>5, Reloaded
<1>6. CASE UNCHANGED vars
  <2>1. UNCHANGED <<durable, volatile, issues, submit, check, wallet, tx, failed, begun, checks,
                    mishaps>>
    BY <1>6 DEF vars, journal, chainVars
  <2>2. TypeOK'
    BY <2>1 DEF TypeOK, InMemory, Revision
  <2>3. \A o \in Ops : Facts(o)' = Facts(o)
    BY <2>1 DEF Facts
  <2>4. \A p \in Ops : tx'[p] \in {"reverted", "replaced"} => p \in failed'
    BY <2>1 DEF IInv, OperationSound
  <2>5. Forward
    BY <2>1, <2>3 DEF Forward, Later, TypeOK
  <2>6. SubmitSound'
    BY <2>1, <2>5, SubmissionKept DEF CameToNothing
  <2>7. IInv'
    BY <2>1, <2>3, <2>4, <2>6, JournalUnwritten
  <2> QED BY <2>1, <2>2, <2>7, UnwrittenGoesOn
<1> QED BY <1>1, <1>2, <1>3, <1>4, <1>5, <1>6 DEF Next

\* The types of the journal, of what the pages do and of the wallet and the
\* chain: no overlay has a base that was never stored, and no save is on its way
\* for an operation that never was.
THEOREM TypeCorrect == Spec => []TypeOK
<1>1. Init => TypeOK /\ IInv
  BY InitSound
<1>2. TypeOK /\ IInv /\ [Next]_vars => (TypeOK /\ IInv)'
  BY NextSound
<1> QED BY <1>1, <1>2, PTL DEF Spec

\* The inductive invariant: what every entry says is so, what is in memory or on
\* its way descends from what it is compared with, and a request is on record.
THEOREM Inductive == Spec => []IInv
<1>1. Init => TypeOK /\ IInv
  BY InitSound
<1>2. TypeOK /\ IInv /\ [Next]_vars => (TypeOK /\ IInv)'
  BY NextSound
<1> QED BY <1>1, <1>2, PTL DEF Spec

\* The durable intent boundary: no request without its record in storage.
THEOREM RequestsAreOnRecord == Spec => []RequestIsOnRecord
<1>1. IInv => RequestIsOnRecord
  BY DEF IInv, OperationSound, OnRecord, RequestIsOnRecord
<1> QED BY <1>1, Inductive, PTL

\* No late answer, verification or rebase parts a status from its evidence.
THEOREM EvidenceOutranks == Spec => []EvidenceOutranksOutcome
<1>1. ASSUME TypeOK, IInv PROVE EvidenceOutranksOutcome
  <2>1. ASSUME NEW o \in Ops, NEW e, Good(o, e, Facts(o))
        PROVE  /\ e.hash # NoHash => e.status \in SentStatuses \cup {"ORPHANED"}
               /\ e.status \in SentStatuses => e.hash # NoHash
    BY <2>1 DEF Good
  <2>2. ASSUME NEW e \in Entries \ {Null} PROVE \E o \in Ops : Good(o, e, Facts(o))
    <3>1. CASE \E o \in Ops : e = durable[o]
      BY <1>1, <2>2, <3>1 DEF IInv, OperationSound, StoredSound
    <3>2. CASE \E t \in Tabs, o \in Ops : e = Load(t, o)
      <4>1. PICK t \in Tabs, o \in Ops : e = Load(t, o)
        BY <3>2
      <4>2. durable[o] # Null
        BY <1>1, <2>2, <4>1 DEF Load, IInv, OverlaySound
      <4> QED BY <1>1, <4>1, <4>2, LoadIs
    <3> QED BY <2>2, <3>1, <3>2 DEF Entries
  <2> QED BY <2>1, <2>2 DEF EvidenceOutranksOutcome
<1> QED BY <1>1, TypeCorrect, Inductive, PTL

\* Where users supply only hashes of the operation's own request, a hash in
\* storage is there to stay, whoever writes over it from whatever it read.
THEOREM StoredHashesStay ==
    ASSUME OwnCandidates
    PROVE  Spec => StoredHashStays
<1>1. ASSUME TypeOK, IInv, TypeOK', IInv', Onward
      PROVE  \A o \in Ops : HasHash(durable[o]) => durable'[o].hash = durable[o].hash
  <2> SUFFICES ASSUME NEW o \in Ops, HasHash(durable[o])
               PROVE  durable'[o].hash = durable[o].hash
    OBVIOUS
  <2>1. durable[o] # Null /\ durable[o].hash # NoHash /\ durable[o].hash = o
    BY <1>1 DEF HasHash, IInv, OperationSound, StoredSound, Good
  <2>2. Later(durable[o], durable'[o])
    BY <1>1 DEF Onward
  <2>3. CASE durable'[o] = durable[o]
    BY <2>3
  <2>4. CASE durable'[o] # durable[o]
    <3>1. durable'[o] # Null /\ durable'[o].hash # NoHash
      BY <2>1, <2>2, <2>4 DEF Later, Descends
    <3>2. StoredSound(o, durable'[o], Facts(o)')
      BY <1>1 DEF IInv, OperationSound
    <3>3. durable'[o].hash \in {NoHash, o}
      BY <1>1, <3>1, <3>2 DEF StoredSound, Good
    <3> QED BY <2>1, <3>1, <3>3
  <2> QED BY <2>3, <2>4
<1>2. TypeOK /\ IInv /\ TypeOK' /\ IInv' /\ [Next]_vars =>
         [\A o \in Ops : HasHash(durable[o]) => durable'[o].hash = durable[o].hash]_vars
  BY <1>1, NextSound
<1> QED BY <1>2, TypeCorrect, Inductive, PTL DEF Spec, StoredHashStays

\* Where users supply only hashes of the operation's own request, the wallet is
\* asked only when every earlier request of the intent came to nothing.
THEOREM OneRequestUnresolved ==
    ASSUME OwnCandidates
    PROVE  Spec => OneUnresolvedRequest
<1> DEFINE AskedAlone == \A o, p \in Ops : wallet[o] = "none" /\ wallet'[o] = "open" /\ p # o =>
                        wallet[p] \in {"none", "rejected"} \/ p \in failed
<1>1. ASSUME TypeOK, IInv, Next PROVE AskedAlone
  <2> SUFFICES ASSUME NEW o \in Ops, NEW p \in Ops, p # o,
                      wallet[o] = "none", wallet'[o] = "open"
               PROVE  CameToNothing(p)
    BY DEF CameToNothing
  <2>1. CASE Verify
    <3>1. wallet' = wallet \/ wallet' = [wallet EXCEPT ![submit.op] = "open"]
      BY <2>1 DEF Verify
    <3>2. /\ submit.pc = "verify" /\ submit.op \in Ops
          /\ wallet \in [Ops -> {"none", "open", "approved", "rejected", "lost"}]
      BY <1>1, <2>1 DEF Verify, IInv, SubmitSound, TypeOK
    <3>3. o = submit.op
      BY <3>1, <3>2
    <3> QED BY <1>1, <3>2, <3>3 DEF IInv, SubmitSound
  <2>2. CASE \E q \in Ops : Approve(q) \/ Reject(q) \/ LoseAnswer(q)
    <3>1. PICK q \in Ops, answer \in {"approved", "rejected", "lost"} :
             wallet' = [wallet EXCEPT ![q] = answer]
      BY <2>2 DEF Approve, Reject, LoseAnswer, Answers
    <3>2. wallet'[o] # "open"
      BY <1>1, <3>1 DEF TypeOK
    <3> QED BY <3>2
  <2>3. CASE wallet' = wallet
    BY <2>3
  <2>4. Verify \/ wallet' = wallet \/ \E q \in Ops : Approve(q) \/ Reject(q) \/ LoseAnswer(q)
    <3>1. Submit => Verify \/ wallet' = wallet
      BY DEF Submit, Start, Requeue, Create, Simulate, SaveAwaiting, SaveRefusal, SaveOrThrow,
             SaveHash, SaveHashAgain, ReadNonce, SaveNonce, SaveOutcome, Elsewhere
    <3>2. \A q \in Ops : Observe(q) \/ Resolve(q) \/ Reorg(q) => wallet' = wallet
      BY DEF Observe, Select, Begin, Inspect, WriteUpdate, Resolve, Reorg, Sideways
    <3>3. \A t \in Tabs : Reload(t) => wallet' = wallet
      BY DEF Reload
    <3> QED BY <1>1, <3>1, <3>2, <3>3 DEF Next
  <2> QED BY <2>1, <2>2, <2>3, <2>4
<1>2. TypeOK /\ IInv /\ [Next]_vars => [AskedAlone]_vars
  BY <1>1
<1> QED BY <1>2, TypeCorrect, Inductive, PTL DEF Spec, OneUnresolvedRequest
=============================================================================
