------------------------------- MODULE UndoStore -------------------------------
(***************************************************************************)
(* Before-images on disk: engine/transactions/undo.py, driven by the       *)
(* transactions of completion.py and the restart of the process.           *)
(*                                                                         *)
(* One mutex protects the accounts; copying, restoring and removing files  *)
(* run outside it, so each of them is a step between two sections of the   *)
(* mutex.  Image bytes are counted in tables.  A table on disk either has  *)
(* its committed contents or writes of an unsettled transaction.           *)
(***************************************************************************)
EXTENDS Naturals, FiniteSets

CONSTANTS Txns, Tables,
          NoTxn, NoTable,
          PerTransaction, Total,   \* UndoLimits, in tables
          CaptureSlots             \* UndoLimits.concurrent_captures

ASSUME LimitsAssumption ==
    PerTransaction \in Nat /\ Total \in Nat /\ CaptureSlots \in Nat \ {0}
ASSUME NoTxnAssumption   == NoTxn \notin Txns
ASSUME NoTableAssumption == NoTable \notin Tables

VARIABLES
    \* on disk
    marker,      \* .minidb_unclean exists
    folders,     \* .minidb_undo: <<transaction, table>> image directories
    uncommitted, \* tables with writes of an unsettled transaction
    \* in memory
    up,          \* an owner has the database open
    images,      \* _images: the tables whose image is published
    reserved,    \* _reserved
    pending,     \* _pending
    debt,        \* _debt
    cleaning,    \* _cleaning
    phase,       \* where the transaction is
    copying,     \* the table it is capturing
    locked       \* the transaction with the exclusive lock of a table

diskVars == <<marker, folders, uncommitted>>
memVars  == <<images, reserved, pending, debt, cleaning>>
vars     == <<diskVars, up, memVars, phase, copying, locked>>

Phases == {"active", "reserved", "copying", "failing", "unreserving",
           "aborting", "settled", "discarding", "removed", "discarded", "failed"}
Capturing == {"reserved", "copying", "failing", "unreserving"}

Fresh ==
    /\ images = [t \in Txns |-> {}]
    /\ reserved = [t \in Txns |-> 0]
    /\ pending = [t \in Txns |-> 0]
    /\ debt = {}
    /\ cleaning = {}
    /\ phase = [t \in Txns |-> "active"]
    /\ copying = [t \in Txns |-> NoTable]
    /\ locked = [r \in Tables |-> NoTxn]

Init ==
    /\ marker = FALSE
    /\ folders = {}
    /\ uncommitted = {}
    /\ up = TRUE
    /\ Fresh

\* The units of an account, and how many all of them are together.
Units(f) == UNION {{t} \X (1 .. f[t]) : t \in Txns}
Sum(f)   == Cardinality(Units(f))
Goto(t, p) == phase' = [phase EXCEPT ![t] = p]
At(t, p)   == phase[t] = p
Add(f, t)  == [f EXCEPT ![t] = @ + 1]
Less(f, t) == [f EXCEPT ![t] = @ - 1]

\* Fault: a transaction looks only at its own accounts before it cleans.
CleanEmptyOfOwn(t, im, re, pe, de, cl) ==
    IF im[t] # {} \/ re[t] # 0 \/ pe[t] # 0
    THEN marker' = marker /\ debt' = de
    ELSE \/ folders = {} /\ marker' = FALSE /\ debt' = de
         \/ marker' = marker /\ debt' = de \union {t}

\* _clean_empty, by t, in the accounts as its section leaves them: with nothing
\* left the directory and the marker go, or their removal fails, or an orphan
\* is found; a failure becomes t's debt.
CleanEmpty(t, im, re, pe, de, cl) ==
    IF \/ \E u \in Txns : im[u] # {} \/ re[u] # 0 \/ pe[u] # 0
       \/ de # {} \/ cl # {}
    THEN marker' = marker /\ debt' = de
    ELSE \/ folders = {} /\ marker' = FALSE /\ debt' = de
         \/ marker' = marker /\ debt' = de \union {t}

-----------------------------------------------------------------------------
(***************************************************************************)
(* capture                                                                 *)
(***************************************************************************)
\* Under the table's exclusive lock and in a capture slot: the quota is
\* reserved and the marker made, in one section of the mutex.
Reserve(t, r) ==
    /\ up
    /\ At(t, "active")
    /\ r \notin images[t]
    /\ locked[r] \in {NoTxn, t}
    /\ Cardinality({u \in Txns : phase[u] \in Capturing}) < CaptureSlots
    /\ reserved[t] + 1 <= PerTransaction
    /\ Sum(reserved) + 1 <= Total
    /\ reserved' = Add(reserved, t)
    /\ pending' = Add(pending, t)
    /\ marker' = TRUE
    /\ locked' = [locked EXCEPT ![r] = t]
    /\ copying' = [copying EXCEPT ![t] = r]
    /\ Goto(t, "reserved")
    /\ UNCHANGED <<folders, uncommitted, up, images, debt, cleaning>>

\* Quota, free space, or the marker cannot be written, in which case its file
\* may be there all the same; the reservation is undone and the caller aborts.
ReserveFails(t, r) ==
    /\ up
    /\ At(t, "active")
    /\ r \notin images[t]
    /\ locked[r] \in {NoTxn, t}
    /\ Cardinality({u \in Txns : phase[u] \in Capturing}) < CaptureSlots
    /\ marker' \in {marker, TRUE}
    /\ locked' = [locked EXCEPT ![r] = t]
    /\ Goto(t, "aborting")
    /\ UNCHANGED <<folders, uncommitted, up, memVars, copying>>

MakeFolder(t) ==
    /\ up
    /\ At(t, "reserved")
    /\ folders' = folders \union {<<t, copying[t]>>}
    /\ Goto(t, "copying")
    /\ UNCHANGED <<marker, uncommitted, up, memVars, copying, locked>>

\* All files and the descriptor are copied and synchronised.
Publish(t) ==
    /\ up
    /\ At(t, "copying")
    /\ images' = [images EXCEPT ![t] = @ \union {copying[t]}]
    /\ pending' = Less(pending, t)
    /\ copying' = [copying EXCEPT ![t] = NoTable]
    /\ Goto(t, "active")
    /\ UNCHANGED <<diskVars, up, reserved, debt, cleaning, locked>>

\* Any step of the copy fails, the making of its directory included.
CopyFails(t) ==
    /\ up
    /\ phase[t] \in {"reserved", "copying"}
    /\ Goto(t, "failing")
    /\ UNCHANGED <<diskVars, up, memVars, copying, locked>>

FoldersOf(t) == {f \in folders : f[1] = t}

\* Fault: the failed capture removes all the images of its transaction.
RemovePartialTree(t) ==
    /\ up
    /\ At(t, "failing")
    /\ folders' = folders \ FoldersOf(t)
    /\ Goto(t, "unreserving")
    /\ UNCHANGED <<marker, uncommitted, up, memVars, copying, locked>>

\* The partial image is removed, or its removal fails and becomes debt.
RemovePartial(t) ==
    /\ up
    /\ At(t, "failing")
    /\ \/ folders' = folders \ {<<t, copying[t]>>} /\ UNCHANGED debt
       \/ debt' = debt \union {t} /\ UNCHANGED folders
    /\ Goto(t, "unreserving")
    /\ UNCHANGED <<marker, uncommitted, up, images, reserved, pending, cleaning,
                   copying, locked>>

Unreserve(t) ==
    /\ up
    /\ At(t, "unreserving")
    /\ reserved' = Less(reserved, t)
    /\ pending' = Less(pending, t)
    /\ CleanEmpty(t, images, reserved', pending', debt, cleaning)
    /\ copying' = [copying EXCEPT ![t] = NoTable]
    /\ Goto(t, "aborting")
    /\ UNCHANGED <<folders, uncommitted, up, images, cleaning, locked>>

-----------------------------------------------------------------------------
(***************************************************************************)
(* What the transaction does with its images                               *)
(***************************************************************************)
Write(t, r) ==
    /\ up
    /\ At(t, "active")
    /\ r \in images[t]
    /\ uncommitted' = uncommitted \union {r}
    /\ UNCHANGED <<marker, folders, up, memVars, phase, copying, locked>>

Unlock(t) == locked' = [r \in Tables |-> IF locked[r] = t THEN NoTxn ELSE locked[r]]

\* The success point of commit, then release_all.
Commit(t) ==
    /\ up
    /\ At(t, "active")
    /\ uncommitted' = uncommitted \ images[t]
    /\ Unlock(t)
    /\ Goto(t, "settled")
    /\ UNCHANGED <<marker, folders, up, memVars, copying>>

StartAbort(t) ==
    /\ up
    /\ At(t, "active")
    /\ Goto(t, "aborting")
    /\ UNCHANGED <<diskVars, up, memVars, copying, locked>>

Restore(t, r) ==
    /\ up
    /\ At(t, "aborting")
    /\ r \in images[t] \intersect uncommitted
    /\ uncommitted' = uncommitted \ {r}
    /\ UNCHANGED <<marker, folders, up, memVars, phase, copying, locked>>

\* ABORTED, then release_all.
Aborted(t) ==
    /\ up
    /\ At(t, "aborting")
    /\ images[t] \intersect uncommitted = {}
    /\ Unlock(t)
    /\ Goto(t, "settled")
    /\ UNCHANGED <<diskVars, up, memVars, copying>>

\* ABORT_FAILED: nothing is released, nothing discarded.
AbortFails(t) ==
    /\ up
    /\ At(t, "aborting")
    /\ images[t] # {}
    /\ Goto(t, "failed")
    /\ UNCHANGED <<diskVars, up, memVars, copying, locked>>

-----------------------------------------------------------------------------
(***************************************************************************)
(* discard, right after the release or again through retry_cleanup         *)
(***************************************************************************)
StartDiscard(t) ==
    /\ up
    /\ phase[t] \in {"settled", "discarded"}
    /\ t \notin cleaning
    /\ cleaning' = cleaning \union {t}
    /\ Goto(t, "discarding")
    /\ UNCHANGED <<diskVars, up, images, reserved, pending, debt, copying, locked>>

RemoveTree(t) ==
    /\ up
    /\ At(t, "discarding")
    /\ folders' = folders \ FoldersOf(t)
    /\ Goto(t, "removed")
    /\ UNCHANGED <<marker, uncommitted, up, memVars, copying, locked>>

\* Some of the tree stays; the accounts keep the transaction's images.
RemoveTreeFails(t) ==
    /\ up
    /\ At(t, "discarding")
    /\ \E left \in SUBSET FoldersOf(t) : folders' = (folders \ FoldersOf(t)) \union left
    /\ debt' = debt \union {t}
    /\ cleaning' = cleaning \ {t}
    /\ Goto(t, "settled")
    /\ UNCHANGED <<marker, uncommitted, up, images, reserved, pending, copying, locked>>

\* Fault: the transaction is still marked as cleaning when it looks for others.
DiscardedWhileCleaning(t) ==
    /\ up
    /\ At(t, "removed")
    /\ images' = [images EXCEPT ![t] = {}]
    /\ reserved' = [reserved EXCEPT ![t] = 0]
    /\ pending' = [pending EXCEPT ![t] = 0]
    /\ cleaning' = cleaning \ {t}
    /\ CleanEmpty(t, images', reserved', pending', debt \ {t}, cleaning)
    /\ Goto(t, "discarded")
    /\ UNCHANGED <<folders, uncommitted, up, copying, locked>>

Discarded(t) ==
    /\ up
    /\ At(t, "removed")
    /\ images' = [images EXCEPT ![t] = {}]
    /\ reserved' = [reserved EXCEPT ![t] = 0]
    /\ pending' = [pending EXCEPT ![t] = 0]
    /\ cleaning' = cleaning \ {t}
    /\ CleanEmpty(t, images', reserved', pending', debt \ {t}, cleaning')
    /\ Goto(t, "discarded")
    /\ UNCHANGED <<folders, uncommitted, up, copying, locked>>

-----------------------------------------------------------------------------
\* The process ends, at any point; what it held in memory is gone.
Crash ==
    /\ up
    /\ up' = FALSE
    /\ images' = [t \in Txns |-> {}]
    /\ reserved' = [t \in Txns |-> 0]
    /\ pending' = [t \in Txns |-> 0]
    /\ debt' = {}
    /\ cleaning' = {}
    /\ phase' = [t \in Txns |-> "active"]
    /\ copying' = [t \in Txns |-> NoTable]
    /\ locked' = [r \in Tables |-> NoTxn]
    /\ UNCHANGED diskVars

\* Fault: an owner opens whatever it finds.
ReopenUnchecked ==
    /\ ~up
    /\ up' = TRUE
    /\ UNCHANGED <<diskVars, memVars, phase, copying, locked>>

\* require_clean: a marker or any image keeps the next owner out.
Reopen ==
    /\ ~up
    /\ ~marker
    /\ folders = {}
    /\ up' = TRUE
    /\ UNCHANGED <<diskVars, memVars, phase, copying, locked>>

Next ==
    \/ \E t \in Txns :
         \/ \E r \in Tables : Reserve(t, r) \/ ReserveFails(t, r) \/ Write(t, r) \/ Restore(t, r)
         \/ MakeFolder(t) \/ Publish(t) \/ CopyFails(t) \/ RemovePartial(t) \/ Unreserve(t)
         \/ Commit(t) \/ StartAbort(t) \/ Aborted(t) \/ AbortFails(t)
         \/ StartDiscard(t) \/ RemoveTree(t) \/ RemoveTreeFails(t) \/ Discarded(t)
    \/ Crash \/ Reopen

Spec == Init /\ [][Next]_vars

-----------------------------------------------------------------------------
(***************************************************************************)
(* Properties                                                              *)
(***************************************************************************)
\* The accounts of the store keep their types: a failed capture gives back its
\* reservation exactly once, so no count becomes negative.
TypeOK ==
    /\ marker \in BOOLEAN
    /\ folders \subseteq Txns \X Tables
    /\ uncommitted \subseteq Tables
    /\ up \in BOOLEAN
    /\ images \in [Txns -> SUBSET Tables]
    /\ reserved \in [Txns -> Nat]
    /\ pending \in [Txns -> Nat]
    /\ debt \subseteq Txns
    /\ cleaning \subseteq Txns
    /\ phase \in [Txns -> Phases]
    /\ copying \in [Txns -> Tables \union {NoTable}]
    /\ locked \in [Tables -> Txns \union {NoTxn}]

\* Uncommitted bytes on disk are never without the evidence that keeps a fresh
\* owner out, and while the owner lives, never without the published image of
\* the transaction that holds the table (capture before the first write,
\* discard after the settlement, _clean_empty only when nobody is left).
WritesLeaveEvidence ==
    \A r \in uncommitted :
        /\ marker
        /\ \E t \in Txns : <<t, r>> \in folders
        /\ up => /\ locked[r] \in Txns
                 /\ r \in images[locked[r]]
                 /\ <<locked[r], r>> \in folders

\* Every published image is on disk until its own transaction discards it, so an
\* abort finds all of its images, and a failed restoration keeps them.
ImagesAreThere ==
    \A t \in Txns, r \in Tables :
        r \in images[t] /\ phase[t] \in {"active", "aborting", "failed"} \union Capturing
            => marker /\ <<t, r>> \in folders

\* The quotas hold, and the accounts say what is reserved: one unit for every
\* published image and one for the capture under way, none for anything else.  Nothing
\* is forgotten: with every transaction discarded and no debt recorded there is no
\* marker and no image left, so the next open succeeds (undo.py:118, 285-311).
AccountsBalance ==
    /\ Sum(reserved) <= Total
    /\ \A t \in Txns :
         /\ reserved[t] <= PerTransaction
         /\ pending[t] = IF phase[t] \in Capturing THEN 1 ELSE 0
         /\ reserved[t] = Cardinality(images[t]) + pending[t]
    /\ up /\ debt = {} /\ (\A t \in Txns : phase[t] = "discarded")
         => ~marker /\ folders = {} /\ Sum(reserved) = 0

\* The next owner never works on the writes of a transaction that did not end.
OpensCommitted == [][~up /\ up' => uncommitted = {}]_vars
===============================================================================
