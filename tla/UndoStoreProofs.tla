--------------------------- MODULE UndoStoreProofs ---------------------------
(***************************************************************************)
(* Theorems about UndoStore, for every set of transactions and of tables   *)
(* and for every quota: uncommitted writes are never without the evidence  *)
(* that keeps the next owner out, nor without the image that undoes them.  *)
(***************************************************************************)
EXTENDS UndoStore, FiniteSetTheorems, TLAPS

\* A transaction whose outcome is open still needs its images.
Live == {"active", "aborting", "failed"} \union Capturing

\* The capture under way has its reservation, and the lock of its table.
CapturesAgree ==
    \A t \in Txns :
        /\ pending[t] = IF phase[t] \in Capturing THEN 1 ELSE 0
        /\ phase[t] \in Capturing =>
               /\ reserved[t] >= 1
               /\ copying[t] \in Tables \ images[t]
               /\ locked[copying[t]] = t
        /\ phase[t] = "copying" => <<t, copying[t]>> \in folders

\* Without an owner nothing is in memory.
DownIsEmpty ==
    ~up => \A t \in Txns : images[t] = {} /\ phase[t] = "active"

\* The marker is there as long as an image is kept or copied.
MarkerStays == \A t \in Txns : images[t] # {} \/ pending[t] # 0 => marker

\* An open transaction keeps the lock and the image of what it captured.
ImagesStay ==
    \A t \in Txns, r \in Tables :
        r \in images[t] /\ phase[t] \in Live => locked[r] = t /\ <<t, r>> \in folders

\* Every uncommitted table is locked by an open transaction that can undo it.
WritesCovered ==
    \A r \in uncommitted :
        /\ marker
        /\ \E t \in Txns : <<t, r>> \in folders
        /\ up => /\ locked[r] \in Txns
                 /\ phase[locked[r]] \in Live
                 /\ r \in images[locked[r]]

\* The inductive invariant: evidence is kept because nobody removes the marker
\* while an account is open, and only its own transaction removes an image.
UndoIInv ==
    TypeOK /\ CapturesAgree /\ DownIsEmpty /\ MarkerStays /\ ImagesStay /\ WritesCovered

\* A new store has no images and nothing reserved.
LEMMA InitUndoIInv == ASSUME Init PROVE UndoIInv
<1> USE DEF Init, Fresh
<1>1. TypeOK
  BY DEF TypeOK, Phases
<1>2. CapturesAgree /\ DownIsEmpty /\ MarkerStays /\ ImagesStay /\ WritesCovered
  BY DEF CapturesAgree, DownIsEmpty, MarkerStays, ImagesStay, WritesCovered, Capturing
<1> QED BY <1>1, <1>2 DEF UndoIInv

\* What the accounts say of a capture under way.
LEMMA CaptureFacts ==
    ASSUME UndoIInv, NEW t \in Txns, phase[t] \in Capturing
    PROVE  pending[t] = 1 /\ reserved[t] \in Nat \ {0} /\ copying[t] \in Tables
<1>1. pending[t] = 1 /\ reserved[t] >= 1 /\ copying[t] \in Tables
  BY DEF UndoIInv, CapturesAgree
<1>2. reserved[t] \in Nat
  BY DEF UndoIInv, TypeOK
<1> QED BY <1>1, <1>2

\* Every section of the mutex, every step outside it, the end of the process and
\* the next open keep the invariant.
LEMMA StepUndoIInv == ASSUME UndoIInv, [Next]_vars PROVE UndoIInv'
<1>1. ASSUME NEW t \in Txns, NEW r \in Tables, Reserve(t, r) PROVE UndoIInv'
  <2>1. TypeOK'
    BY <1>1 DEF UndoIInv, Reserve, Add, Goto, At, TypeOK, Phases
  <2>2. CapturesAgree'
    <3>1. ASSUME NEW u \in Txns, u # t
          PROVE  /\ phase'[u] = phase[u] /\ pending'[u] = pending[u]
                 /\ reserved'[u] = reserved[u] /\ copying'[u] = copying[u]
                 /\ phase[u] \in Capturing => locked'[copying[u]] = u
      <4>1. /\ phase'[u] = phase[u] /\ pending'[u] = pending[u]
            /\ reserved'[u] = reserved[u] /\ copying'[u] = copying[u]
        BY <1>1, <3>1 DEF UndoIInv, Reserve, Add, Goto, TypeOK
      <4>2. ASSUME NEW q \in Tables, locked[q] = u PROVE locked'[q] = u
        BY <1>1, <4>2, NoTxnAssumption DEF UndoIInv, Reserve, TypeOK
      <4>3. phase[u] \in Capturing => copying[u] \in Tables /\ locked[copying[u]] = u
        BY DEF UndoIInv, CapturesAgree
      <4> QED BY <4>1, <4>2, <4>3
    <3>2. /\ phase'[t] = "reserved" /\ pending'[t] = pending[t] + 1
          /\ reserved'[t] = reserved[t] + 1 /\ copying'[t] = r
          /\ locked'[r] = t /\ r \notin images'[t]
          /\ pending[t] = 0 /\ reserved[t] \in Nat
      BY <1>1 DEF UndoIInv, Reserve, Add, Goto, At, CapturesAgree, TypeOK, Capturing
    <3> QED BY <1>1, <3>1, <3>2 DEF UndoIInv, Reserve, CapturesAgree, Capturing
  <2>3. MarkerStays'
    BY <1>1 DEF UndoIInv, Reserve, Add, Goto, At, MarkerStays, TypeOK
  <2>4. ImagesStay'
    <3>1. \A u \in Txns, q \in Tables : locked[q] = u => locked'[q] = u
      BY <1>1, NoTxnAssumption DEF UndoIInv, Reserve, TypeOK
    <3>2. \A u \in Txns : phase'[u] \in Live => phase[u] \in Live
      BY <1>1 DEF UndoIInv, Reserve, Goto, At, TypeOK, Live
    <3> QED BY <1>1, <3>1, <3>2 DEF UndoIInv, Reserve, ImagesStay
  <2>5. WritesCovered'
    BY <1>1, NoTxnAssumption DEF UndoIInv, Reserve, Add, Goto, At,
       WritesCovered, Live, Capturing, TypeOK
  <2>6. DownIsEmpty'
    BY <1>1 DEF UndoIInv, Reserve, DownIsEmpty
  <2> QED BY <2>1, <2>2, <2>3, <2>4, <2>5, <2>6 DEF UndoIInv
<1>2. ASSUME NEW t \in Txns, NEW r \in Tables, ReserveFails(t, r) PROVE UndoIInv'
  <2>1. TypeOK'
    BY <1>2 DEF UndoIInv, ReserveFails, Goto, At, TypeOK, Phases, memVars
  <2>2. CapturesAgree'
    <3>1. \A u \in Txns, q \in Tables : locked[q] = u => locked'[q] = u
      BY <1>2, NoTxnAssumption DEF UndoIInv, ReserveFails, TypeOK
    <3>2. phase[t] \notin Capturing /\ phase'[t] \notin Capturing
      BY <1>2 DEF UndoIInv, ReserveFails, Goto, At, TypeOK, Capturing
    <3>3. \A u \in Txns : u # t => phase'[u] = phase[u]
      BY <1>2 DEF UndoIInv, ReserveFails, Goto, TypeOK
    <3>4. phase'[t] = "aborting"
      BY <1>2 DEF UndoIInv, ReserveFails, Goto, TypeOK
    <3> QED BY <1>2, <3>1, <3>2, <3>3, <3>4
            DEF UndoIInv, ReserveFails, CapturesAgree, memVars
  <2>3. MarkerStays'
    <3>1. marker => marker'
      BY <1>2 DEF ReserveFails, UndoIInv, TypeOK
    <3> QED BY <1>2, <3>1 DEF UndoIInv, ReserveFails, MarkerStays, memVars
  <2>4. ImagesStay'
    <3>1. \A u \in Txns, q \in Tables : locked[q] = u => locked'[q] = u
      BY <1>2, NoTxnAssumption DEF UndoIInv, ReserveFails, TypeOK
    <3>2. \A u \in Txns : phase'[u] \in Live => phase[u] \in Live
      BY <1>2 DEF UndoIInv, ReserveFails, Goto, At, TypeOK, Live
    <3> QED BY <1>2, <3>1, <3>2 DEF UndoIInv, ReserveFails, ImagesStay, memVars
  <2>5. WritesCovered'
    <3>1. \A u \in Txns, q \in Tables : locked[q] = u => locked'[q] = u
      BY <1>2, NoTxnAssumption DEF UndoIInv, ReserveFails, TypeOK
    <3>2. \A u \in Txns : phase[u] \in Live => phase'[u] \in Live
      BY <1>2 DEF UndoIInv, ReserveFails, Goto, TypeOK, Live
    <3>3. marker => marker'
      BY <1>2 DEF ReserveFails, UndoIInv, TypeOK
    <3>4. uncommitted \subseteq Tables
      BY DEF UndoIInv, TypeOK
    <3> QED BY <1>2, <3>1, <3>2, <3>3, <3>4 DEF UndoIInv, ReserveFails, WritesCovered, memVars
  <2>6. DownIsEmpty'
    BY <1>2 DEF UndoIInv, ReserveFails, DownIsEmpty, memVars
  <2> QED BY <2>1, <2>2, <2>3, <2>4, <2>5, <2>6 DEF UndoIInv
<1>3. ASSUME NEW t \in Txns, NEW r \in Tables, Write(t, r) PROVE UndoIInv'
  <2>1. TypeOK'
    BY <1>3 DEF UndoIInv, Write, At, TypeOK, Phases, memVars
  <2>2. WritesCovered'
    <3>1. /\ phase[t] \in Live /\ locked[r] = t /\ <<t, r>> \in folders
          /\ marker /\ r \in images[t]
      BY <1>3 DEF UndoIInv, Write, At, Live, ImagesStay, MarkerStays
    <3> QED BY <1>3, <3>1 DEF UndoIInv, Write, WritesCovered, memVars
  <2>3. CapturesAgree' /\ DownIsEmpty' /\ MarkerStays' /\ ImagesStay'
    BY <1>3 DEF UndoIInv, Write, CapturesAgree, DownIsEmpty, MarkerStays,
       ImagesStay, memVars
  <2> QED BY <2>1, <2>2, <2>3 DEF UndoIInv
<1>4. ASSUME NEW t \in Txns, NEW r \in Tables, Restore(t, r) PROVE UndoIInv'
  <2>1. TypeOK'
    BY <1>4 DEF UndoIInv, Restore, At, TypeOK, Phases, memVars
  <2>2. WritesCovered'
    BY <1>4, NoTxnAssumption DEF UndoIInv, Restore, At, WritesCovered, Live,
       Capturing, TypeOK, memVars
  <2>3. CapturesAgree' /\ DownIsEmpty' /\ MarkerStays' /\ ImagesStay'
    BY <1>4 DEF UndoIInv, Restore, CapturesAgree, DownIsEmpty, MarkerStays,
       ImagesStay, memVars
  <2> QED BY <2>1, <2>2, <2>3 DEF UndoIInv
<1>5. ASSUME NEW t \in Txns, MakeFolder(t) PROVE UndoIInv'
  <2>1. TypeOK'
    BY <1>5 DEF UndoIInv, MakeFolder, Goto, At, TypeOK, Phases, CapturesAgree,
       Capturing, memVars
  <2>2. CapturesAgree'
    BY <1>5 DEF UndoIInv, MakeFolder, Goto, At, CapturesAgree, TypeOK,
       Capturing, memVars
  <2>3. ImagesStay'
    BY <1>5 DEF UndoIInv, MakeFolder, Goto, At, ImagesStay, Live, Capturing,
       TypeOK, memVars
  <2>4. WritesCovered'
    BY <1>5, NoTxnAssumption DEF UndoIInv, MakeFolder, Goto, At,
       WritesCovered, Live, Capturing, TypeOK, memVars
  <2>5. DownIsEmpty' /\ MarkerStays'
    BY <1>5 DEF UndoIInv, MakeFolder, DownIsEmpty, MarkerStays, memVars
  <2> QED BY <2>1, <2>2, <2>3, <2>4, <2>5 DEF UndoIInv
<1>6. ASSUME NEW t \in Txns, Publish(t) PROVE UndoIInv'
  <2>1. TypeOK'
    <3>1. pending[t] = 1 /\ copying[t] \in Tables
      BY <1>6, CaptureFacts DEF Publish, At, Capturing
    <3>2. pending' \in [Txns -> Nat]
      BY <1>6, <3>1 DEF UndoIInv, Publish, Less, TypeOK
    <3> QED BY <1>6, <3>1, <3>2 DEF UndoIInv, Publish, Goto, TypeOK, Phases, diskVars
  <2>2. CapturesAgree'
    BY <1>6 DEF UndoIInv, Publish, Less, Goto, At, CapturesAgree, TypeOK,
       Capturing, diskVars
  <2>3. MarkerStays'
    <3>1. pending[t] = 1
      BY <1>6, CaptureFacts DEF Publish, At, Capturing
    <3>2. marker
      BY <3>1 DEF UndoIInv, MarkerStays
    <3> QED BY <1>6, <3>2 DEF Publish, MarkerStays, diskVars
  <2>4. ImagesStay'
    BY <1>6 DEF UndoIInv, Publish, Less, Goto, At, ImagesStay, Live,
       Capturing, TypeOK, CapturesAgree, diskVars
  <2>5. WritesCovered'
    BY <1>6, NoTxnAssumption DEF UndoIInv, Publish, Less, Goto, At,
       WritesCovered, Live, Capturing, TypeOK, diskVars
  <2>6. DownIsEmpty'
    BY <1>6 DEF UndoIInv, Publish, DownIsEmpty, diskVars
  <2> QED BY <2>1, <2>2, <2>3, <2>4, <2>5, <2>6 DEF UndoIInv
<1>7. ASSUME NEW t \in Txns, CopyFails(t) PROVE UndoIInv'
  <2>1. TypeOK'
    BY <1>7 DEF UndoIInv, CopyFails, Goto, At, TypeOK, Phases, diskVars,
       memVars
  <2>2. CapturesAgree'
    BY <1>7 DEF UndoIInv, CopyFails, Goto, At, CapturesAgree, TypeOK,
       Capturing, diskVars, memVars
  <2>3. ImagesStay'
    BY <1>7 DEF UndoIInv, CopyFails, Goto, At, ImagesStay, Live, Capturing,
       TypeOK, diskVars, memVars
  <2>4. WritesCovered'
    BY <1>7, NoTxnAssumption DEF UndoIInv, CopyFails, Goto, At, WritesCovered,
       Live, Capturing, TypeOK, diskVars, memVars
  <2>5. DownIsEmpty' /\ MarkerStays'
    BY <1>7 DEF UndoIInv, CopyFails, DownIsEmpty, MarkerStays, diskVars,
       memVars
  <2> QED BY <2>1, <2>2, <2>3, <2>4, <2>5 DEF UndoIInv
<1>8. ASSUME NEW t \in Txns, RemovePartial(t) PROVE UndoIInv'
  <2>1. TypeOK'
    BY <1>8 DEF UndoIInv, RemovePartial, Goto, At, TypeOK, Phases
  <2>2. CapturesAgree'
    BY <1>8 DEF UndoIInv, RemovePartial, Goto, At, CapturesAgree, TypeOK,
       Capturing
  <2>3. ImagesStay'
    BY <1>8 DEF UndoIInv, RemovePartial, Goto, At, ImagesStay, Live,
       Capturing, TypeOK, CapturesAgree
  <2>4. WritesCovered'
    BY <1>8, NoTxnAssumption DEF UndoIInv, RemovePartial, Goto, At,
       WritesCovered, Live, Capturing, TypeOK, CapturesAgree, ImagesStay
  <2>5. DownIsEmpty' /\ MarkerStays'
    BY <1>8 DEF UndoIInv, RemovePartial, DownIsEmpty, MarkerStays
  <2> QED BY <2>1, <2>2, <2>3, <2>4, <2>5 DEF UndoIInv
<1>9. ASSUME NEW t \in Txns, Unreserve(t) PROVE UndoIInv'
  <2>1. TypeOK'
    <3>1. pending[t] = 1 /\ reserved[t] \in Nat \ {0}
      BY <1>9, CaptureFacts DEF Unreserve, At, Capturing
    <3>2. reserved' \in [Txns -> Nat] /\ pending' \in [Txns -> Nat]
      BY <1>9, <3>1 DEF UndoIInv, Unreserve, Less, TypeOK
    <3>3. marker' \in BOOLEAN /\ debt' \subseteq Txns
      BY <1>9 DEF UndoIInv, Unreserve, CleanEmpty, TypeOK
    <3> QED BY <1>9, <3>2, <3>3 DEF UndoIInv, Unreserve, Goto, TypeOK, Phases
  <2>2. CapturesAgree'
    BY <1>9 DEF UndoIInv, Unreserve, Less, Goto, At, CleanEmpty,
       CapturesAgree, TypeOK, Capturing
  <2>3. MarkerStays'
    <3>1. \A u \in Txns : pending'[u] # 0 => pending[u] # 0
      <4>1. pending[t] = 1
        BY <1>9, CaptureFacts DEF Unreserve, At, Capturing
      <4> QED BY <1>9, <4>1 DEF UndoIInv, Unreserve, Less, TypeOK
    <3>2. CASE marker' = marker
      BY <1>9, <3>1, <3>2 DEF UndoIInv, Unreserve, MarkerStays
    <3>3. CASE marker' # marker
      BY <1>9, <3>3 DEF Unreserve, CleanEmpty, MarkerStays
    <3> QED BY <3>2, <3>3
  <2>4. ImagesStay'
    BY <1>9 DEF UndoIInv, Unreserve, Less, Goto, At, CleanEmpty, ImagesStay,
       Live, Capturing, TypeOK
  <2>5. WritesCovered'
    BY <1>9, NoTxnAssumption DEF UndoIInv, Unreserve, Less, Goto, At,
       CleanEmpty, WritesCovered, Live, Capturing, TypeOK, MarkerStays
  <2>6. DownIsEmpty'
    BY <1>9 DEF UndoIInv, Unreserve, DownIsEmpty
  <2> QED BY <2>1, <2>2, <2>3, <2>4, <2>5, <2>6 DEF UndoIInv
<1>10. ASSUME NEW t \in Txns, Commit(t) PROVE UndoIInv'
  <2>1. TypeOK'
    BY <1>10 DEF UndoIInv, Commit, Unlock, Goto, At, TypeOK, Phases, memVars
  <2>2. CapturesAgree'
    BY <1>10 DEF UndoIInv, Commit, Unlock, Goto, At, CapturesAgree, TypeOK,
       Capturing, memVars
  <2>3. ImagesStay'
    BY <1>10 DEF UndoIInv, Commit, Unlock, Goto, At, ImagesStay, Live,
       Capturing, TypeOK, memVars
  <2>4. WritesCovered'
    BY <1>10, NoTxnAssumption DEF UndoIInv, Commit, Unlock, Goto, At,
       WritesCovered, Live, Capturing, TypeOK, ImagesStay, memVars
  <2>5. DownIsEmpty' /\ MarkerStays'
    BY <1>10 DEF UndoIInv, Commit, DownIsEmpty, MarkerStays, memVars
  <2> QED BY <2>1, <2>2, <2>3, <2>4, <2>5 DEF UndoIInv
<1>11. ASSUME NEW t \in Txns, StartAbort(t) PROVE UndoIInv'
  <2>1. TypeOK'
    BY <1>11 DEF UndoIInv, StartAbort, Goto, At, TypeOK, Phases, diskVars,
       memVars
  <2>2. CapturesAgree'
    BY <1>11 DEF UndoIInv, StartAbort, Goto, At, CapturesAgree, TypeOK,
       Capturing, diskVars, memVars
  <2>3. ImagesStay'
    BY <1>11 DEF UndoIInv, StartAbort, Goto, At, ImagesStay, Live, Capturing,
       TypeOK, diskVars, memVars
  <2>4. WritesCovered'
    BY <1>11, NoTxnAssumption DEF UndoIInv, StartAbort, Goto, At,
       WritesCovered, Live, Capturing, TypeOK, diskVars, memVars
  <2>5. DownIsEmpty' /\ MarkerStays'
    BY <1>11 DEF UndoIInv, StartAbort, DownIsEmpty, MarkerStays, diskVars,
       memVars
  <2> QED BY <2>1, <2>2, <2>3, <2>4, <2>5 DEF UndoIInv
<1>12. ASSUME NEW t \in Txns, Aborted(t) PROVE UndoIInv'
  <2>1. TypeOK'
    BY <1>12 DEF UndoIInv, Aborted, Unlock, Goto, At, TypeOK, Phases,
       diskVars, memVars
  <2>2. CapturesAgree'
    BY <1>12 DEF UndoIInv, Aborted, Unlock, Goto, At, CapturesAgree, TypeOK,
       Capturing, diskVars, memVars
  <2>3. ImagesStay'
    BY <1>12 DEF UndoIInv, Aborted, Unlock, Goto, At, ImagesStay, Live,
       Capturing, TypeOK, diskVars, memVars
  <2>4. WritesCovered'
    BY <1>12, NoTxnAssumption DEF UndoIInv, Aborted, Unlock, Goto, At,
       WritesCovered, Live, Capturing, TypeOK, ImagesStay, diskVars, memVars
  <2>5. DownIsEmpty' /\ MarkerStays'
    BY <1>12 DEF UndoIInv, Aborted, DownIsEmpty, MarkerStays, diskVars,
       memVars
  <2> QED BY <2>1, <2>2, <2>3, <2>4, <2>5 DEF UndoIInv
<1>13. ASSUME NEW t \in Txns, AbortFails(t) PROVE UndoIInv'
  <2>1. TypeOK'
    BY <1>13 DEF UndoIInv, AbortFails, Goto, At, TypeOK, Phases, diskVars,
       memVars
  <2>2. CapturesAgree'
    BY <1>13 DEF UndoIInv, AbortFails, Goto, At, CapturesAgree, TypeOK,
       Capturing, diskVars, memVars
  <2>3. ImagesStay'
    BY <1>13 DEF UndoIInv, AbortFails, Goto, At, ImagesStay, Live, Capturing,
       TypeOK, diskVars, memVars
  <2>4. WritesCovered'
    BY <1>13, NoTxnAssumption DEF UndoIInv, AbortFails, Goto, At,
       WritesCovered, Live, Capturing, TypeOK, diskVars, memVars
  <2>5. DownIsEmpty' /\ MarkerStays'
    BY <1>13 DEF UndoIInv, AbortFails, DownIsEmpty, MarkerStays, diskVars,
       memVars
  <2> QED BY <2>1, <2>2, <2>3, <2>4, <2>5 DEF UndoIInv
<1>14. ASSUME NEW t \in Txns, StartDiscard(t) PROVE UndoIInv'
  <2>1. TypeOK'
    BY <1>14 DEF UndoIInv, StartDiscard, Goto, TypeOK, Phases, diskVars
  <2>2. CapturesAgree'
    BY <1>14 DEF UndoIInv, StartDiscard, Goto, CapturesAgree, TypeOK,
       Capturing, diskVars
  <2>3. ImagesStay'
    BY <1>14 DEF UndoIInv, StartDiscard, Goto, ImagesStay, Live, Capturing,
       TypeOK, diskVars
  <2>4. WritesCovered'
    BY <1>14, NoTxnAssumption DEF UndoIInv, StartDiscard, Goto, WritesCovered,
       Live, Capturing, TypeOK, diskVars
  <2>5. DownIsEmpty' /\ MarkerStays'
    BY <1>14 DEF UndoIInv, StartDiscard, DownIsEmpty, MarkerStays, diskVars
  <2> QED BY <2>1, <2>2, <2>3, <2>4, <2>5 DEF UndoIInv
<1>15. ASSUME NEW t \in Txns, RemoveTree(t) PROVE UndoIInv'
  <2>1. TypeOK'
    BY <1>15 DEF UndoIInv, RemoveTree, FoldersOf, Goto, At, TypeOK, Phases,
       memVars
  <2>2. CapturesAgree'
    BY <1>15 DEF UndoIInv, RemoveTree, FoldersOf, Goto, At, CapturesAgree,
       TypeOK, Capturing, memVars
  <2>3. ImagesStay'
    BY <1>15 DEF UndoIInv, RemoveTree, FoldersOf, Goto, At, ImagesStay, Live,
       Capturing, TypeOK, memVars
  <2>4. WritesCovered'
    BY <1>15, NoTxnAssumption DEF UndoIInv, RemoveTree, FoldersOf, Goto, At,
       WritesCovered, Live, Capturing, TypeOK, ImagesStay, memVars
  <2>5. DownIsEmpty' /\ MarkerStays'
    BY <1>15 DEF UndoIInv, RemoveTree, DownIsEmpty, MarkerStays, memVars
  <2> QED BY <2>1, <2>2, <2>3, <2>4, <2>5 DEF UndoIInv
<1>16. ASSUME NEW t \in Txns, RemoveTreeFails(t) PROVE UndoIInv'
  <2>1. TypeOK'
    BY <1>16 DEF UndoIInv, RemoveTreeFails, FoldersOf, Goto, At, TypeOK,
       Phases
  <2>2. CapturesAgree'
    BY <1>16 DEF UndoIInv, RemoveTreeFails, FoldersOf, Goto, At,
       CapturesAgree, TypeOK, Capturing
  <2>3. ImagesStay'
    BY <1>16 DEF UndoIInv, RemoveTreeFails, FoldersOf, Goto, At, ImagesStay,
       Live, Capturing, TypeOK
  <2>4. WritesCovered'
    BY <1>16, NoTxnAssumption DEF UndoIInv, RemoveTreeFails, FoldersOf, Goto,
       At, WritesCovered, Live, Capturing, TypeOK, ImagesStay
  <2>5. DownIsEmpty' /\ MarkerStays'
    BY <1>16 DEF UndoIInv, RemoveTreeFails, DownIsEmpty, MarkerStays
  <2> QED BY <2>1, <2>2, <2>3, <2>4, <2>5 DEF UndoIInv
<1>17. ASSUME NEW t \in Txns, Discarded(t) PROVE UndoIInv'
  <2>1. TypeOK'
    <3>1. marker' \in BOOLEAN /\ debt' \subseteq Txns
      BY <1>17 DEF UndoIInv, Discarded, CleanEmpty, TypeOK
    <3> QED BY <1>17, <3>1 DEF UndoIInv, Discarded, Goto, TypeOK, Phases
  <2>2. CapturesAgree'
    BY <1>17 DEF UndoIInv, Discarded, CleanEmpty, Goto, At, CapturesAgree,
       TypeOK, Capturing
  <2>3. MarkerStays'
    BY <1>17 DEF UndoIInv, Discarded, CleanEmpty, Goto, At, MarkerStays,
       TypeOK
  <2>4. ImagesStay'
    BY <1>17 DEF UndoIInv, Discarded, CleanEmpty, Goto, At, ImagesStay, Live,
       Capturing, TypeOK
  <2>5. WritesCovered'
    BY <1>17, NoTxnAssumption DEF UndoIInv, Discarded, CleanEmpty, Goto, At,
       WritesCovered, Live, Capturing, TypeOK, MarkerStays
  <2>6. DownIsEmpty'
    BY <1>17 DEF UndoIInv, Discarded, DownIsEmpty
  <2> QED BY <2>1, <2>2, <2>3, <2>4, <2>5, <2>6 DEF UndoIInv
<1>18. ASSUME Crash PROVE UndoIInv'
  <2>1. TypeOK'
    BY <1>18 DEF UndoIInv, Crash, TypeOK, Phases, diskVars
  <2>2. CapturesAgree'
    BY <1>18 DEF UndoIInv, Crash, CapturesAgree, TypeOK, Capturing, diskVars
  <2>3. DownIsEmpty'
    BY <1>18 DEF UndoIInv, Crash, DownIsEmpty, diskVars
  <2>4. MarkerStays'
    BY <1>18 DEF UndoIInv, Crash, MarkerStays, TypeOK, diskVars
  <2>5. ImagesStay'
    BY <1>18 DEF UndoIInv, Crash, ImagesStay, Live, Capturing, TypeOK,
       diskVars
  <2>6. WritesCovered'
    BY <1>18, NoTxnAssumption DEF UndoIInv, Crash, WritesCovered, Live,
       Capturing, TypeOK, diskVars
  <2> QED BY <2>1, <2>2, <2>3, <2>4, <2>5, <2>6 DEF UndoIInv
<1>19. ASSUME Reopen PROVE UndoIInv'
  <2>1. TypeOK'
    BY <1>19 DEF UndoIInv, Reopen, TypeOK, Phases, diskVars, memVars
  <2>2. DownIsEmpty'
    BY <1>19 DEF UndoIInv, Reopen, DownIsEmpty, diskVars, memVars
  <2>3. WritesCovered'
    BY <1>19, NoTxnAssumption DEF UndoIInv, Reopen, WritesCovered, Live,
       Capturing, TypeOK, diskVars, memVars
  <2>4. CapturesAgree' /\ MarkerStays' /\ ImagesStay'
    BY <1>19 DEF UndoIInv, Reopen, CapturesAgree, MarkerStays, ImagesStay,
       diskVars, memVars
  <2> QED BY <2>1, <2>2, <2>3, <2>4 DEF UndoIInv
<1>20. CASE UNCHANGED vars
  BY <1>20 DEF UndoIInv, TypeOK, CapturesAgree, DownIsEmpty, MarkerStays,
     ImagesStay, WritesCovered, vars, diskVars, memVars
<1> QED BY <1>1, <1>2, <1>3, <1>4, <1>5, <1>6, <1>7, <1>8, <1>9, <1>10, <1>11,
   <1>12, <1>13, <1>14, <1>15, <1>16, <1>17, <1>18, <1>19, <1>20 DEF Next

\* The invariant says that evidence and images are there.
LEMMA UndoIInvImplies ==
    ASSUME UndoIInv PROVE WritesLeaveEvidence /\ ImagesAreThere
<1>1. WritesLeaveEvidence
  BY DEF UndoIInv, TypeOK, WritesCovered, ImagesStay, WritesLeaveEvidence
<1>2. ImagesAreThere
  BY DEF UndoIInv, MarkerStays, ImagesStay, ImagesAreThere, Live
<1> QED BY <1>1, <1>2

\* The invariant of the store: the sections of its mutex leave the accounts, the
\* images, the marker and the locks of the tables in agreement.
THEOREM UndoInvariant == Spec => []UndoIInv
BY InitUndoIInv, StepUndoIInv, PTL DEF Spec

\* The accounts keep their types: a reservation is given back once.
THEOREM AccountsKeepTheirTypes == Spec => []TypeOK
<1>1. UndoIInv => TypeOK
  BY DEF UndoIInv
<1> QED BY <1>1, UndoInvariant, PTL

\* Uncommitted bytes are never on disk without the marker and an image, at any
\* point of a capture, a discard or the end of the process.
THEOREM EvidenceOfWrites == Spec => []WritesLeaveEvidence
BY UndoIInvImplies, UndoInvariant, PTL

\* A transaction that may still abort finds all its images.
THEOREM AbortFindsItsImages == Spec => []ImagesAreThere
BY UndoIInvImplies, UndoInvariant, PTL

\* An owner that opens the database finds committed contents only (require_clean).
THEOREM OpenFindsCommitted == Spec => OpensCommitted
<1>1. ASSUME UndoIInv, [Next]_vars PROVE [~up /\ up' => uncommitted = {}]_vars
  <2> SUFFICES ASSUME Next, ~up, up' PROVE uncommitted = {}
    BY <1>1
  <2>1. Reopen
    BY DEF Next, Reserve, ReserveFails, Write, Restore, MakeFolder, Publish,
           CopyFails, RemovePartial, Unreserve, Commit, StartAbort, Aborted,
           AbortFails, StartDiscard, RemoveTree, RemoveTreeFails, Discarded, Crash
  <2> QED BY <1>1, <2>1 DEF Reopen, UndoIInv, WritesCovered
<1> QED BY <1>1, UndoInvariant, PTL DEF Spec, OpensCommitted

-----------------------------------------------------------------------------
(***************************************************************************)
(* The accounts                                                            *)
(***************************************************************************)
\* An account has a unit for each image and one for the capture under way.
CountsAgree ==
    \A t \in Txns :
        /\ IsFiniteSet(images[t])
        /\ reserved[t] = Cardinality(images[t]) + pending[t]
        /\ reserved[t] <= PerTransaction

\* All accounts together keep to the total.
TotalHolds == IsFiniteSet(Units(reserved)) /\ Sum(reserved) <= Total

\* Only a discard under way counts as cleaning, and it ends without images.
CleaningAgrees ==
    \A t \in Txns :
        /\ t \in cleaning => phase[t] \in {"discarding", "removed"}
        /\ phase[t] = "discarded" => images[t] = {}

\* The last discard leaves nothing, or a debt.
LastLeavesNothing ==
    up /\ debt = {} /\ (\A t \in Txns : phase[t] = "discarded")
        => ~marker /\ folders = {}

\* What the sections of the mutex keep of the accounts, on top of UndoIInv.
AccountsIInv == CountsAgree /\ TotalHolds /\ CleaningAgrees /\ LastLeavesNothing

\* A unit more in one account is a unit more of all (undo.py:146-156).
LEMMA UnitsAdd ==
    ASSUME NEW f \in [Txns -> Nat], NEW t \in Txns, IsFiniteSet(Units(f))
    PROVE  IsFiniteSet(Units(Add(f, t))) /\ Sum(Add(f, t)) = Sum(f) + 1
<1>1. Units(Add(f, t)) = Units(f) \union {<<t, f[t] + 1>>}
  <2>1. ASSUME NEW x PROVE x \in Units(Add(f, t)) <=> x \in Units(f) \union {<<t, f[t] + 1>>}
    <3>1. x \in Units(f) <=> \E u \in Txns : \E n \in 1 .. f[u] : x = <<u, n>>
      BY DEF Units
    <3>2. x \in Units(Add(f, t)) <=> \E u \in Txns : \E n \in 1 .. Add(f, t)[u] : x = <<u, n>>
      BY DEF Units
    <3>3. \A u \in Txns : Add(f, t)[u] = IF u = t THEN f[t] + 1 ELSE f[u]
      BY DEF Add
    <3>4. \A n : n \in 1 .. (f[t] + 1) <=> n \in 1 .. f[t] \/ n = f[t] + 1
      OBVIOUS
    <3> QED BY <3>1, <3>2, <3>3, <3>4
  <2> QED BY <2>1
<1>2. <<t, f[t] + 1>> \notin Units(f)
  BY DEF Units
<1> QED BY <1>1, <1>2, FS_AddElement, FS_CardinalityType DEF Sum

\* Accounts with fewer units are within the same total.
LEMMA UnitsShrink ==
    ASSUME NEW f \in [Txns -> Nat], NEW g \in [Txns -> Nat], IsFiniteSet(Units(f)),
           \A u \in Txns : g[u] <= f[u]
    PROVE  IsFiniteSet(Units(g)) /\ Sum(g) <= Sum(f)
<1>1. Units(g) \subseteq Units(f)
  <2>1. \A u \in Txns : 1 .. g[u] \subseteq 1 .. f[u]
    OBVIOUS
  <2> QED BY <2>1 DEF Units
<1> QED BY <1>1, FS_Subset DEF Sum

\* Accounts without a unit sum to nothing.
LEMMA UnitsOfNothing ==
    ASSUME NEW f, \A u \in Txns : f[u] = 0
    PROVE  IsFiniteSet(Units(f)) /\ Sum(f) = 0
<1>1. Units(f) = {}
  BY DEF Units
<1> QED BY <1>1, FS_EmptySet DEF Sum

LEMMA InitAccounts == ASSUME Init PROVE AccountsIInv
<1> USE DEF Init, Fresh
<1>1. CountsAgree
  BY FS_EmptySet, LimitsAssumption DEF CountsAgree
<1>2. TotalHolds
  BY UnitsOfNothing, LimitsAssumption DEF TotalHolds
<1>3. CleaningAgrees /\ LastLeavesNothing
  BY DEF CleaningAgrees, LastLeavesNothing
<1> QED BY <1>1, <1>2, <1>3 DEF AccountsIInv

\* Steps that leave the accounts alone.
LEMMA StepWithoutAccounts ==
    ASSUME AccountsIInv, UNCHANGED <<images, reserved, pending>>
    PROVE  CountsAgree' /\ TotalHolds'
BY DEF AccountsIInv, CountsAgree, TotalHolds, Sum, Units

\* Only a transaction on its way to the discard is cleaning or discarded.
LEMMA StepElsewhere ==
    ASSUME UndoIInv, AccountsIInv, NEW t \in Txns, Next,
           phase' = [phase EXCEPT ![t] = phase'[t]],
           phase[t] \notin {"discarding", "removed", "discarded"},
           phase'[t] \notin {"discarded"}, cleaning' = cleaning,
           \A u \in Txns : u # t => images'[u] = images[u]
    PROVE  CleaningAgrees' /\ LastLeavesNothing'
<1>1. \A u \in Txns : u # t => phase'[u] = phase[u]
  BY DEF UndoIInv, TypeOK
<1>2. t \notin cleaning
  BY DEF AccountsIInv, CleaningAgrees
<1> QED BY <1>1, <1>2 DEF AccountsIInv, CleaningAgrees, LastLeavesNothing

\* Every step keeps the accounts: what a capture reserves becomes an image or is
\* given back, and only a discard empties an account.
LEMMA StepAccounts ==
    ASSUME UndoIInv, UndoIInv', AccountsIInv, [Next]_vars PROVE AccountsIInv'
<1> USE DEF AccountsIInv
<1>1. ASSUME NEW t \in Txns, NEW r \in Tables, Reserve(t, r) PROVE AccountsIInv'
  <2>1. reserved' = Add(reserved, t) /\ pending' = Add(pending, t) /\ images' = images
    BY <1>1 DEF Reserve
  <2>2. reserved \in [Txns -> Nat] /\ pending \in [Txns -> Nat]
    BY DEF UndoIInv, TypeOK
  <2>3. CountsAgree'
    <3>1. ASSUME NEW u \in Txns
          PROVE /\ IsFiniteSet(images'[u])
                /\ reserved'[u] = Cardinality(images'[u]) + pending'[u]
                /\ reserved'[u] <= PerTransaction
      <4>1. Cardinality(images[u]) \in Nat
        BY FS_CardinalityType DEF CountsAgree
      <4>2. reserved[t] + 1 <= PerTransaction
        BY <1>1 DEF Reserve
      <4> QED BY <2>1, <2>2, <4>1, <4>2 DEF CountsAgree, Add
    <3> QED BY <3>1 DEF CountsAgree
  <2>4. TotalHolds'
    <3>1. IsFiniteSet(Units(Add(reserved, t))) /\ Sum(Add(reserved, t)) = Sum(reserved) + 1
      BY <2>2, UnitsAdd DEF TotalHolds
    <3>2. IsFiniteSet(Units(reserved')) /\ Sum(reserved') = Sum(reserved) + 1
      BY <2>1, <3>1
    <3>3. Sum(reserved) + 1 <= Total
      BY <1>1 DEF Reserve
    <3> QED BY <3>2, <3>3 DEF TotalHolds, Sum, Units
  <2>5. CleaningAgrees' /\ LastLeavesNothing'
    <3>1. phase[t] = "active" /\ phase'[t] = "reserved" /\ phase' = [phase EXCEPT ![t] = phase'[t]]
      BY <1>1 DEF Reserve, At, Goto, UndoIInv, TypeOK
    <3>2. Next /\ cleaning' = cleaning
      BY <1>1 DEF Next, Reserve
    <3> QED BY <2>1, <3>1, <3>2, StepElsewhere
  <2> QED BY <2>3, <2>4, <2>5
<1>2. ASSUME NEW t \in Txns, Publish(t) PROVE AccountsIInv'
  <2>1. /\ images' = [images EXCEPT ![t] = @ \union {copying[t]}]
        /\ pending' = Less(pending, t) /\ reserved' = reserved
    BY <1>2 DEF Publish
  <2>2. /\ images \in [Txns -> SUBSET Tables] /\ pending[t] = 1
        /\ copying[t] \notin images[t] /\ pending \in [Txns -> Nat]
    BY <1>2 DEF UndoIInv, TypeOK, CapturesAgree, Publish, At, Capturing
  <2>3. CountsAgree'
    <3>1. ASSUME NEW u \in Txns
          PROVE /\ IsFiniteSet(images'[u])
                /\ reserved'[u] = Cardinality(images'[u]) + pending'[u]
                /\ reserved'[u] <= PerTransaction
      <4>1. IsFiniteSet(images[u]) /\ Cardinality(images[u]) \in Nat
        BY FS_CardinalityType DEF CountsAgree
      <4>2. CASE u = t
        <5>1. images'[t] = images[t] \union {copying[t]} /\ pending'[t] = 0
          BY <2>1, <2>2 DEF Less
        <5>2. IsFiniteSet(images'[t]) /\ Cardinality(images'[t]) = Cardinality(images[t]) + 1
          BY <2>2, <4>1, <4>2, <5>1, FS_AddElement
        <5> QED BY <2>1, <2>2, <4>1, <4>2, <5>1, <5>2 DEF CountsAgree
      <4>3. CASE u # t
        BY <2>1, <2>2, <4>3 DEF CountsAgree, Less
      <4> QED BY <4>2, <4>3
    <3> QED BY <3>1 DEF CountsAgree
  <2>4. TotalHolds'
    BY <2>1 DEF TotalHolds, Sum, Units
  <2>5. CleaningAgrees' /\ LastLeavesNothing'
    <3>1. phase[t] = "copying" /\ phase'[t] = "active" /\ phase' = [phase EXCEPT ![t] = phase'[t]]
      BY <1>2 DEF Publish, At, Goto, UndoIInv, TypeOK
    <3>2. Next /\ cleaning' = cleaning
      BY <1>2 DEF Next, Publish
    <3>3. \A u \in Txns : u # t => images'[u] = images[u]
      BY <2>1, <2>2
    <3> QED BY <3>1, <3>2, <3>3, StepElsewhere
  <2> QED BY <2>3, <2>4, <2>5
<1>3. ASSUME NEW t \in Txns, Unreserve(t) PROVE AccountsIInv'
  <2>1. /\ reserved' = Less(reserved, t) /\ pending' = Less(pending, t) /\ images' = images
    BY <1>3 DEF Unreserve
  <2>2. /\ reserved \in [Txns -> Nat] /\ pending \in [Txns -> Nat] /\ pending[t] = 1
        /\ reserved[t] >= 1
    BY <1>3 DEF UndoIInv, TypeOK, CapturesAgree, Unreserve, At, Capturing
  <2>3. CountsAgree'
    <3>1. \A u \in Txns : Cardinality(images[u]) \in Nat
      BY FS_CardinalityType DEF CountsAgree
    <3> QED BY <2>1, <2>2, <3>1, LimitsAssumption DEF CountsAgree, Less
  <2>4. TotalHolds'
    <3>1. reserved' \in [Txns -> Nat] /\ \A u \in Txns : reserved'[u] <= reserved[u]
      BY <2>1, <2>2 DEF Less
    <3>2. IsFiniteSet(Units(reserved')) /\ Sum(reserved') <= Sum(reserved)
      BY <2>2, <3>1, UnitsShrink DEF TotalHolds
    <3>3. Sum(reserved) \in Nat /\ Sum(reserved') \in Nat
      BY <3>2, FS_CardinalityType DEF TotalHolds, Sum
    <3> QED BY <3>2, <3>3, LimitsAssumption DEF TotalHolds, Sum, Units
  <2>5. CleaningAgrees' /\ LastLeavesNothing'
    <3>1. phase[t] = "unreserving" /\ phase'[t] = "aborting" /\ phase' = [phase EXCEPT ![t] = phase'[t]]
      BY <1>3 DEF Unreserve, At, Goto, UndoIInv, TypeOK
    <3>2. Next /\ cleaning' = cleaning
      BY <1>3 DEF Next, Unreserve
    <3> QED BY <2>1, <3>1, <3>2, StepElsewhere
  <2> QED BY <2>3, <2>4, <2>5
<1>4. ASSUME NEW t \in Txns, Discarded(t) PROVE AccountsIInv'
  <2>1. /\ images' = [images EXCEPT ![t] = {}] /\ reserved' = [reserved EXCEPT ![t] = 0]
        /\ pending' = [pending EXCEPT ![t] = 0] /\ cleaning' = cleaning \ {t}
        /\ phase' = [phase EXCEPT ![t] = "discarded"] /\ folders' = folders
    BY <1>4 DEF Discarded, Goto
  <2>2. /\ images \in [Txns -> SUBSET Tables] /\ reserved \in [Txns -> Nat]
        /\ pending \in [Txns -> Nat] /\ phase \in [Txns -> Phases]
    BY DEF UndoIInv, TypeOK
  <2>3. CountsAgree'
    BY <2>1, <2>2, FS_EmptySet, LimitsAssumption DEF CountsAgree
  <2>4. TotalHolds'
    <3>1. reserved' \in [Txns -> Nat] /\ \A u \in Txns : reserved'[u] <= reserved[u]
      BY <2>1, <2>2
    <3>2. IsFiniteSet(Units(reserved')) /\ Sum(reserved') <= Sum(reserved)
      BY <2>2, <3>1, UnitsShrink DEF TotalHolds
    <3>3. Sum(reserved) \in Nat /\ Sum(reserved') \in Nat
      BY <3>2, FS_CardinalityType DEF TotalHolds, Sum
    <3> QED BY <3>2, <3>3, LimitsAssumption DEF TotalHolds, Sum, Units
  <2>5. CleaningAgrees'
    BY <2>1, <2>2 DEF CleaningAgrees
  <2>6. LastLeavesNothing'
    <3> SUFFICES ASSUME up', debt' = {}, \A u \in Txns : phase'[u] = "discarded"
                 PROVE  ~marker' /\ folders' = {}
      BY DEF LastLeavesNothing
    <3>1. \A u \in Txns : images'[u] = {} /\ pending'[u] = 0 /\ reserved'[u] = 0
      <4>1. \A u \in Txns : images'[u] = {}
        BY <2>5 DEF CleaningAgrees
      <4>2. \A u \in Txns : pending'[u] = 0
        BY DEF UndoIInv, CapturesAgree, Capturing
      <4> QED BY <2>3, <4>1, <4>2, FS_EmptySet DEF CountsAgree
    <3>2. cleaning' = {}
      BY <2>1, <2>5 DEF UndoIInv, TypeOK, CleaningAgrees
    <3>3. debt \ {t} = {}
      BY <1>4, <2>1 DEF Discarded, CleanEmpty
    <3>4. folders = {} /\ ~marker'
      <4>1. CleanEmpty(t, images', reserved', pending', debt \ {t}, cleaning')
        BY <1>4 DEF Discarded
      <4> QED BY <3>1, <3>2, <3>3, <4>1 DEF CleanEmpty
    <3> QED BY <2>1, <3>4
  <2> QED BY <2>3, <2>4, <2>5, <2>6
<1>5. ASSUME NEW t \in Txns,
             \/ \E r \in Tables : ReserveFails(t, r) \/ Write(t, r) \/ Restore(t, r)
             \/ MakeFolder(t) \/ CopyFails(t) \/ RemovePartial(t)
             \/ Commit(t) \/ StartAbort(t) \/ Aborted(t) \/ AbortFails(t)
      PROVE  AccountsIInv'
  <2>1. UNCHANGED <<images, reserved, pending, cleaning>>
    BY <1>5 DEF ReserveFails, Write, Restore, MakeFolder, CopyFails, RemovePartial,
                Commit, StartAbort, Aborted, AbortFails, diskVars, memVars
  <2>2. phase[t] \notin {"discarding", "removed", "discarded"}
    BY <1>5 DEF ReserveFails, Write, Restore, MakeFolder, CopyFails, RemovePartial,
                Commit, StartAbort, Aborted, AbortFails, At
  <2>3. phase' = [phase EXCEPT ![t] = phase'[t]] /\ phase'[t] # "discarded"
    BY <1>5, <2>2 DEF ReserveFails, Write, Restore, MakeFolder, CopyFails, RemovePartial,
                Commit, StartAbort, Aborted, AbortFails, Goto, UndoIInv, TypeOK
  <2>4. Next
    BY <1>5 DEF Next
  <2> QED BY <2>1, <2>2, <2>3, <2>4, StepWithoutAccounts, StepElsewhere
<1>6. ASSUME NEW t \in Txns, StartDiscard(t) \/ RemoveTree(t) \/ RemoveTreeFails(t)
      PROVE  AccountsIInv'
  <2>1. UNCHANGED <<images, reserved, pending>>
    BY <1>6 DEF StartDiscard, RemoveTree, RemoveTreeFails, memVars
  <2>2. /\ \A u \in Txns : u # t => phase'[u] = phase[u]
        /\ phase'[t] # "discarded"
        /\ cleaning' \subseteq cleaning \union {t}
        /\ t \in cleaning' => phase'[t] \in {"discarding", "removed"}
    BY <1>6 DEF StartDiscard, RemoveTree, RemoveTreeFails, memVars, At, Goto, UndoIInv, TypeOK
  <2>3. CleaningAgrees' /\ LastLeavesNothing'
    BY <2>1, <2>2 DEF CleaningAgrees, LastLeavesNothing
  <2> QED BY <2>1, <2>3, StepWithoutAccounts
<1>7. ASSUME Crash PROVE AccountsIInv'
  <2>1. CountsAgree'
    BY <1>7, FS_EmptySet, LimitsAssumption DEF Crash, CountsAgree
  <2>2. TotalHolds'
    BY <1>7, UnitsOfNothing, LimitsAssumption DEF Crash, TotalHolds, Sum, Units
  <2>3. CleaningAgrees' /\ LastLeavesNothing'
    BY <1>7 DEF Crash, CleaningAgrees, LastLeavesNothing
  <2> QED BY <2>1, <2>2, <2>3
<1>8. ASSUME Reopen PROVE AccountsIInv'
  BY <1>8, StepWithoutAccounts
     DEF Reopen, diskVars, memVars, CleaningAgrees, LastLeavesNothing
<1>9. CASE UNCHANGED vars
  BY <1>9, StepWithoutAccounts DEF vars, diskVars, memVars, CleaningAgrees, LastLeavesNothing
<1> QED BY <1>1, <1>2, <1>3, <1>4, <1>5, <1>6, <1>7, <1>8, <1>9 DEF Next

\* The quotas hold in every state, an account says exactly what its transaction
\* holds, and the last discard leaves the next owner a clean directory, unless a
\* debt says that it could not.
THEOREM AccountsAlwaysBalance == Spec => []AccountsBalance
<1>1. UndoIInv /\ AccountsIInv => AccountsBalance
  <2> SUFFICES ASSUME UndoIInv, AccountsIInv PROVE AccountsBalance
    OBVIOUS
  <2>1. Sum(reserved) <= Total
    BY DEF AccountsIInv, TotalHolds
  <2>2. \A t \in Txns :
          /\ reserved[t] <= PerTransaction
          /\ pending[t] = IF phase[t] \in Capturing THEN 1 ELSE 0
          /\ reserved[t] = Cardinality(images[t]) + pending[t]
    BY DEF UndoIInv, CapturesAgree, AccountsIInv, CountsAgree
  <2>3. ASSUME up, debt = {}, \A t \in Txns : phase[t] = "discarded"
        PROVE  ~marker /\ folders = {} /\ Sum(reserved) = 0
    <3>1. \A t \in Txns : images[t] = {} /\ pending[t] = 0
      BY <2>2, <2>3 DEF AccountsIInv, CleaningAgrees, Capturing
    <3>2. Sum(reserved) = 0
      <4>1. Cardinality({}) = 0
        BY FS_EmptySet
      <4>2. \A t \in Txns : reserved[t] = Cardinality({}) + 0
        BY <2>2, <3>1
      <4> QED BY <4>1, <4>2, UnitsOfNothing
    <3> QED BY <2>3, <3>2 DEF AccountsIInv, LastLeavesNothing
  <2> QED BY <2>1, <2>2, <2>3 DEF AccountsBalance
<1>2. Init => AccountsIInv
  BY InitAccounts
<1>3. UndoIInv /\ UndoIInv' /\ AccountsIInv /\ [Next]_vars => AccountsIInv'
  BY StepAccounts
<1> QED BY <1>1, <1>2, <1>3, UndoInvariant, PTL DEF Spec
=============================================================================
