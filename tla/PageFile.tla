------------------------------ MODULE PageFile ------------------------------
(***************************************************************************)
(* A file of slotted pages (engine/storage: page.py, page_manager.py and   *)
(* organization.py).  Page zero holds the metadata of the organisation;    *)
(* the data pages follow.  An operation is a sequence of physical writes:  *)
(* one that fails part way leaves a prefix of them, the next possibly      *)
(* torn, and closes the handle.                                            *)
(*                                                                         *)
(* Rows stand for their payloads: <<key, size>>.                           *)
(***************************************************************************)
EXTENDS Integers, SequencesExt, FiniteSetsExt, Bags

CONSTANTS PageBytes,   \* room of a page after its header
          SlotBytes    \* a directory entry

ASSUME PageAssumption == PageBytes \in Nat /\ SlotBytes \in Nat \ {0}

Free == <<>>            \* a slot without a row

Key(row) == row[1]
Size(row) == row[2]

\* The rows a file takes: a payload fits an empty page (MAX_RECORD_SIZE).
FittingRows == {row \in Nat \X Nat : Size(row) + SlotBytes <= PageBytes}

-----------------------------------------------------------------------------
\* A page is its slot directory and the bytes of deleted payloads that no
\* compaction took back.
EmptyPage == [slots |-> <<>>, holes |-> 0]

Live(p) == {s \in DOMAIN p.slots : p.slots[s] # Free}
Bytes(p) == Cardinality(UNION {{s} \X (1 .. Size(p.slots[s])) : s \in Live(p)})
HasFreeSlot(p) == \E s \in DOMAIN p.slots : p.slots[s] = Free

\* The contiguous gap between the directory and the payloads.
FreeSpace(p) == PageBytes - SlotBytes * Len(p.slots) - Bytes(p) - p.holes

Compact(p) == [p EXCEPT !.holes = 0]

\* The first free slot, else a new one.
SlotFor(p) == IF HasFreeSlot(p) THEN Min({s \in DOMAIN p.slots : p.slots[s] = Free})
              ELSE Len(p.slots) + 1
DirectoryCost(p) == IF HasFreeSlot(p) THEN 0 ELSE SlotBytes
Fits(p, row) == Size(row) + DirectoryCost(p) <= FreeSpace(p)

PutRow(p, row) ==
  [p EXCEPT !.slots = IF HasFreeSlot(p) THEN [@ EXCEPT ![SlotFor(p)] = row]
                      ELSE Append(@, row)]

\* Deletion frees the slot; the payload stays as a hole.
FreeSlot(p, s) ==
  [slots |-> [p.slots EXCEPT ![s] = Free], holes |-> p.holes + Size(p.slots[s])]

LayoutIsValid(p) == FreeSpace(p) >= 0

-----------------------------------------------------------------------------
\* A file: its data pages, the page count of the file header and the counters
\* of the metadata page.
NewFile == [pages |-> <<>>, allocated |-> 0,
            meta |-> [active |-> 0, deleted |-> 0, pages |-> 0]]

WritePage(n, p) == [at |-> "page", page |-> n, value |-> p]
WriteMeta(active, deleted, pages) ==
  [at |-> "meta", value |-> [active |-> active, deleted |-> deleted, pages |-> pages]]

\* An allocation appends an empty page, then counts it in the header.
AllocatePage(n) == <<WritePage(n, EmptyPage), [at |-> "header", value |-> n]>>

\* Every place of the file holds the last write to it.
LastWrite(ws, here, old) == IF here = {} THEN old ELSE ws[Max(here)].value
WritesTo(ws, at) == {i \in DOMAIN ws : ws[i].at = at}
PageWrites(ws, n) == {i \in WritesTo(ws, "page") : ws[i].page = n}
WriteAll(f, ws) ==
  [pages |-> [n \in 1 .. Max({Len(f.pages)} \cup {ws[i].page : i \in WritesTo(ws, "page")}) |->
                LastWrite(ws, PageWrites(ws, n), f.pages[n])],
   allocated |-> LastWrite(ws, WritesTo(ws, "header"), f.allocated),
   meta |-> LastWrite(ws, WritesTo(ws, "meta"), f.meta)]

\* Bytes that no reader accepts: a layout that does not fit, a count that is
\* none.
Torn(w) ==
  [w EXCEPT !.value = CASE w.at = "page" -> [slots |-> <<>>, holes |-> PageBytes + 1]
                        [] w.at = "header" -> -1
                        [] w.at = "meta" -> [@ EXCEPT !.pages = -1]]

\* What can be on disk once one of the writes ws failed: those before it, and
\* none, a part or all of its bytes.
FailedWrites(f, ws) ==
  {WriteAll(f, SubSeq(ws, 1, n)) : n \in 0 .. Len(ws)}
    \cup {WriteAll(f, Append(SubSeq(ws, 1, n - 1), Torn(ws[n]))) : n \in DOMAIN ws}

\* The slots of the file by page and slot number; those with a row are the
\* identifiers of the rows.
SlotsOf(f) == UNION {{n} \X DOMAIN f.pages[n].slots : n \in DOMAIN f.pages}
RowAt(f, rid) == f.pages[rid[1]].slots[rid[2]]
RidsOf(f) == {rid \in SlotsOf(f) : RowAt(f, rid) # Free}
IsRow(f, rid) == rid \in RidsOf(f)

ActiveRows(f) == Cardinality(RidsOf(f))
FreeSlots(f) == Cardinality(SlotsOf(f) \ RidsOf(f))

\* Opening checks the length against the header, the header against the
\* metadata, every page, and the counters against the pages.
LengthIsCounted(f) == f.allocated = Len(f.pages)
MetadataAgrees(f) == f.meta.pages = f.allocated
CountersAgree(f) ==
  /\ \A n \in DOMAIN f.pages : LayoutIsValid(f.pages[n])
  /\ f.meta.active = ActiveRows(f)
  /\ f.meta.deleted = FreeSlots(f)
Opens(f) == LengthIsCounted(f) /\ MetadataAgrees(f) /\ CountersAgree(f)

\* The rows as a bag.
Holding(f, row) == {rid \in RidsOf(f) : RowAt(f, rid) = row}
Contents(f) ==
  [row \in {RowAt(f, rid) : rid \in RidsOf(f)} |-> Cardinality(Holding(f, row))]

\* A scan in page and slot order.
Precedes(r, s) == r[1] < s[1] \/ (r[1] = s[1] /\ r[2] <= s[2])
Place(f, rid) == Cardinality({r \in RidsOf(f) : Precedes(r, rid)})
Scan(f) ==
  [k \in 1 .. ActiveRows(f) |->
     LET rid == CHOOSE rid \in RidsOf(f) : Place(f, rid) = k IN <<rid, RowAt(f, rid)>>]

\* DELETE of one row, in both organisations: free the slot, then the counters.
DeleteWrites(f, rid) ==
  <<WritePage(rid[1], FreeSlot(f.pages[rid[1]], rid[2])),
    WriteMeta(f.meta.active - 1, f.meta.deleted + 1, f.meta.pages)>>
=============================================================================
