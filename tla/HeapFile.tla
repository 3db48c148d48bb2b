------------------------------ MODULE HeapFile ------------------------------
(***************************************************************************)
(* The heap organisation (engine/storage/heap_file.py): a row goes to the  *)
(* lowest page with a deleted slot and room for it, else to the last page, *)
(* else to a new one.  The free-space tracker of the code is kept equal to *)
(* what the pages say while the handle is open, so it is derived here.     *)
(***************************************************************************)
EXTENDS PageFile

\* The largest payload a page takes once it is compacted.
InsertableBytes(p) ==
  PageBytes - SlotBytes * Len(p.slots) - Bytes(p) - DirectoryCost(p)

Reusable(f, row) ==
  {n \in DOMAIN f.pages : HasFreeSlot(f.pages[n]) /\ InsertableBytes(f.pages[n]) >= Size(row)}
LastHasRoom(f, row) ==
  Len(f.pages) > 0 /\ InsertableBytes(Last(f.pages)) >= Size(row)

PageFor(f, row) ==
  CASE Reusable(f, row) # {} -> Min(Reusable(f, row))
    [] Reusable(f, row) = {} /\ LastHasRoom(f, row) -> Len(f.pages)
    [] OTHER -> Len(f.pages) + 1

Receiving(f, row) ==
  LET n == PageFor(f, row)
  IN IF n > Len(f.pages) THEN EmptyPage
     ELSE IF Fits(f.pages[n], row) THEN f.pages[n] ELSE Compact(f.pages[n])

HeapRid(f, row) == <<PageFor(f, row), SlotFor(Receiving(f, row))>>

HeapWrites(f, row) ==
  LET n == PageFor(f, row)
      p == Receiving(f, row)
      grown == IF n > Len(f.pages) THEN 1 ELSE 0
      reused == IF HasFreeSlot(p) THEN 1 ELSE 0
  IN (IF grown = 1 THEN AllocatePage(n) ELSE <<>>)
     \o <<WritePage(n, PutRow(p, row)),
          WriteMeta(f.meta.active + 1, f.meta.deleted - reused, f.meta.pages + grown)>>
=============================================================================
