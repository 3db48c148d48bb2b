--------------------------- MODULE SequentialFile ---------------------------
(***************************************************************************)
(* The ordered organisation (storage/paged_sequential_file.py and          *)
(* sequential_ordering.py): rows lie in key order over the pages, deleted  *)
(* ones leave holes and free slots that an insertion keeps, a full page is *)
(* split and the pages after it move right, and a page is found by binary  *)
(* search even when some pages have lost all their rows.                   *)
(***************************************************************************)
EXTENDS PageFile

NoKey == -1              \* no live row; keys are natural numbers

\* The rows of a page in slot order, and the key of the last one.
Rank(p, s) == Cardinality({t \in Live(p) : t <= s})
PageRows(p) ==
  [k \in 1 .. Cardinality(Live(p)) |-> p.slots[CHOOSE s \in Live(p) : Rank(p, s) = k]]
PageLastKey(p) == IF Live(p) = {} THEN NoKey ELSE Key(p.slots[Max(Live(p))])

LastKeyUpTo(f, n) ==
  LET filled == {i \in 1..n : Live(f.pages[i]) # {}}
  IN IF filled = {} THEN NoKey ELSE PageLastKey(f.pages[Max(filled)])

\* Fault: the search compares with its own page alone, and takes one without
\* rows for one that passes.
PassesAlone(f, n, key, strict) ==
  LET k == PageLastKey(f.pages[n])
  IN k = NoKey \/ k > key \/ (k = key /\ ~strict)

Passes(f, n, key, strict) ==
  LET k == LastKeyUpTo(f, n)
  IN k # NoKey /\ (k > key \/ (k = key /\ ~strict))

\* One round of the search in the pages i[1]..i[2] - 1; an interval that is
\* empty stays.
Halve(f, key, strict, i) ==
  LET middle == (i[1] + i[2]) \div 2
  IN IF i[1] >= i[2] THEN i
     ELSE IF Passes(f, middle, key, strict) THEN <<i[1], middle>>
     ELSE <<middle + 1, i[2]>>

\* The page the search ends at: one round for each page is enough.
FirstPage(f, key, strict) ==
  LET after[k \in 0 .. Len(f.pages)] ==
        IF k = 0 THEN <<1, Len(f.pages) + 1>> ELSE Halve(f, key, strict, after[k - 1])
  IN after[Len(f.pages)][1]

\* The page that receives a key: the first with a larger key, else the last.
TargetPage(f, key) == Min({FirstPage(f, key, TRUE), Len(f.pages)})

\* An equal key is in the target, or ends the nearest filled page before it.
HasKey(f, key) ==
  /\ Len(f.pages) > 0
  /\ LET t == TargetPage(f, key)
     IN \/ \E s \in Live(f.pages[t]) : Key(f.pages[t].slots[s]) = key
        \/ LastKeyUpTo(f, t - 1) = key

\* The entries of a sequence at some of its positions.
EntriesAt(s, I) ==
  [k \in 1 .. Cardinality(I) |-> s[CHOOSE i \in I : Cardinality({j \in I : j <= i}) = k]]

\* The entries with the key, from the first page that may hold it up to the
\* first larger key.
SearchKey(f, key) ==
  LET scan == Scan(f)
      from == {i \in DOMAIN scan : scan[i][1][1] >= FirstPage(f, key, FALSE)}
      read == {i \in from : \A j \in from : j <= i => Key(scan[j][2]) <= key}
  IN EntriesAt(scan, {i \in read : Key(scan[i][2]) = key})

-----------------------------------------------------------------------------
\* An insertion rewrites its page from these items: the rows with the new one
\* after every equal key, then the free slots, the first of them with all the
\* bytes of the holes.
RowItem(r, new) == [row |-> r, size |-> Size(r), new |-> new]
Hole(bytes) == [row |-> Free, size |-> bytes, new |-> FALSE]
Cost(item) == item.size + SlotBytes
CostOf(items, part) == Cardinality(UNION {{i} \X (1 .. Cost(items[i])) : i \in part})

Position(p, key) ==
  Cardinality({s \in Live(p) : Key(p.slots[s]) <= key}) + 1

RetainedHoles(p) ==
  LET free == Len(p.slots) - Cardinality(Live(p))
  IN [i \in 1..free |-> Hole(IF i = 1 THEN p.holes ELSE 0)]

ItemsWith(p, row) ==
  LET old == [i \in DOMAIN PageRows(p) |-> RowItem(PageRows(p)[i], FALSE)]
  IN InsertAt(old, Position(p, Key(row)), RowItem(row, TRUE)) \o RetainedHoles(p)

\* Pages are filled in order; page zero stands for none, which is full.
AddItem(last, item) ==
  IF last.bytes + Cost(item) <= PageBytes
  THEN [page |-> last.page, bytes |-> last.bytes + Cost(item)]
  ELSE [page |-> last.page + 1, bytes |-> Cost(item)]
FillGreedily(items) ==
  LET filled[i \in 0 .. Len(items)] ==
        IF i = 0 THEN [page |-> 0, bytes |-> PageBytes] ELSE AddItem(filled[i - 1], items[i])
  IN [i \in DOMAIN items |-> filled[i].page]

\* Each item goes to the page that the middle of its bytes falls in.
Spread(items, n) ==
  LET total == CostOf(items, DOMAIN items)
      before(i) == CostOf(items, 1 .. i - 1)
  IN [i \in DOMAIN items |->
        Min({n, (((2 * before(i) + Cost(items[i])) * n) \div (2 * total)) + 1})]

\* The items by the page that each of them goes to.
PagesOf(on) == IF Len(on) = 0 THEN 0 ELSE on[Len(on)]
Owned(on, c) == {i \in DOMAIN on : on[i] = c}
Cut(items, on) ==
  [c \in 1 .. PagesOf(on) |-> SubSeq(items, Min(Owned(on, c)), Max(Owned(on, c)))]

\* The fewest pages, filled evenly; an append after the last key fills each.
Partition(items, appending) ==
  LET greedy == FillGreedily(items)
      balanced == Spread(items, PagesOf(greedy))
      fits == \A c \in 1 .. PagesOf(greedy) :
                Owned(balanced, c) # {} /\ CostOf(items, Owned(balanced, c)) <= PageBytes
  IN Cut(items, IF PagesOf(greedy) < 2 \/ appending \/ ~fits THEN greedy ELSE balanced)

HoleBytes(chunk) ==
  UNION {{i} \X (1 .. chunk[i].size) : i \in {i \in DOMAIN chunk : chunk[i].row = Free}}
PageOf(chunk) ==
  [slots |-> [i \in DOMAIN chunk |-> chunk[i].row], holes |-> Cardinality(HoleBytes(chunk))]

\* Allocate the pages, then move the suffix right from its last page.
ShiftSuffix(f, target, by) ==
  LET last == Len(f.pages)
  IN IF by = 0 THEN <<>>
     ELSE [i \in 1..(2 * by) |-> AllocatePage(last + (i + 1) \div 2)[2 - (i % 2)]]
          \o [i \in 1..(last - target) |->
                WritePage(last + 1 - i + by, f.pages[last + 1 - i])]

SplitInsertion(f, row) ==
  LET target == TargetPage(f, Key(row))
      p == f.pages[target]
      appending == target = Len(f.pages) /\ Position(p, Key(row)) = Cardinality(Live(p)) + 1
  IN [target |-> target, chunks |-> Partition(ItemsWith(p, row), appending)]

\* Fault: the counters are stored before the pages they count.
CountersFirst(f, row) ==
  IF Len(f.pages) = 0
  THEN AllocatePage(1) \o <<WriteMeta(1, f.meta.deleted, 1), WritePage(1, PutRow(EmptyPage, row))>>
  ELSE LET s == SplitInsertion(f, row)
           more == Len(s.chunks) - 1
       IN ShiftSuffix(f, s.target, more)
          \o <<WriteMeta(f.meta.active + 1, f.meta.deleted, f.meta.pages + more)>>
          \o [c \in DOMAIN s.chunks |-> WritePage(s.target + c - 1, PageOf(s.chunks[c]))]

SequentialWrites(f, row) ==
  IF Len(f.pages) = 0
  THEN AllocatePage(1) \o <<WritePage(1, PutRow(EmptyPage, row)), WriteMeta(1, f.meta.deleted, 1)>>
  ELSE LET s == SplitInsertion(f, row)
           more == Len(s.chunks) - 1
       IN ShiftSuffix(f, s.target, more)
          \o [c \in DOMAIN s.chunks |-> WritePage(s.target + c - 1, PageOf(s.chunks[c]))]
          \o <<WriteMeta(f.meta.active + 1, f.meta.deleted, f.meta.pages + more)>>

SequentialRid(f, row) ==
  IF Len(f.pages) = 0 THEN <<1, 1>>
  ELSE LET s == SplitInsertion(f, row)
           c == CHOOSE c \in DOMAIN s.chunks : \E i \in DOMAIN s.chunks[c] : s.chunks[c][i].new
       IN <<s.target + c - 1, CHOOSE i \in DOMAIN s.chunks[c] : s.chunks[c][i].new>>

-----------------------------------------------------------------------------
\* Reorganisation writes the live rows to a compact file beside this one,
\* checks it, and replaces this file by it.
Compacted(f) ==
  LET scan == Scan(f)
      items == [i \in DOMAIN scan |-> RowItem(scan[i][2], FALSE)]
      chunks == Cut(items, FillGreedily(items))
  IN [pages |-> [c \in DOMAIN chunks |-> PageOf(chunks[c])],
      allocated |-> Len(chunks),
      meta |-> [active |-> ActiveRows(f), deleted |-> 0, pages |-> Len(chunks)]]

\* No larger key lies before a smaller one.
IsOrdered(f) ==
  LET s == Scan(f)
  IN \A i \in 1..(Len(s) - 1) : Key(s[i][2]) <= Key(s[i + 1][2])
=============================================================================
