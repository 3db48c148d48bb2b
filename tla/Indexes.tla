------------------------------- MODULE Indexes -------------------------------
(***************************************************************************)
(* The index structures of the engine (engine/indexes, engine/spatial and  *)
(* engine/text): an index of some kind is built from the rows of its       *)
(* table, then takes insertions, deletions and rebuilds; the inverted      *)
(* index of a text collection is built once, of documents that stay.  Each *)
(* structure implements the set of associations of IndexContract, the one  *)
(* of texts that of the terms with the documents they are in.              *)
(***************************************************************************)
EXTENDS Integers, SequencesExt

CONSTANTS Pairs,        \* the associations rows of the table may need
          Loads,        \* sets of associations an index is built over
          Probes,       \* the keys searched for
          Shapes,       \* the polygons searched
          MaxCalls,     \* bound: operations after the build
          LeafMax, InternalMax,
          HashOf, BucketMax, InitialDepth, MaxDepth, AliasesPerPage,
          PointOf, Capacity,
          Collections,  \* the documents of a text table, in the order of its heap
          Queries,      \* the texts searched for
          Limits,       \* the limits of those searches
          Builds,       \* a memory budget with a fan-in
          BlockBase, TermCost, PostingCost

Keys == {e[1] : e \in Pairs}
Rids == {e[2] : e \in Pairs}

BPlus == INSTANCE BPlusTree
Hash == INSTANCE ExtendibleHash
Spatial == INSTANCE RTree
Text == INSTANCE TextIndex

ASSUME IndexesAssumption ==
  /\ Keys \subseteq Int /\ Rids \subseteq Int
  /\ Loads \subseteq SUBSET Pairs
  /\ LeafMax \in Nat /\ LeafMax >= 3
  /\ InternalMax \in Nat /\ InternalMax >= 2
  /\ BucketMax \in Nat \ {0} /\ AliasesPerPage \in Nat \ {0}
  /\ InitialDepth \in 0..MaxDepth /\ MaxDepth \in Nat
  /\ Capacity \in Nat /\ Capacity >= 4
  /\ Keys \subseteq DOMAIN HashOf /\ Keys \subseteq DOMAIN PointOf
  /\ \A docs \in Collections : \A i \in DOMAIN docs :
       docs[i].id \in Rids /\ ToSet(docs[i].tokens) \subseteq Keys
  /\ Limits \subseteq Nat \cup {Text!Unlimited}
  /\ \A b \in Builds : b[1] \in Nat \ {0} /\ b[2] \in Nat /\ b[2] >= 2

VARIABLES kind,      \* the structure of the index
          index,     \* its file, with the documents if it indexes texts
          unique,    \* it refuses duplicate keys
          rows,      \* the associations that the calls so far established
          outcome,   \* the last call and how it ended: <<name, key, rid, verdict>>
          calls      \* operations so far

vars == <<kind, index, unique, rows, outcome, calls>>

Mutable == {"bplus", "hash", "rtree"}

-----------------------------------------------------------------------------
\* A heap is scanned in the order of row identifiers.
ScanOrder(es) ==
  [n \in 1..Cardinality(es) |->
     CHOOSE e \in es : Cardinality({f \in es : f[2] <= e[2]}) = n]
NoTwoRowsShareAKey(es) == \A e, f \in es : e[1] = f[1] => e = f

Built(k, es, u) ==
  CASE k = "bplus" -> BPlus!Build(ScanOrder(es), u)
    [] k = "hash" -> Hash!BuildHash(ScanOrder(es), u)
    [] k = "rtree" -> Spatial!BuildR(ScanOrder(es))

\* The associations in the index.
Contents ==
  CASE kind = "bplus" -> ToSet(BPlus!AllEntries(index))
    [] kind = "hash" -> Hash!HashEntries(index)
    [] kind = "rtree" -> {<<e.id, e.rid>> : e \in Spatial!ItemsUnder(index)}
    [] kind = "text" -> Text!TextContents(index.file)

\* CREATE INDEX over the rows a table has: a build that refuses one of the
\* rows publishes nothing.  A spatial identity is unique.
InitMutable ==
  /\ kind \in Mutable
  /\ unique \in (IF kind = "rtree" THEN {TRUE} ELSE BOOLEAN)
  /\ rows \in Loads
  /\ unique => NoTwoRowsShareAKey(rows)
  /\ index = Built(kind, rows, unique)
  /\ index # <<>>

\* A text collection is indexed before it is sealed, if no document needs more
\* than the budget.
InitText ==
  /\ kind = "text"
  /\ unique = FALSE
  /\ \E docs \in Collections, build \in Builds :
       /\ index = [docs |-> docs, file |-> Text!BuildText(docs, build[1], build[2])]
       /\ rows = UNION {ToSet(docs[i].tokens) \X {docs[i].id} : i \in DOMAIN docs}
  /\ index.file # <<>>

Init ==
  /\ InitMutable \/ InitText
  /\ outcome = <<>>
  /\ calls = 0

\* A call ended with a verdict; "done" is a promise to the caller.
Ended(call, k, r, verdict) ==
  /\ outcome' = <<call, k, r, verdict>>
  /\ rows' = IF verdict # "done" THEN rows
             ELSE IF call = "insert" THEN rows \cup {<<k, r>>} ELSE rows \ {<<k, r>>}
  /\ calls' = calls + 1
  /\ UNCHANGED <<kind, unique>>

\* Adding an association that is there is a no-op.
Verdict(v) == IF v \in {"absent", "exists"} THEN "done" ELSE v

InsertBPlus(k, r) ==
  LET done == BPlus!InsertEntry(index, unique, <<k, r>>)
  IN /\ kind = "bplus"
     /\ index' = done.tree
     /\ Ended("insert", k, r, Verdict(done.verdict))

InsertHash(k, r) ==
  LET done == Hash!InsertHash(index, unique, <<k, r>>)
  IN /\ kind = "hash"
     /\ index' = done.file
     /\ Ended("insert", k, r, Verdict(done.verdict))

\* SpatialIndex.validate_insert refuses an identity that is there; inserted
\* then adds the row the heap has just stored, whose identifier is new.
InsertSpatial(k, r) ==
  /\ kind = "rtree"
  /\ \A e \in rows : e[2] # r
  /\ IF \E e \in rows : e[1] = k
     THEN Ended("insert", k, r, "duplicate") /\ UNCHANGED index
     ELSE /\ index' = Spatial!InsertR(index, Spatial!Entry(k, r))
          /\ Ended("insert", k, r, "done")

Insert(k, r) ==
  /\ calls < MaxCalls
  /\ InsertBPlus(k, r) \/ InsertHash(k, r) \/ InsertSpatial(k, r)

\* The spatial index is rebuilt from the rows that are left.
Without(k, r) ==
  CASE kind = "bplus" -> BPlus!DeleteEntry(index, <<k, r>>)
    [] kind = "hash" -> Hash!DeleteHash(index, <<k, r>>)
    [] kind = "rtree" -> Built(kind, rows \ {<<k, r>>}, unique)
KnowsIt(k, r) ==
  CASE kind = "bplus" -> BPlus!Knows(index, <<k, r>>)
    [] kind = "hash" -> Hash!HashKnows(index, <<k, r>>)
    [] kind = "rtree" -> <<k, r>> \in rows

Delete(k, r) ==
  /\ kind \in Mutable
  /\ calls < MaxCalls
  /\ IF KnowsIt(k, r)
     THEN index' = Without(k, r) /\ Ended("delete", k, r, "done")
     ELSE UNCHANGED index /\ Ended("delete", k, r, "unknown")

\* rebuild_from_storage, over the rows the index covers: the new file replaces
\* the old one when it is complete.
Rebuild ==
  LET new == Built(kind, rows, unique)
  IN /\ kind \in Mutable
     /\ calls < MaxCalls
     /\ index' = IF new = <<>> THEN index ELSE new
     /\ outcome' = <<>>
     /\ calls' = calls + 1
     /\ UNCHANGED <<kind, unique, rows>>

Next ==
  \/ \E e \in Pairs : Insert(e[1], e[2]) \/ Delete(e[1], e[2])
  \/ Rebuild

Spec == Init /\ [][Next]_vars

-----------------------------------------------------------------------------
(* Each index passes its own structural validation after every operation:  *)
(* node fill, separators, the leaf chain and page ownership of the B+ tree *)
(* (validate_structure), alias counts, routing and page ownership of the   *)
(* hash file, coverage and balance of the R-tree.  However many blocks and *)
(* merges it took, the lexicon of a text index is in order and covers the  *)
(* postings, which add up to the lengths and norms of the documents        *)
(* (text/index.py _load, validate).                                        *)
StructureIsValid ==
  CASE kind = "bplus" -> BPlus!ValidStructure(index, unique)
    [] kind = "hash" -> Hash!ValidHash(index, unique)
    [] kind = "rtree" -> Spatial!ValidRTree(index)
    [] kind = "text" -> Text!ValidText(index.file)

\* Searches of the ordered and the hashed structure find exactly the
\* associations they ask for; a range comes back in the order of the keys.
Bounds == {<<>>} \cup {<<k>> : k \in Probes}
InRange(e, lo, hi, b, c) ==
  /\ lo = <<>> \/ e[1] > lo[1] \/ (b /\ e[1] = lo[1])
  /\ hi = <<>> \/ e[1] < hi[1] \/ (c /\ e[1] = hi[1])
RangeAgrees(lo, hi, b, c) ==
  LET found == BPlus!RangeEntries(index, lo, hi, b, c)
  IN /\ ToSet(found) = {e \in rows : InRange(e, lo, hi, b, c)}
     /\ \A i \in 1..(Len(found) - 1) : BPlus!Below(found[i], found[i + 1])
SpatialAgrees(center) ==
  LET all == Spatial!ItemsUnder(index)
      First(k) == {e \in all : Cardinality({x \in all : Spatial!Lex(Spatial!Rank(center, x),
                                                                    Spatial!Rank(center, e))}) < k}
  IN \A metric \in Spatial!Metrics :
       /\ \A k \in 0..4 : Spatial!Knn(index, center, k, metric) = First(k)
       /\ \A d \in {Spatial!Distance(center, e.box.lo) : e \in all}, inclusive \in BOOLEAN :
            Spatial!RadiusUnder(index, center, d, inclusive, metric)
              = {e \in all : Spatial!Within(e, center, d, inclusive)}

\* The answer of a search is the documents that share a term with the query, in
\* the order asked for, up to the limit; TextIndexScan and TextScan give the same.
TextAgrees(model, query, order) ==
  LET Search(limit, useIndexes) ==
        Text!SearchText(index.file, index.docs, model, query, order, limit, useIndexes)
      all     == Search(Text!Unlimited, FALSE)
      Asked(n) == IF n = Text!Unlimited \/ n > Len(all) THEN all ELSE SubSeq(all, 1, n)
  IN /\ {all[i].id : i \in DOMAIN all} =
          {index.docs[i].id : i \in {j \in DOMAIN index.docs :
             ToSet(index.docs[j].tokens) \cap ToSet(query) # {}}}
     /\ \A i \in 1..(Len(all) - 1) : Text!Before(order, all[i], all[i + 1])
     /\ \A n \in Limits, useIndexes \in BOOLEAN : Search(n, useIndexes) = Asked(n)

StructureSearchesAgree ==
  CASE kind = "bplus" ->
         \A lo, hi \in Bounds, b, c \in BOOLEAN :
           (lo = <<>> \/ hi = <<>> \/ lo[1] <= hi[1]) => RangeAgrees(lo, hi, b, c)
    [] kind = "hash" ->
         \A k \in Keys : Hash!SearchHash(index, k) = {e[2] : e \in {x \in rows : x[1] = k}}
    [] kind = "rtree" ->
         /\ \A k \in Probes : SpatialAgrees(PointOf[k])
         /\ \A poly \in Shapes : Spatial!PolygonUnder(index, poly)
                                   = {e \in Spatial!ItemsUnder(index) : Spatial!Encloses(poly, e.box.lo)}
    [] kind = "text" ->
         \A model \in Text!Models, query \in Queries, order \in Text!Orders :
           TextAgrees(model, query, order)

\* What is read through the structure of an index is what a scan of its
\* associations would find: ranges with every kind of bound, rows of a key,
\* points within a radius, the nearest k with ties by identity, points in a
\* polygon, documents by the rank of a query.
SearchesAgree ==
  /\ Contents = rows
  /\ StructureSearchesAgree

\* The associations that a bounded structure has no room for: more rows than
\* a bucket holds share the bits of the deepest directory.
Crowded ==
  IF kind # "hash" THEN {}
  ELSE {e \in Pairs : LET Near(x) == Hash!LowBits(HashOf[x[1]], MaxDepth)
                                       = Hash!LowBits(HashOf[e[1]], MaxDepth)
                      IN Cardinality({x \in rows \cup {e} : Near(x)}) > BucketMax}

\* Every structure implements the set of associations that indexes/base.py
\* promises, and refuses a row for want of room only when it must.
Contract == INSTANCE IndexContract WITH entries <- rows, crowded <- Crowded
ImplementsContract == Contract!Spec
=============================================================================
