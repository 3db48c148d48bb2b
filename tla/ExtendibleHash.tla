--------------------------- MODULE ExtendibleHash ---------------------------
(***************************************************************************)
(* The hash index of engine/indexes/extendible_hash.py: a directory of     *)
(* 2^depth aliases addressed by the low bits of a hash, buckets with a     *)
(* local depth, splits planned in memory before a page is touched, and     *)
(* deletion that keeps the topology.  A file is a value: the header's      *)
(* counters, the chain of directory pages, the aliases and the buckets by  *)
(* page number.  Page zero is the header; pages count from one.            *)
(***************************************************************************)
EXTENDS Integers, SequencesExt

CONSTANTS HashOf,          \* the hash of every key
          BucketMax,       \* associations a bucket page holds
          InitialDepth,    \* initial_global_depth
          MaxDepth,        \* maximum_global_depth
          AliasesPerPage   \* directory entries a directory page holds

\* directory_index: the low d bits of a hash.
LowBits(h, d) == h % 2^d
Bit(h, d) == (h \div 2^d) % 2

Bucket(depth, es) == [depth |-> depth, entries |-> es]
Targets(f) == {f.aliases[i] : i \in DOMAIN f.aliases}
Routed(f, k) == f.aliases[LowBits(HashOf[k], f.depth)]

\* How many directory pages n aliases need.
DirectoryPages(n) == (n + AliasesPerPage - 1) \div AliasesPerPage

\* create: the directory pages of the initial depth, then one empty bucket
\* for each of its aliases.
EmptyHash ==
  LET n == 2^InitialDepth
      d == DirectoryPages(n)
  IN [depth |-> InitialDepth, directory |-> [i \in 1..d |-> i],
      aliases |-> [i \in 0..(n - 1) |-> d + 1 + i],
      buckets |-> [p \in (d + 1)..(d + n) |-> Bucket(InitialDepth, {})],
      count |-> 0, bucketCount |-> n, pages |-> d + n]

\* search: one bucket is read, and equality is decided with the whole key.
SearchHash(f, k) == {e[2] : e \in {x \in f.buckets[Routed(f, k)].entries : x[1] = k}}

-----------------------------------------------------------------------------
(* _plan_split_insert works on a plan: the directory it would publish, and *)
(* the buckets it touches.  A bucket without a page yet has a negative     *)
(* number.                                                                 *)

\* Divide an overflowing bucket by the next bit of its hashes; a bucket as
\* deep as the directory doubles the directory first.
SplitOnce(plan, b) ==
  LET old == plan.buckets[b]
      new == -1 - plan.splits
      doubles == old.depth = plan.depth
      depth == IF doubles THEN plan.depth + 1 ELSE plan.depth
      aliases == [i \in 0..(2^depth - 1) |-> plan.aliases[LowBits(i, plan.depth)]]
      Side(bit) == Bucket(old.depth + 1, {e \in old.entries : Bit(HashOf[e[1]], old.depth) = bit})
  IN [depth |-> depth,
      splits |-> plan.splits + 1,
      aliases |-> [i \in DOMAIN aliases |->
                     IF aliases[i] = b /\ Bit(i, old.depth) = 1 THEN new ELSE aliases[i]],
      buckets |-> [plan.buckets EXCEPT ![b] = Side(0)] @@ (new :> Side(1))]

\* At most one planned bucket overflows: an insertion adds one association.
Overflowing(plan) == {b \in DOMAIN plan.buckets : Cardinality(plan.buckets[b].entries) > BucketMax}

\* Full hashes that are equal are never separated, and no bucket goes deeper
\* than the maximum: both refusals come before any page is written.
CannotSplit(plan, b) ==
  \/ \A e, x \in plan.buckets[b].entries : HashOf[e[1]] = HashOf[x[1]]
  \/ plan.buckets[b].depth >= MaxDepth

RECURSIVE Planned(_)
Planned(plan) ==
  IF Overflowing(plan) = {} THEN [full |-> FALSE, plan |-> plan]
  ELSE LET b == CHOOSE x \in Overflowing(plan) : TRUE
       IN IF CannotSplit(plan, b) THEN [full |-> TRUE, plan |-> plan]
          ELSE Planned(SplitOnce(plan, b))

\* _publish_split_plan: new buckets take the next pages in the order they
\* were planned, then the directory takes the pages it lacks.
Publish(f, plan) ==
  LET Page(b) == IF b > 0 THEN b ELSE f.pages - b
      withBuckets == f.pages + plan.splits
      lacking == DirectoryPages(2^plan.depth) - Len(f.directory)
      written == [p \in {Page(b) : b \in DOMAIN plan.buckets} |->
                    plan.buckets[IF p > f.pages THEN f.pages - p ELSE p]]
  IN [depth |-> plan.depth,
      directory |-> f.directory \o [i \in 1..lacking |-> withBuckets + i],
      aliases |-> [i \in DOMAIN plan.aliases |-> Page(plan.aliases[i])],
      buckets |-> written @@ f.buckets,
      count |-> f.count + 1,
      bucketCount |-> f.bucketCount + plan.splits,
      pages |-> withBuckets + lacking]

\* insert: its verdict and the file it leaves.
InsertHash(f, u, e) ==
  LET p == Routed(f, e[1])
      old == f.buckets[p]
      grown == Bucket(old.depth, old.entries \cup {e})
      planned == Planned([depth |-> f.depth, splits |-> 0, aliases |-> f.aliases,
                          buckets |-> p :> grown])
      Result(verdict, file) == [verdict |-> verdict, file |-> file]
  IN IF e \in old.entries THEN Result("exists", f)
     ELSE IF u /\ \E x \in old.entries : x[1] = e[1] THEN Result("duplicate", f)
     ELSE IF Cardinality(grown.entries) <= BucketMax
          THEN Result("absent", [f EXCEPT !.buckets[p] = grown, !.count = @ + 1])
     ELSE IF planned.full THEN Result("full", f)
     ELSE Result("absent", Publish(f, planned.plan))

HashKnows(f, e) == e \in f.buckets[Routed(f, e[1])].entries

\* delete: the bucket is rewritten, never merged, and the count goes down.
DeleteHash(f, e) ==
  [f EXCEPT !.buckets[Routed(f, e[1])].entries = @ \ {e}, !.count = @ - 1]

\* rebuild_from_storage: the rows in scan order into a new file.  A row that
\* does not fit makes the build fail and the old file stays.
BuildHash(rows, u) ==
  FoldLeft(LAMBDA f, e : IF f = <<>> THEN f
                         ELSE LET done == InsertHash(f, u, e)
                              IN IF done.verdict = "full" THEN <<>> ELSE done.file,
           EmptyHash, rows)

HashEntries(f) == UNION {f.buckets[p].entries : p \in Targets(f)}

-----------------------------------------------------------------------------
(* validate_structure, check by check. *)
AliasesOf(f, p) == {i \in DOMAIN f.aliases : f.aliases[i] = p}
AliasesMatchDepth(f) ==
  \A p \in Targets(f) :
    LET d == f.buckets[p].depth
    IN /\ d <= f.depth
       /\ Cardinality(AliasesOf(f, p)) = 2^(f.depth - d)
       /\ \A i, j \in AliasesOf(f, p) : LowBits(i, d) = LowBits(j, d)
EntriesAreRouted(f, u) ==
  \A p \in Targets(f) : \A e \in f.buckets[p].entries :
    /\ Routed(f, e[1]) = p
    /\ u => \A x \in f.buckets[p].entries : x[1] = e[1] => x = e
HashCountsAgree(f) ==
  /\ f.count = Cardinality(HashEntries(f))
  /\ f.bucketCount = Cardinality(Targets(f))
  /\ DOMAIN f.aliases = 0..(2^f.depth - 1)
  /\ Len(f.directory) = DirectoryPages(2^f.depth)
\* Every page after the header is a directory page or a reachable bucket.
NoOrphanPages(f) ==
  /\ IsInjective(f.directory)
  /\ ToSet(f.directory) \cap Targets(f) = {}
  /\ ToSet(f.directory) \cup Targets(f) = 1..f.pages
  /\ DOMAIN f.buckets = Targets(f)
ValidHash(f, u) ==
  /\ AliasesMatchDepth(f)
  /\ EntriesAreRouted(f, u)
  /\ HashCountsAgree(f)
  /\ NoOrphanPages(f)
  /\ f.depth <= MaxDepth
  /\ \A p \in Targets(f) : Cardinality(f.buckets[p].entries) <= BucketMax
=============================================================================
