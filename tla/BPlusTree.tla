------------------------------ MODULE BPlusTree ------------------------------
(***************************************************************************)
(* The B+ tree of engine/indexes/bplus_tree.py: duplicate-aware descent,   *)
(* splits that promote upwards, deletion that borrows from a sibling or    *)
(* merges with it and may cascade to the root, separators that are the     *)
(* minimum of the subtree on their right, a forward chain of leaves and a  *)
(* free list of released pages.  A tree is a value, as the file is: the    *)
(* header of page zero and one node per page.  A page number is an index   *)
(* of "nodes" and Nil is the null pointer.                                 *)
(***************************************************************************)
EXTENDS Integers, SequencesExt

CONSTANTS Keys,         \* the keys of the indexed column
          Rids,         \* row identifiers, ordered as numbers
          LeafMax,      \* entries a leaf page holds
          InternalMax   \* separators an internal page holds

Nil == 0
LeafMin == (LeafMax + 1) \div 2
InternalMin == ((InternalMax + 2) \div 2) - 1

Leaf(es, next) == [type |-> "leaf", entries |-> es, next |-> next]
Internal(ks, cs) == [type |-> "internal", keys |-> ks, children |-> cs]
Free(next) == [type |-> "free", next |-> next]

EmptyTree == [root |-> Nil, first |-> Nil, height |-> 0, count |-> 0,
              free |-> Nil, nodes |-> <<>>]

Write(t, p, node) == [t EXCEPT !.nodes[p] = node]

\* The order of the entries of a tree: by key, then by row identifier.
Below(e, f) == e[1] < f[1] \/ (e[1] = f[1] /\ e[2] < f[2])

-----------------------------------------------------------------------------
(* Reading. *)

\* Extend a path to the leftmost leaf under page p.
RECURSIVE Leftmost(_, _, _)
Leftmost(t, p, path) ==
  IF t.nodes[p].type = "leaf"
  THEN [leaf |-> p, path |-> path]
  ELSE Leftmost(t, t.nodes[p].children[1], Append(path, [page |-> p, child |-> 1]))

\* descend: the first leaf that can hold the key, and the ancestors on the
\* way, each with the child taken: one past the separators below the key.
RECURSIVE DescendFrom(_, _, _, _)
DescendFrom(t, k, p, path) ==
  IF t.nodes[p].type = "leaf"
  THEN [leaf |-> p, path |-> path]
  ELSE LET c == 1 + Cardinality({i \in DOMAIN t.nodes[p].keys : t.nodes[p].keys[i] < k})
       IN DescendFrom(t, k, t.nodes[p].children[c], Append(path, [page |-> p, child |-> c]))
Descend(t, k) == DescendFrom(t, k, t.root, <<>>)

\* _successor_descent: advance the deepest ancestor that has a next child.
Advances(t, d) ==
  {i \in DOMAIN d.path : d.path[i].child < Len(t.nodes[d.path[i].page].children)}
Successor(t, d) ==
  LET i == Max(Advances(t, d))
      step == [d.path[i] EXCEPT !.child = @ + 1]
  IN Leftmost(t, t.nodes[step.page].children[step.child],
              Append(SubSeq(d.path, 1, i - 1), step))

\* _locate_leaf_entry: where <<k, r>> is or belongs, across the leaves that a
\* group of equal keys spans.
RECURSIVE Locate(_, _, _, _)
Locate(t, u, e, d) ==
  LET es == t.nodes[d.leaf].entries
      above == {i \in DOMAIN es : Below(e, es[i])}
      found(at, verdict, pos) == [at |-> at, verdict |-> verdict, pos |-> pos]
      s == Successor(t, d)
      first == t.nodes[s.leaf].entries[1]
  IN CASE e \in ToSet(es) -> found(d, "exists", 0)
       [] e \notin ToSet(es) /\ u /\ (\E i \in DOMAIN es : es[i][1] = e[1])
            -> found(d, "duplicate", 0)
       [] OTHER ->
          IF above # {} THEN found(d, "absent", Min(above))
          ELSE IF Advances(t, d) = {} THEN found(d, "absent", Len(es) + 1)
          ELSE IF u /\ first[1] = e[1]
               THEN found(s, IF first = e THEN "exists" ELSE "duplicate", 0)
          ELSE IF Below(e, first) THEN found(d, "absent", Len(es) + 1)
          ELSE Locate(t, u, e, s)

\* Fault: only the leaf that the descent reaches is searched.
LocateInOneLeaf(t, e, d) ==
  LET here == {i \in DOMAIN t.nodes[d.leaf].entries : t.nodes[d.leaf].entries[i] = e}
  IN [at |-> d, pos |-> IF here = {} THEN 0 ELSE Min(here)]

\* _locate_existing_entry: the leaf and position of an association, or pos 0.
RECURSIVE LocateExisting(_, _, _)
LocateExisting(t, e, d) ==
  LET es == t.nodes[d.leaf].entries
      here == {i \in DOMAIN es : es[i] = e}
      s == Successor(t, d)
  IN IF here # {} THEN [at |-> d, pos |-> Min(here)]
     ELSE IF \/ \E i \in DOMAIN es : Below(e, es[i])
             \/ Advances(t, d) = {}
             \/ Below(e, t.nodes[s.leaf].entries[1])
          THEN [at |-> d, pos |-> 0]
     ELSE LocateExisting(t, e, s)

\* The entries met by following next-leaf links from page p.  A chain longer
\* than the file would be a cycle, which _read_next_leaf refuses.
RECURSIVE ChainFrom(_, _, _)
ChainFrom(t, p, fuel) ==
  IF p = Nil \/ fuel = 0 THEN <<>>
  ELSE t.nodes[p].entries \o ChainFrom(t, t.nodes[p].next, fuel - 1)

\* range_entries: the entries between two bounds, read from the leaf the lower
\* bound descends to, or from the first leaf, until one passes the upper bound.
RangeEntries(t, lower, upper, includeLower, includeUpper) ==
  IF t.count = 0 THEN <<>>
  ELSE LET start == IF lower = <<>> THEN t.first ELSE Descend(t, lower[1]).leaf
           chain == ChainFrom(t, start, Len(t.nodes))
           past == {i \in DOMAIN chain :
                      /\ upper # <<>>
                      /\ chain[i][1] > upper[1] \/ (chain[i][1] = upper[1] /\ ~includeUpper)}
           read == IF past = {} THEN chain ELSE SubSeq(chain, 1, Min(past) - 1)
           Above(e) == lower = <<>> \/ e[1] > lower[1] \/ (e[1] = lower[1] /\ includeLower)
       IN SelectSeq(read, Above)

\* search: the rows of one key.
SearchKey(t, k) ==
  [i \in DOMAIN RangeEntries(t, <<k>>, <<k>>, TRUE, TRUE) |->
     RangeEntries(t, <<k>>, <<k>>, TRUE, TRUE)[i][2]]

-----------------------------------------------------------------------------
(* Pages, separators and insertion. *)

\* _allocate_node_page: pop the free list, or append a page.
Allocate(t) ==
  IF t.free = Nil
  THEN [tree |-> [t EXCEPT !.nodes = Append(@, Free(Nil))], page |-> Len(t.nodes) + 1]
  ELSE [tree |-> [t EXCEPT !.free = t.nodes[t.free].next], page |-> t.free]

\* _register_free_page: push a page on the free list.
Release(t, p) == [Write(t, p, Free(t.free)) EXCEPT !.free = p]

InsertFirst(t, e) ==
  LET a == Allocate(t)
  IN [Write(a.tree, a.page, Leaf(<<e>>, Nil))
        EXCEPT !.root = a.page, !.first = a.page, !.height = 1, !.count = 1]

\* _propagate_split: put the new page beside its left half in the parent; a
\* full parent splits, promotes its middle separator, and goes on upwards.
RECURSIVE Propagate(_, _, _, _, _)
Propagate(t, path, separator, left, right) ==
  IF path = <<>>
  THEN LET a == Allocate(t)
       IN [Write(a.tree, a.page, Internal(<<separator>>, <<left, right>>))
             EXCEPT !.root = a.page, !.height = @ + 1]
  ELSE LET parent == Last(path).page
           c == Last(path).child
           ks == InsertAt(t.nodes[parent].keys, c, separator)
           cs == InsertAt(t.nodes[parent].children, c + 1, right)
           m == (Len(ks) \div 2) + 1
           a == Allocate(t)
           halves == Write(Write(a.tree, a.page,
                                 Internal(SubSeq(ks, m + 1, Len(ks)), SubSeq(cs, m + 1, Len(cs)))),
                           parent, Internal(SubSeq(ks, 1, m - 1), SubSeq(cs, 1, m)))
       IN IF Len(ks) <= InternalMax
          THEN Write(t, parent, Internal(ks, cs))
          ELSE Propagate(halves, Front(path), ks[m], parent, a.page)

\* insert, once the place is known: one leaf page, or a leaf split.
InsertAtPlace(t, e, place) ==
  LET p == place.at.leaf
      es == InsertAt(t.nodes[p].entries, place.pos, e)
      half == Len(es) \div 2
      a == Allocate(t)
      right == SubSeq(es, half + 1, Len(es))
      halves == Write(Write(a.tree, a.page, Leaf(right, t.nodes[p].next)),
                      p, Leaf(SubSeq(es, 1, half), a.page))
      grown == IF Len(es) <= LeafMax
               THEN Write(t, p, Leaf(es, t.nodes[p].next))
               ELSE Propagate(halves, place.at.path, right[1][1], p, a.page)
  IN [grown EXCEPT !.count = @ + 1]

\* insert as a whole: its verdict and the tree it leaves.
InsertEntry(t, u, e) ==
  IF t.count = 0 THEN [verdict |-> "absent", tree |-> InsertFirst(t, e)]
  ELSE LET place == Locate(t, u, e, Descend(t, e[1]))
       IN [verdict |-> place.verdict,
           tree |-> IF place.verdict = "absent" THEN InsertAtPlace(t, e, place) ELSE t]

-----------------------------------------------------------------------------
(* Deletion. *)

\* Fault: only the parent's separator is looked at.
UpdateMinimumInParent(t, path, minimum) ==
  IF path = <<>> \/ Last(path).child = 1 THEN t
  ELSE [t EXCEPT !.nodes[Last(path).page].keys[Last(path).child - 1] = minimum]

\* _update_minimum_in_ancestors: the nearest ancestor entered by a child other
\* than its first holds the separator of the changed minimum.
UpdateMinimum(t, path, minimum) ==
  LET inner == {i \in DOMAIN path : path[i].child > 1}
      step == path[Max(inner)]
  IN IF inner = {} THEN t
     ELSE [t EXCEPT !.nodes[step.page].keys[step.child - 1] = minimum]

\* _subtree_minimum
SubtreeMinimum(t, p) == t.nodes[Leftmost(t, p, <<>>).leaf].entries[1][1]

\* Replace two adjacent children of a parent by the page that merged them.
Merged(node, c) == Internal(RemoveAt(node.keys, c), RemoveAt(node.children, c + 1))

\* _repair_internal_underflow: borrow a child from the left or the right
\* sibling, or merge with one and go on with the parent.
RECURSIVE RepairInternal(_, _, _, _, _)
RepairInternal(t, p, node, path, minimum) ==
  IF path = <<>> THEN Write(t, p, node)
  ELSE IF Len(node.keys) >= InternalMin
  THEN UpdateMinimum(Write(t, p, node), path, minimum)
  ELSE LET parent == Last(path).page
           c == Last(path).child
           up == IF c = 1 THEN t.nodes[parent]
                 ELSE [t.nodes[parent] EXCEPT !.keys[c - 1] = minimum]
           Sibling(i) == t.nodes[up.children[i]]
           Lends(i) == i \in DOMAIN up.children /\ Len(Sibling(i).keys) > InternalMin
           fromLeft ==
             LET l == Sibling(c - 1)
             IN Write(Write(Write(t, up.children[c - 1], Internal(Front(l.keys), Front(l.children))),
                            p, Internal(<<up.keys[c - 1]>> \o node.keys,
                                        <<Last(l.children)>> \o node.children)),
                      parent, [up EXCEPT !.keys[c - 1] = Last(l.keys)])
           fromRight ==
             LET r == Sibling(c + 1)
             IN Write(Write(Write(t, p, Internal(Append(node.keys, up.keys[c]),
                                                 Append(node.children, r.children[1]))),
                            up.children[c + 1], Internal(Tail(r.keys), Tail(r.children))),
                      parent, [up EXCEPT !.keys[c] = r.keys[1]])
           \* merge children i and i + 1, whose node values are l and r
           Join(i, l, r) ==
             LET both == Internal(l.keys \o <<up.keys[i]>> \o r.keys, l.children \o r.children)
                 parentNode == Merged(up, i)
                 joined == Write(Release(Write(t, up.children[i], both), up.children[i + 1]),
                                 parent, parentNode)
             IN RepairInternal(joined, parent, parentNode, Front(path),
                               SubtreeMinimum(joined, parentNode.children[1]))
       IN CASE Lends(c - 1) -> fromLeft
            [] ~Lends(c - 1) /\ Lends(c + 1) ->
                 IF c = 1 THEN UpdateMinimum(fromRight, Front(path), minimum) ELSE fromRight
            [] OTHER -> IF c > 1 THEN Join(c - 1, Sibling(c - 1), node)
                                 ELSE Join(c, node, Sibling(c + 1))

\* _repair_leaf_underflow: the same for a leaf left with the entries es.
RepairLeaf(t, d, es, minimumChanged) ==
  LET path == d.path
      parent == Last(path).page
      c == Last(path).child
      up == t.nodes[parent]
      Sibling(i) == t.nodes[up.children[i]]
      Lends(i) == i \in DOMAIN up.children /\ Len(Sibling(i).entries) > LeafMin
      fromLeft ==
        LET l == Sibling(c - 1)
        IN Write(Write(Write(t, up.children[c - 1], Leaf(Front(l.entries), l.next)),
                       d.leaf, Leaf(<<Last(l.entries)>> \o es, t.nodes[d.leaf].next)),
                 parent, [up EXCEPT !.keys[c - 1] = Last(l.entries)[1]])
      fromRight ==
        LET r == Sibling(c + 1)
            moved == Write(Write(t, d.leaf, Leaf(Append(es, r.entries[1]), t.nodes[d.leaf].next)),
                           up.children[c + 1], Leaf(Tail(r.entries), r.next))
            separators == [up.keys EXCEPT ![c] = r.entries[2][1]]
        IN IF c > 1
           THEN Write(moved, parent, [up EXCEPT !.keys = [separators EXCEPT ![c - 1] = es[1][1]]])
           ELSE LET done == Write(moved, parent, [up EXCEPT !.keys = separators])
                IN IF minimumChanged THEN UpdateMinimum(done, Front(path), es[1][1]) ELSE done
      \* merge children i and i + 1, whose entries are l and r
      Join(i, l, r, next, changed) ==
        LET parentNode == Merged(up, i)
            joined == Write(Release(Write(t, up.children[i], Leaf(l \o r, next)), up.children[i + 1]),
                            parent, parentNode)
            minimum == SubtreeMinimum(joined, parentNode.children[1])
        IN IF Len(path) = 1 THEN joined
           ELSE IF Len(parentNode.keys) < InternalMin
                THEN RepairInternal(joined, parent, parentNode, Front(path), minimum)
           ELSE IF changed THEN UpdateMinimum(joined, Front(path), minimum) ELSE joined
  IN CASE Lends(c - 1) -> fromLeft
       [] ~Lends(c - 1) /\ Lends(c + 1) -> fromRight
       [] OTHER -> IF c > 1
                   THEN Join(c - 1, Sibling(c - 1).entries, es, t.nodes[d.leaf].next, FALSE)
                   ELSE Join(c, es, Sibling(c + 1).entries, Sibling(c + 1).next, minimumChanged)

\* _shrink_root: an internal root without separators gives way to its child.
RECURSIVE ShrinkRoot(_)
ShrinkRoot(t) ==
  IF t.height > 1 /\ t.nodes[t.root].keys = <<>>
  THEN ShrinkRoot([Release(t, t.root) EXCEPT !.root = t.nodes[t.root].children[1],
                                             !.height = @ - 1])
  ELSE t

\* delete, for an association that is there.
DeleteEntry(t, e) ==
  LET place == LocateExisting(t, e, Descend(t, e[1]))
      d == place.at
      old == t.nodes[d.leaf].entries
      es == RemoveAt(old, place.pos)
      kept == Write(t, d.leaf, Leaf(es, t.nodes[d.leaf].next))
      minimumChanged == place.pos = 1 /\ es # <<>> /\ es[1][1] # old[1][1]
      repaired == IF d.path = <<>> THEN kept
                  ELSE IF Len(es) < LeafMin THEN RepairLeaf(t, d, es, minimumChanged)
                  ELSE IF minimumChanged THEN UpdateMinimum(kept, d.path, es[1][1])
                  ELSE kept
  IN IF t.count = 1
     THEN [Release(t, d.leaf) EXCEPT !.root = Nil, !.first = Nil, !.height = 0, !.count = 0]
     ELSE [ShrinkRoot(repaired) EXCEPT !.count = @ - 1]

\* Is the association reachable by the search that delete makes?
Knows(t, e) == t.count > 0 /\ LocateExisting(t, e, Descend(t, e[1])).pos # 0

-----------------------------------------------------------------------------
(* Rebuilding and validation. *)

\* rebuild_from_storage: the rows in scan order, inserted one by one into a
\* new file that replaces the old one.
Build(rows, u) ==
  FoldLeft(LAMBDA t, e : InsertEntry(t, u, e).tree, EmptyTree, rows)

\* The pages and the leaves, left to right, of the subtree under page p.
RECURSIVE PagesUnder(_, _)
PagesUnder(t, p) ==
  IF t.nodes[p].type = "leaf" THEN <<p>>
  ELSE <<p>> \o FlattenSeq([i \in DOMAIN t.nodes[p].children |->
                              PagesUnder(t, t.nodes[p].children[i])])
LeavesUnder(t, p) == SelectSeq(PagesUnder(t, p), LAMBDA q : t.nodes[q].type = "leaf")
LivePages(t) == IF t.root = Nil THEN <<>> ELSE PagesUnder(t, t.root)
LeafPages(t) == IF t.root = Nil THEN <<>> ELSE LeavesUnder(t, t.root)
AllEntries(t) == FlattenSeq([i \in DOMAIN LeafPages(t) |-> t.nodes[LeafPages(t)[i]].entries])

\* The pages of the free list.
RECURSIVE FreePages(_, _, _)
FreePages(t, p, fuel) ==
  IF p = Nil \/ fuel = 0 THEN <<>> ELSE <<p>> \o FreePages(t, t.nodes[p].next, fuel - 1)

RECURSIVE DepthsUnder(_, _)
DepthsUnder(t, p) ==
  IF t.nodes[p].type = "leaf" THEN {1}
  ELSE {1 + h : h \in UNION {DepthsUnder(t, c) : c \in ToSet(t.nodes[p].children)}}

\* validate_structure, check by check.
SeparatorsAreRightMinima(t) ==
  \A p \in ToSet(LivePages(t)) : t.nodes[p].type = "internal" =>
    \A i \in DOMAIN t.nodes[p].keys :
      t.nodes[p].keys[i] = SubtreeMinimum(t, t.nodes[p].children[i + 1])
NodesAreFilled(t) ==
  \A p \in ToSet(LivePages(t)) :
    IF t.nodes[p].type = "leaf"
    THEN /\ Len(t.nodes[p].entries) \in (IF p = t.root THEN 1 ELSE LeafMin)..LeafMax
    ELSE /\ Len(t.nodes[p].keys) \in (IF p = t.root THEN 1 ELSE InternalMin)..InternalMax
         /\ Len(t.nodes[p].children) = Len(t.nodes[p].keys) + 1
EntriesAreOrdered(t, u) ==
  LET all == AllEntries(t)
  IN \A i \in 1..(Len(all) - 1) :
       Below(all[i], all[i + 1]) /\ (u => all[i][1] # all[i + 1][1])
ChainIsTheLeaves(t) ==
  LET leaves == LeafPages(t)
  IN /\ t.first = IF leaves = <<>> THEN Nil ELSE leaves[1]
     /\ \A i \in DOMAIN leaves :
          t.nodes[leaves[i]].next = IF i = Len(leaves) THEN Nil ELSE leaves[i + 1]
PagesAreOwnedOnce(t) ==
  LET owned == LivePages(t) \o FreePages(t, t.free, Len(t.nodes) + 1)
  IN IsInjective(owned) /\ ToSet(owned) = DOMAIN t.nodes
ValidStructure(t, u) ==
  /\ t.height = 0 <=> t.root = Nil
  /\ t.root # Nil => DepthsUnder(t, t.root) = {t.height}
  /\ t.count = Len(AllEntries(t))
  /\ NodesAreFilled(t)
  /\ SeparatorsAreRightMinima(t)
  /\ EntriesAreOrdered(t, u)
  /\ ChainIsTheLeaves(t)
  /\ PagesAreOwnedOnce(t)

=============================================================================
