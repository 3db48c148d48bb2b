-------------------------------- MODULE RTree --------------------------------
(***************************************************************************)
(* The R-tree of engine/spatial: insertion by least enlargement, Guttman's *)
(* quadratic split, and radius, polygon and nearest-neighbour searches     *)
(* that prune by bounding boxes.  A node is a value with its items in      *)
(* order.  Points are pairs of integers, latitude first, and the distance  *)
(* of two points is the square of their planar distance: the code's two    *)
(* metrics differ here in the lower bound they allow a box, which is what  *)
(* pruning depends on.                                                     *)
(***************************************************************************)
EXTENDS Integers, SequencesExt

CONSTANTS PointOf,    \* the point of every key (the spatial identity)
          Capacity    \* items of a node

Minimum == Capacity \div 2
Metrics == {"haversine", "euclidean"}

-----------------------------------------------------------------------------
(* geometry.py: boxes, distances, polygons. *)
Least(a, b) == IF a <= b THEN a ELSE b
Most(a, b) == IF a >= b THEN a ELSE b
At(pt) == [lo |-> pt, hi |-> pt]
Cover(b, c) == [lo |-> [i \in 1..2 |-> Least(b.lo[i], c.lo[i])],
                 hi |-> [i \in 1..2 |-> Most(b.hi[i], c.hi[i])]]
Area(b) == (b.hi[1] - b.lo[1]) * (b.hi[2] - b.lo[2])
Enlargement(b, c) == Area(Cover(b, c)) - Area(b)
Covering(items) == IF items = <<>> THEN <<>>
                   ELSE FoldLeft(LAMBDA b, i : Cover(b, i.box), items[1].box, Tail(items))
Intersects(b, c) == \A i \in 1..2 : b.hi[i] >= c.lo[i] /\ c.hi[i] >= b.lo[i]

Distance(a, b) == (a[1] - b[1])^2 + (a[2] - b[2])^2
Gap(b, pt, i) == Most(Most(b.lo[i] - pt[i], 0), pt[i] - b.hi[i])
\* lower_bound: haversine counts the change of latitude alone.
LowerBound(b, pt, metric) ==
  Gap(b, pt, 1)^2 + (IF metric = "haversine" THEN 0 ELSE Gap(b, pt, 2)^2)

\* A polygon is the sequence of its vertices.
Edges(poly) == {<<poly[i], poly[(i % Len(poly)) + 1]>> : i \in DOMAIN poly}
Cross(a, b, p) == (b[2] - a[2]) * (p[1] - a[1]) - (b[1] - a[1]) * (p[2] - a[2])
OnEdge(a, b, p) == /\ Cross(a, b, p) = 0
                   /\ \A i \in 1..2 : Least(a[i], b[i]) <= p[i] /\ p[i] <= Most(a[i], b[i])
PolyBox(poly) == Covering([i \in DOMAIN poly |-> [box |-> At(poly[i])]])
\* The ray from p towards growing longitudes crosses the edge.
Crosses(a, b, p) ==
  /\ (a[1] > p[1]) # (b[1] > p[1])
  /\ LET rise == b[1] - a[1]
         run == (p[1] - a[1]) * (b[2] - a[2])
     IN IF rise > 0 THEN (p[2] - a[2]) * rise < run ELSE (p[2] - a[2]) * rise > run
Encloses(poly, p) ==
  /\ Intersects(PolyBox(poly), At(p))
  /\ \/ \E e \in Edges(poly) : OnEdge(e[1], e[2], p)
     \/ Cardinality({e \in Edges(poly) : Crosses(e[1], e[2], p)}) % 2 = 1

-----------------------------------------------------------------------------
(* Insertion. *)
Entry(id, rid) == [id |-> id, rid |-> rid, box |-> At(PointOf[id])]
Node(leaf, items) == [leaf |-> leaf, items |-> items, box |-> Covering(items)]
EmptyRTree == Node(TRUE, <<>>)

\* The order of tuples: the first component that differs decides.
Lex(s, t) == \E i \in DOMAIN s : s[i] < t[i] /\ \A j \in 1..(i - 1) : s[j] = t[j]
\* The index whose score comes first; scores end with what makes them differ.
FirstBy(S, Score(_)) == CHOOSE i \in S : \A j \in S \ {i} : Lex(Score(i), Score(j))

\* The child that the entry enlarges least.
ChildFor(node, e) ==
  FirstBy(DOMAIN node.items,
          LAMBDA i : LET c == node.items[i]
                     IN <<Enlargement(c.box, e.box), Area(c.box), Len(c.items), i>>)

\* The two items that would waste most area together.
Seeds(items) ==
  LET pairs == {<<i, j>> \in (DOMAIN items) \X (DOMAIN items) : i < j}
      Waste(p) == Area(Cover(items[p[1]].box, items[p[2]].box))
                  - Area(items[p[1]].box) - Area(items[p[2]].box)
  IN FirstBy(pairs, LAMBDA p : <<-Waste(p), p[1], p[2]>>)

\* Distribute the pending items over two groups, the one with the strongest
\* preference first; a group that needs all that is left takes it.
RECURSIVE Distribute(_, _, _)
Distribute(left, right, pending) ==
  LET lb == Covering(left)
      rb == Covering(right)
      Preference(i) == LET d == Enlargement(lb, pending[i].box) - Enlargement(rb, pending[i].box)
                       IN IF d < 0 THEN -d ELSE d
      n == FirstBy(DOMAIN pending, LAMBDA i : <<-Preference(i), i>>)
      item == pending[n]
      LeftCost == <<Enlargement(lb, item.box), Area(lb), Len(left)>>
      RightCost == <<Enlargement(rb, item.box), Area(rb), Len(right)>>
  IN IF pending = <<>> THEN <<left, right>>
     ELSE IF Len(left) + Len(pending) = Minimum THEN <<left \o pending, right>>
     ELSE IF Len(right) + Len(pending) = Minimum THEN <<left, right \o pending>>
     ELSE IF ~Lex(RightCost, LeftCost)
     THEN Distribute(Append(left, item), right, RemoveAt(pending, n))
     ELSE Distribute(left, Append(right, item), RemoveAt(pending, n))

Split(leaf, items) ==
  LET s == Seeds(items)
      others == RemoveAt(RemoveAt(items, s[2]), s[1])
      groups == Distribute(<<items[s[1]]>>, <<items[s[2]]>>, others)
  IN <<Node(leaf, groups[1]), Node(leaf, groups[2])>>

\* _insert: the node, and the sibling it was split from.
RECURSIVE InsertUnder(_, _)
InsertUnder(node, e) ==
  LET n == ChildFor(node, e)
      below == InsertUnder(node.items[n], e)
      items == IF node.leaf THEN Append(node.items, e)
               ELSE [node.items EXCEPT ![n] = below[1]] \o Tail(below)
  IN IF Len(items) > Capacity THEN Split(node.leaf, items) ELSE <<Node(node.leaf, items)>>

InsertR(t, e) ==
  LET nodes == InsertUnder(t, e)
  IN IF Len(nodes) = 1 THEN nodes[1] ELSE Node(FALSE, nodes)

\* SpatialIndex.rebuild: a new tree from the rows in scan order.
BuildR(rows) == FoldLeft(LAMBDA t, x : InsertR(t, Entry(x[1], x[2])), EmptyRTree, rows)

-----------------------------------------------------------------------------
(* Searches: sets of leaf items. *)
RECURSIVE ItemsUnder(_)
ItemsUnder(n) == IF n.leaf THEN ToSet(n.items) ELSE UNION {ItemsUnder(c) : c \in ToSet(n.items)}

Within(e, center, radius, inclusive) ==
  LET d == Distance(center, e.box.lo) IN d < radius \/ (inclusive /\ d = radius)

RECURSIVE RadiusUnder(_, _, _, _, _)
RadiusUnder(n, center, radius, inclusive, metric) ==
  IF n.box = <<>> \/ LowerBound(n.box, center, metric) > radius THEN {}
  ELSE IF n.leaf THEN {e \in ToSet(n.items) : Within(e, center, radius, inclusive)}
  ELSE UNION {RadiusUnder(c, center, radius, inclusive, metric) : c \in ToSet(n.items)}

RECURSIVE PolygonUnder(_, _)
PolygonUnder(n, poly) ==
  IF n.box = <<>> \/ ~Intersects(n.box, PolyBox(poly)) THEN {}
  ELSE IF n.leaf THEN {e \in ToSet(n.items) : Encloses(poly, e.box.lo)}
  ELSE UNION {PolygonUnder(c, poly) : c \in ToSet(n.items)}

\* Fault: the worst item kept ignores identities.
WorstByDistance(center, best) ==
  CHOOSE e \in best : \A x \in best : Distance(center, x.box.lo) <= Distance(center, e.box.lo)

\* knn: best-first; "best" holds at most k items, and the frontier the nodes
\* to visit, which are popped by bound and then in the order they were pushed.
Rank(center, e) == <<Distance(center, e.box.lo), e.id>>
WorstOf(center, best) == CHOOSE e \in best : \A x \in best \ {e} : Lex(Rank(center, x), Rank(center, e))
Offer(center, k, best, e) ==
  IF Cardinality(best) < k THEN best \cup {e}
  ELSE LET w == WorstOf(center, best)
       IN IF Lex(Rank(center, e), Rank(center, w)) THEN (best \ {w}) \cup {e} ELSE best

RECURSIVE Nearest(_, _, _, _, _, _)
Nearest(frontier, serial, best, center, k, metric) ==
  LET next == FirstBy(frontier, LAMBDA f : <<f.bound, f.serial>>)
      Beyond(bound) == Cardinality(best) = k
                       /\ bound > Distance(center, WorstOf(center, best).box.lo)
      children == next.node.items
      pushed == {[bound |-> LowerBound(children[i].box, center, metric),
                  serial |-> serial + i, node |-> children[i]] : i \in DOMAIN children}
  IN IF frontier = {} \/ Beyond(next.bound) THEN best
     ELSE IF next.node.leaf
     THEN Nearest(frontier \ {next}, serial,
                  FoldLeft(LAMBDA b, e : Offer(center, k, b, e), best, next.node.items),
                  center, k, metric)
     ELSE Nearest((frontier \ {next}) \cup {f \in pushed : ~Beyond(f.bound)},
                  serial + Len(children), best, center, k, metric)
Knn(t, center, k, metric) ==
  IF k = 0 \/ t.box = <<>> THEN {}
  ELSE Nearest({[bound |-> LowerBound(t.box, center, metric), serial |-> 0, node |-> t]},
               0, {}, center, k, metric)

-----------------------------------------------------------------------------
(* validate_structure. *)
RECURSIVE DepthsOf(_)
DepthsOf(n) == IF n.leaf THEN {0} ELSE {1 + d : d \in UNION {DepthsOf(c) : c \in ToSet(n.items)}}
RECURSIVE NodesOf(_)
NodesOf(n) == {n} \cup (IF n.leaf THEN {} ELSE UNION {NodesOf(c) : c \in ToSet(n.items)})
ValidRTree(t) ==
  /\ Cardinality(DepthsOf(t)) = 1
  /\ ~t.leaf => Len(t.items) >= 2
  /\ \A n \in NodesOf(t) :
       /\ Len(n.items) <= Capacity
       /\ n # t => Len(n.items) >= Minimum
       /\ n.box = Covering(n.items)
=============================================================================
