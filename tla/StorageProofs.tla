---------------------------- MODULE StorageProofs ----------------------------
(***************************************************************************)
(* What the storage operations of PageFile, HeapFile and SequentialFile do *)
(* to a file, for every size of pages and rows: the lemmas that            *)
(* MaintenanceProofs rests on.  The first part is about pages, files and   *)
(* writes, a deletion and an insertion into a heap; the second about an    *)
(* insertion into an ordered file and its reorganisation: no row is lost   *)
(* or doubled when a page is split, every page fits, and a failed          *)
(* insertion opens only as the file from before or after it.               *)
(***************************************************************************)
EXTENDS HeapFile, SequentialFile, FiniteSetTheorems, FunctionTheorems,
        WellFoundedInduction, TLAPS

-----------------------------------------------------------------------------
(***************************************************************************)
(* Induction over numbers, from the minimum of a set; the iteration of a   *)
(* step; minima and maxima; sets of pairs that stand for a sum.            *)
(***************************************************************************)

\* A set with zero that is closed under the successor has every number.
LEMMA SetInduction ==
    ASSUME NEW S, 0 \in S, \A n \in Nat : n \in S => n + 1 \in S
    PROVE  \A n \in Nat : n \in S
<1>1. SUFFICES ASSUME NEW k \in Nat, k \notin S PROVE FALSE
  OBVIOUS
<1> DEFINE T == {n \in Nat : n \notin S}
           R == OpToRel(<, Nat)
<1>2. \E x \in T : \A y \in T : ~ (<<y, x>> \in R)
  <2>1. T \subseteq Nat /\ T # {}
    BY <1>1
  <2>2. IsWellFoundedOn(R, Nat)
    BY NatLessThanWellFounded
  <2> HIDE DEF T, R
  <2> QED BY <2>1, <2>2, WFMin
<1>3. PICK x \in T : \A y \in T : ~ (y < x)
  BY <1>2 DEF OpToRel
<1>4. x \in Nat /\ x \notin S /\ x # 0
  OBVIOUS
<1>5. x - 1 \in Nat /\ x - 1 \in S
  <2>1. x - 1 \in Nat /\ x - 1 < x
    BY <1>4
  <2> QED BY <2>1, <1>3
<1>6. (x - 1) + 1 \in S
  BY <1>5
<1> QED BY <1>4, <1>6

\* A non-empty set of numbers has a least one; a bounded one has a greatest.
LEMMA Minimum ==
    ASSUME NEW S \in SUBSET Nat, S # {}
    PROVE  Min(S) \in S /\ \A x \in S : Min(S) <= x
<1> DEFINE R == OpToRel(<, Nat)
<1>1. \E x \in S : \A y \in S : ~ (<<y, x>> \in R)
  <2>1. IsWellFoundedOn(R, Nat)
    BY NatLessThanWellFounded
  <2> HIDE DEF R
  <2> QED BY <2>1, WFMin
<1>2. PICK x \in S : \A y \in S : ~ (y < x)
  BY <1>1 DEF OpToRel
<1>3. \A y \in S : x <= y
  BY <1>2
<1> QED BY <1>3 DEF Min

LEMMA Maximum ==
    ASSUME NEW S \in SUBSET Nat, S # {}, NEW b \in Nat, \A x \in S : x <= b
    PROVE  Max(S) \in S /\ \A x \in S : x <= Max(S)
<1> DEFINE T == {n \in Nat : \A x \in S : x <= n}
<1>1. Min(T) \in T /\ \A n \in T : Min(T) <= n
  <2>1. T \in SUBSET Nat /\ T # {}
    OBVIOUS
  <2> HIDE DEF T
  <2> QED BY <2>1, Minimum
<1>2. Min(T) \in S
  <2>1. SUFFICES ASSUME Min(T) \notin S PROVE FALSE
    OBVIOUS
  <2>2. \A x \in S : x < Min(T)
    BY <1>1, <2>1
  <2>3. PICK x \in S : TRUE
    OBVIOUS
  <2>4. Min(T) \in Nat /\ x \in Nat /\ x < Min(T)
    BY <1>1, <2>2
  <2>5. Min(T) - 1 \in Nat /\ \A y \in S : y <= Min(T) - 1
    BY <2>2, <2>4
  <2>6. Min(T) - 1 \in T
    BY <2>5
  <2>7. Min(T) <= Min(T) - 1
    BY <1>1, <2>6
  <2> QED BY <2>4, <2>7
<1>3. \E x \in S : \A y \in S : y <= x
  BY <1>1, <1>2
<1> QED BY <1>3 DEF Max

\* So does a finite one.
LEMMA FiniteMaximum ==
    ASSUME NEW S \in SUBSET Nat, S # {}, IsFiniteSet(S)
    PROVE  Max(S) \in S /\ \A x \in S : x <= Max(S)
<1> DEFINE P(n) == \A T \in SUBSET Nat : IsFiniteSet(T) /\ Cardinality(T) = n =>
                     \E b \in Nat : \A x \in T : x <= b
           N == {n \in Nat : P(n)}
<1>1. 0 \in N
  BY FS_EmptySet
<1>2. ASSUME NEW n \in Nat, n \in N PROVE n + 1 \in N
  <2>1. SUFFICES ASSUME NEW T \in SUBSET Nat, IsFiniteSet(T), Cardinality(T) = n + 1
                 PROVE  \E b \in Nat : \A x \in T : x <= b
    OBVIOUS
  <2>2. PICK t \in T : TRUE
    <3>1. Cardinality(T) # 0
      BY <2>1
    <3> QED BY <3>1, FS_EmptySet
  <2>3. IsFiniteSet(T \ {t}) /\ Cardinality(T \ {t}) = n
    <3>1. IsFiniteSet(T \ {t}) /\ Cardinality(T \ {t}) = Cardinality(T) - 1
      BY <2>1, <2>2, FS_RemoveElement
    <3> QED BY <2>1, <3>1
  <2>4. PICK b \in Nat : \A x \in T \ {t} : x <= b
    BY <1>2, <2>3
  <2>5. \A x \in T : x <= b + t
    BY <2>4
  <2> QED BY <2>2, <2>5
<1>3. \A n \in Nat : n \in N
  <2> HIDE DEF N
  <2> QED BY <1>1, <1>2, SetInduction
<1>4. \E b \in Nat : \A x \in S : x <= b
  BY <1>3, FS_CardinalityType
<1> QED BY <1>4, Maximum

\* A step can be iterated: every number of steps leads to an element of X.
HasRun(X, a, N, step) ==
  \E f \in [0 .. N -> X] : f[0] = a /\ \A n \in 1 .. N : f[n] = step[<<f[n - 1], n>>]

LEMMA Iterates ==
    ASSUME NEW X, NEW a \in X, NEW N \in Nat, NEW step,
           \A c \in X : \A n \in 1 .. N : step[<<c, n>>] \in X
    PROVE  HasRun(X, a, N, step)
<1> DEFINE P(n, f) == /\ f \in [0 .. n -> X]
                      /\ f[0] = a
                      /\ \A m \in 1 .. n : f[m] = step[<<f[m - 1], m>>]
           S == {n \in Nat : n <= N => \E f : P(n, f)}
<1>1. 0 \in S
  <2>1. P(0, [n \in 0 .. 0 |-> a])
    OBVIOUS
  <2> QED BY <2>1
<1>2. ASSUME NEW n \in Nat, n \in S PROVE n + 1 \in S
  <2>1. SUFFICES ASSUME n + 1 <= N PROVE \E f : P(n + 1, f)
    OBVIOUS
  <2>2. PICK g : P(n, g)
    BY <1>2, <2>1
  <2> DEFINE h == [m \in 0 .. n + 1 |-> IF m <= n THEN g[m] ELSE step[<<g[n], n + 1>>]]
  <2>3. step[<<g[n], n + 1>>] \in X
    BY <2>1, <2>2
  <2>4. h \in [0 .. n + 1 -> X]
    BY <2>2, <2>3
  <2>5. h[0] = a
    BY <2>2
  <2>6. ASSUME NEW m \in 1 .. n + 1 PROVE h[m] = step[<<h[m - 1], m>>]
    <3>1. CASE m = n + 1
      <4>1. h[m] = step[<<g[n], n + 1>>] /\ h[n] = g[n] /\ m - 1 = n
        BY <3>1
      <4> HIDE DEF h
      <4> QED BY <3>1, <4>1
    <3>2. CASE m # n + 1
      <4>1. m \in 1 .. n /\ m - 1 \in 0 .. n
        BY <3>2
      <4>2. h[m] = g[m] /\ h[m - 1] = g[m - 1]
        BY <4>1
      <4> HIDE DEF h
      <4> QED BY <2>2, <4>1, <4>2
    <3> QED BY <3>1, <3>2
  <2> QED BY <2>4, <2>5, <2>6
<1>3. \A n \in Nat : n \in S
  <2> HIDE DEF S
  <2> QED BY <1>1, <1>2, SetInduction
<1> QED BY <1>3 DEF HasRun

\* Two finite sets without a common element.
LEMMA DisjointUnion ==
    ASSUME NEW A, NEW B, IsFiniteSet(A), IsFiniteSet(B), A \cap B = {}
    PROVE  /\ IsFiniteSet(A \cup B)
           /\ Cardinality(A \cup B) = Cardinality(A) + Cardinality(B)
<1>1. /\ IsFiniteSet(A \cup B)
      /\ Cardinality(A \cup B) = Cardinality(A) + Cardinality(B) - Cardinality(A \cap B)
  BY FS_Union
<1>2. Cardinality(A \cap B) = 0
  BY FS_EmptySet
<1>3. Cardinality(A) \in Nat /\ Cardinality(B) \in Nat
  BY FS_CardinalityType
<1> QED BY <1>1, <1>2, <1>3

\* The pairs of an index of S and a member of its set: their number is the
\* sum of the sizes of the sets.
Pairs(S, g) == UNION {{n} \X g[n] : n \in S}

LEMMA PairsFinite ==
    ASSUME NEW S, NEW g, IsFiniteSet(S), \A n \in S : IsFiniteSet(g[n])
    PROVE  IsFiniteSet(Pairs(S, g))
<1> DEFINE part == [n \in S |-> {n} \X g[n]]
           T == {{n} \X g[n] : n \in S}
<1>1. part \in Surjection(S, T)
  BY DEF Surjection
<1>2. IsFiniteSet(T)
  <2> HIDE DEF part, T
  <2> QED BY <1>1, FS_Surjection
<1>3. ASSUME NEW n \in S PROVE IsFiniteSet({n} \X g[n])
  BY FS_Singleton, FS_Product
<1>4. \A t \in T : IsFiniteSet(t)
  BY <1>3
<1> HIDE DEF T
<1>5. IsFiniteSet(UNION T)
  BY <1>2, <1>4, FS_UNION
<1> QED BY <1>5 DEF T, Pairs

LEMMA PairsAdd ==
    ASSUME NEW S, NEW g, NEW s, s \notin S, NEW m \in Nat, g[s] = 1 .. m,
           IsFiniteSet(Pairs(S, g))
    PROVE  /\ IsFiniteSet(Pairs(S \cup {s}, g))
           /\ Cardinality(Pairs(S \cup {s}, g)) = Cardinality(Pairs(S, g)) + m
<1> DEFINE one == {s}
           all == 1 .. m
           new == one \X all
           old == Pairs(S, g)
<1>1. Pairs(S \cup {s}, g) = old \cup new /\ old \cap new = {}
  BY DEF Pairs
<1>2. IsFiniteSet(new) /\ Cardinality(new) = m
  <2>1. IsFiniteSet(one) /\ Cardinality(one) = 1
    BY FS_Singleton
  <2>2. IsFiniteSet(all) /\ Cardinality(all) = m
    BY FS_Interval
  <2> HIDE DEF one, all
  <2>3. IsFiniteSet(new) /\ Cardinality(new) = Cardinality(one) * Cardinality(all)
    BY <2>1, <2>2, FS_Product
  <2> QED BY <2>1, <2>2, <2>3
<1> HIDE DEF new, old
<1>3. IsFiniteSet(old)
  BY DEF old
<1>4. /\ IsFiniteSet(old \cup new)
      /\ Cardinality(old \cup new) = Cardinality(old) + Cardinality(new)
  BY <1>1, <1>2, <1>3, DisjointUnion
<1> QED BY <1>1, <1>2, <1>4 DEF old

-----------------------------------------------------------------------------
(***************************************************************************)
(* A page: its rows, its bytes, and what its operations do.                *)
(***************************************************************************)
PageTypes == [slots : Seq(FittingRows \cup {Free}), holes : Nat]
Sizes(p)  == [s \in DOMAIN p.slots |-> 1 .. Size(p.slots[s])]

LEMMA RowsAreNotFree == Free \notin FittingRows
BY DEF Free, FittingRows

LEMMA PageFacts ==
    ASSUME NEW p \in PageTypes
    PROVE  /\ Len(p.slots) \in Nat /\ DOMAIN p.slots = 1 .. Len(p.slots)
           /\ IsFiniteSet(Live(p)) /\ Live(p) \subseteq DOMAIN p.slots
           /\ \A s \in Live(p) : p.slots[s] \in FittingRows /\ Size(p.slots[s]) \in Nat
           /\ IsFiniteSet(Pairs(Live(p), Sizes(p)))
           /\ Bytes(p) = Cardinality(Pairs(Live(p), Sizes(p)))
           /\ Bytes(p) \in Nat
<1>1. Len(p.slots) \in Nat /\ DOMAIN p.slots = 1 .. Len(p.slots)
  BY DEF PageTypes
<1>2. IsFiniteSet(Live(p)) /\ Live(p) \subseteq DOMAIN p.slots
  <2>1. IsFiniteSet(1 .. Len(p.slots))
    BY <1>1, FS_Interval
  <2>2. Live(p) \in SUBSET (1 .. Len(p.slots))
    BY <1>1 DEF Live
  <2> QED BY <1>1, <2>1, <2>2, FS_Subset
<1>3. \A s \in Live(p) : p.slots[s] \in FittingRows /\ Size(p.slots[s]) \in Nat
  BY DEF Live, PageTypes, FittingRows, Size
<1>4. IsFiniteSet(Pairs(Live(p), Sizes(p)))
  <2>1. ASSUME NEW s \in Live(p) PROVE IsFiniteSet(Sizes(p)[s])
    <3>1. Sizes(p)[s] = 1 .. Size(p.slots[s])
      BY <1>2 DEF Sizes
    <3> QED BY <1>3, <3>1, FS_Interval
  <2> QED BY <1>2, <2>1, PairsFinite
<1>5. Bytes(p) = Cardinality(Pairs(Live(p), Sizes(p)))
  <2>1. Pairs(Live(p), Sizes(p)) = UNION {{s} \X (1 .. Size(p.slots[s])) : s \in Live(p)}
    BY <1>2 DEF Pairs, Sizes
  <2> QED BY <2>1 DEF Bytes
<1> QED BY <1>1, <1>2, <1>3, <1>4, <1>5, FS_CardinalityType

\* Two pages with the same rows at the same live slots have the same bytes.
LEMMA BytesOf ==
    ASSUME NEW p \in PageTypes, NEW q \in PageTypes, Live(q) = Live(p),
           \A s \in Live(p) : q.slots[s] = p.slots[s]
    PROVE  Bytes(q) = Bytes(p)
<1>1. Pairs(Live(q), Sizes(q)) = Pairs(Live(p), Sizes(p))
  BY PageFacts DEF Pairs, Sizes
<1> QED BY <1>1, PageFacts

\* One more live slot adds the size of its row.
LEMMA BytesAdd ==
    ASSUME NEW p \in PageTypes, NEW q \in PageTypes, NEW s, s \notin Live(p),
           Live(q) = Live(p) \cup {s}, \A t \in Live(p) : q.slots[t] = p.slots[t]
    PROVE  Bytes(q) = Bytes(p) + Size(q.slots[s])
<1>1. Pairs(Live(p), Sizes(q)) = Pairs(Live(p), Sizes(p))
  <2>1. \A t \in Live(p) : Sizes(q)[t] = Sizes(p)[t]
    BY PageFacts DEF Sizes
  <2> QED BY <2>1 DEF Pairs
<1>2. Sizes(q)[s] = 1 .. Size(q.slots[s]) /\ Size(q.slots[s]) \in Nat
  BY PageFacts DEF Sizes
<1>3. Cardinality(Pairs(Live(p) \cup {s}, Sizes(q)))
        = Cardinality(Pairs(Live(p), Sizes(q))) + Size(q.slots[s])
  BY <1>1, <1>2, PageFacts, PairsAdd
<1> QED BY <1>1, <1>3, PageFacts

LEMMA EmptyPageFacts ==
    /\ EmptyPage \in PageTypes
    /\ Live(EmptyPage) = {} /\ ~ HasFreeSlot(EmptyPage)
    /\ Bytes(EmptyPage) = 0 /\ FreeSpace(EmptyPage) = PageBytes
<1>1. EmptyPage \in PageTypes /\ Live(EmptyPage) = {} /\ ~ HasFreeSlot(EmptyPage)
  BY DEF EmptyPage, PageTypes, Live, HasFreeSlot
<1>2. Bytes(EmptyPage) = 0
  <2>1. Pairs({}, Sizes(EmptyPage)) = {}
    BY DEF Pairs
  <2> QED BY <1>1, <2>1, PageFacts, FS_EmptySet
<1> QED BY <1>1, <1>2, PageAssumption DEF FreeSpace, EmptyPage

LEMMA PutRowFacts ==
    ASSUME NEW p \in PageTypes, NEW row \in FittingRows
    PROVE  LET q == PutRow(p, row)
               s == SlotFor(p)
           IN /\ q \in PageTypes /\ q.holes = p.holes
              /\ s \in Nat \ {0} /\ s \notin Live(p) /\ Live(q) = Live(p) \cup {s}
              /\ HasFreeSlot(p) => s \in DOMAIN p.slots /\ Len(q.slots) = Len(p.slots)
              /\ ~ HasFreeSlot(p) => s = Len(p.slots) + 1 /\ Len(q.slots) = Len(p.slots) + 1
              /\ q.slots[s] = row
              /\ \A t \in DOMAIN p.slots \ {s} : q.slots[t] = p.slots[t]
              /\ Bytes(q) = Bytes(p) + Size(row)
              /\ FreeSpace(q) = FreeSpace(p) - (Size(row) + DirectoryCost(p))
<1> DEFINE q == PutRow(p, row)
           s == SlotFor(p)
<1>1. CASE HasFreeSlot(p)
  <2> DEFINE free == {t \in DOMAIN p.slots : p.slots[t] = Free}
  <2>1. s = Min(free) /\ s \in free
    <3>1. free \in SUBSET Nat /\ free # {}
      BY <1>1, PageFacts DEF HasFreeSlot
    <3> QED BY <1>1, <3>1, Minimum DEF SlotFor
  <2>2. q = [p EXCEPT !.slots = [p.slots EXCEPT ![s] = row]]
    BY <1>1 DEF PutRow
  <2>3. q.slots = [p.slots EXCEPT ![s] = row] /\ q.holes = p.holes
    BY <2>2 DEF PageTypes
  <2>4. q \in PageTypes
    <3> DEFINE new == [p.slots EXCEPT ![s] = row]
    <3>1. p.slots \in Seq(FittingRows \cup {Free}) /\ s \in DOMAIN p.slots
      BY <2>1 DEF PageTypes
    <3> HIDE DEF s
    <3>2. new \in Seq(FittingRows \cup {Free})
      BY <3>1
    <3>3. q = [p EXCEPT !.slots = new]
      BY <2>2
    <3> HIDE DEF new, q
    <3> QED BY <3>2, <3>3 DEF PageTypes
  <2>5. /\ Len(q.slots) = Len(p.slots) /\ DOMAIN q.slots = DOMAIN p.slots /\ q.slots[s] = row
        /\ \A t \in DOMAIN p.slots \ {s} : q.slots[t] = p.slots[t]
    BY <2>1, <2>3 DEF PageTypes
  <2>6. s \notin Live(p) /\ Live(q) = Live(p) \cup {s}
    BY <2>1, <2>5, RowsAreNotFree DEF Live
  <2>7. Bytes(q) = Bytes(p) + Size(row)
    BY <2>4, <2>5, <2>6, PageFacts, BytesAdd
  <2>8. FreeSpace(q) = FreeSpace(p) - (Size(row) + DirectoryCost(p))
    <3>1. Size(row) \in Nat /\ Bytes(p) \in Nat /\ Len(p.slots) \in Nat /\ p.holes \in Nat
      BY PageFacts DEF PageTypes, FittingRows, Size
    <3> QED BY <1>1, <2>3, <2>5, <2>7, <3>1, PageAssumption DEF FreeSpace, DirectoryCost
  <2> QED BY <1>1, <2>1, <2>3, <2>4, <2>5, <2>6, <2>7, <2>8, PageFacts
<1>2. CASE ~ HasFreeSlot(p)
  <2>1. s = Len(p.slots) + 1
    BY <1>2 DEF SlotFor
  <2>2. q = [p EXCEPT !.slots = Append(p.slots, row)]
    BY <1>2 DEF PutRow
  <2>3. q.slots = Append(p.slots, row) /\ q.holes = p.holes
    BY <2>2 DEF PageTypes
  <2>4. q \in PageTypes
    BY <2>2 DEF PageTypes
  <2>5. /\ Len(q.slots) = Len(p.slots) + 1 /\ DOMAIN q.slots = DOMAIN p.slots \cup {s}
        /\ q.slots[s] = row /\ s \notin DOMAIN p.slots
        /\ \A t \in DOMAIN p.slots \ {s} : q.slots[t] = p.slots[t]
    BY <2>1, <2>3 DEF PageTypes
  <2>6. s \notin Live(p) /\ Live(q) = Live(p) \cup {s}
    BY <2>5, RowsAreNotFree DEF Live
  <2>7. Bytes(q) = Bytes(p) + Size(row)
    BY <2>4, <2>5, <2>6, PageFacts, BytesAdd
  <2>8. FreeSpace(q) = FreeSpace(p) - (Size(row) + DirectoryCost(p))
    <3>1. Size(row) \in Nat /\ Bytes(p) \in Nat /\ Len(p.slots) \in Nat /\ p.holes \in Nat
      BY PageFacts DEF PageTypes, FittingRows, Size
    <3> QED BY <1>2, <2>3, <2>5, <2>7, <3>1, PageAssumption DEF FreeSpace, DirectoryCost
  <2> QED BY <1>2, <2>1, <2>3, <2>4, <2>5, <2>6, <2>7, <2>8, PageFacts
<1> QED BY <1>1, <1>2

LEMMA FreeSlotFacts ==
    ASSUME NEW p \in PageTypes, NEW s \in Live(p)
    PROVE  LET q == FreeSlot(p, s)
           IN /\ q \in PageTypes /\ Len(q.slots) = Len(p.slots)
              /\ Live(q) = Live(p) \ {s} /\ q.slots[s] = Free
              /\ \A t \in DOMAIN p.slots \ {s} : q.slots[t] = p.slots[t]
              /\ FreeSpace(q) = FreeSpace(p)
<1> DEFINE q == FreeSlot(p, s)
<1>1. s \in DOMAIN p.slots /\ p.slots[s] \in FittingRows /\ Size(p.slots[s]) \in Nat
  BY PageFacts
<1>2. q.slots = [p.slots EXCEPT ![s] = Free] /\ q.holes = p.holes + Size(p.slots[s])
  BY DEF FreeSlot
<1>3. q \in PageTypes
  BY <1>1, <1>2 DEF PageTypes, FreeSlot
<1>4. /\ Len(q.slots) = Len(p.slots) /\ DOMAIN q.slots = DOMAIN p.slots /\ q.slots[s] = Free
      /\ \A t \in DOMAIN p.slots \ {s} : q.slots[t] = p.slots[t]
  BY <1>1, <1>2 DEF PageTypes
<1>5. Live(q) = Live(p) \ {s}
  BY <1>1, <1>4 DEF Live
<1>6. Bytes(p) = Bytes(q) + Size(p.slots[s])
  <2>1. Live(p) = Live(q) \cup {s} /\ s \notin Live(q)
    BY <1>5
  <2>2. \A t \in Live(q) : p.slots[t] = q.slots[t]
    BY <1>4, <1>5 DEF Live
  <2> QED BY <1>3, <2>1, <2>2, BytesAdd
<1>7. FreeSpace(q) = FreeSpace(p)
  <2>1. /\ Bytes(p) \in Nat /\ Bytes(q) \in Nat
        /\ Len(p.slots) \in Nat /\ p.holes \in Nat
    BY <1>3, PageFacts DEF PageTypes
  <2> QED BY <1>1, <1>2, <1>4, <1>6, <2>1, PageAssumption DEF FreeSpace
<1> QED BY <1>3, <1>4, <1>5, <1>7

LEMMA CompactFacts ==
    ASSUME NEW p \in PageTypes
    PROVE  /\ Compact(p) \in PageTypes /\ Compact(p).slots = p.slots
           /\ FreeSpace(Compact(p)) = FreeSpace(p) + p.holes
<1>1. Compact(p) \in PageTypes /\ Compact(p).slots = p.slots /\ Compact(p).holes = 0
  BY DEF Compact, PageTypes
<1>2. Bytes(Compact(p)) = Bytes(p)
  BY <1>1, BytesOf DEF Live
<1>3. Bytes(p) \in Nat /\ Len(p.slots) \in Nat /\ p.holes \in Nat
  BY PageFacts DEF PageTypes
<1> QED BY <1>1, <1>2, <1>3, PageAssumption DEF FreeSpace

-----------------------------------------------------------------------------
(***************************************************************************)
(* A file: its slots, its rows as a bag, and how the bag follows from a    *)
(* match of the rows of two files.                                         *)
(***************************************************************************)
FileTypes == [pages : Seq(PageTypes), allocated : Nat,
              meta : [active : Nat, deleted : Nat, pages : Nat]]

LEMMA FileFacts ==
    ASSUME NEW f \in FileTypes
    PROVE  /\ Len(f.pages) \in Nat /\ DOMAIN f.pages = 1 .. Len(f.pages)
           /\ \A n \in DOMAIN f.pages : f.pages[n] \in PageTypes
           /\ IsFiniteSet(SlotsOf(f)) /\ IsFiniteSet(RidsOf(f)) /\ IsFiniteSet(SlotsOf(f) \ RidsOf(f))
           /\ RidsOf(f) \subseteq SlotsOf(f)
           /\ \A rid \in RidsOf(f) : RowAt(f, rid) \in FittingRows
           /\ ActiveRows(f) \in Nat /\ FreeSlots(f) \in Nat
<1>1. /\ Len(f.pages) \in Nat /\ DOMAIN f.pages = 1 .. Len(f.pages)
      /\ \A n \in DOMAIN f.pages : f.pages[n] \in PageTypes
  BY DEF FileTypes
<1>2. IsFiniteSet(SlotsOf(f))
  <2> DEFINE g == [n \in DOMAIN f.pages |-> DOMAIN f.pages[n].slots]
  <2>1. IsFiniteSet(DOMAIN f.pages)
    BY <1>1, FS_Interval
  <2>2. ASSUME NEW n \in DOMAIN f.pages PROVE IsFiniteSet(g[n])
    <3>1. g[n] = 1 .. Len(f.pages[n].slots) /\ Len(f.pages[n].slots) \in Nat
      BY <1>1, PageFacts
    <3> QED BY <3>1, FS_Interval
  <2>3. SlotsOf(f) = Pairs(DOMAIN f.pages, g)
    BY DEF SlotsOf, Pairs
  <2> HIDE DEF g
  <2> QED BY <2>1, <2>2, <2>3, PairsFinite
<1>3. RidsOf(f) \subseteq SlotsOf(f)
  BY DEF RidsOf
<1>4. IsFiniteSet(RidsOf(f)) /\ IsFiniteSet(SlotsOf(f) \ RidsOf(f))
  BY <1>2, <1>3, FS_Subset
<1>5. ASSUME NEW rid \in RidsOf(f) PROVE RowAt(f, rid) \in FittingRows
  <2>1. PICK n \in DOMAIN f.pages : \E s \in DOMAIN f.pages[n].slots : rid = <<n, s>>
    BY DEF RidsOf, SlotsOf
  <2>2. PICK s \in DOMAIN f.pages[n].slots : rid = <<n, s>>
    BY <2>1
  <2>3. f.pages[n].slots[s] # Free /\ f.pages[n].slots \in Seq(FittingRows \cup {Free})
    BY <1>1, <2>2 DEF RidsOf, RowAt, PageTypes
  <2> QED BY <2>2, <2>3 DEF RowAt
<1> QED BY <1>1, <1>2, <1>3, <1>4, <1>5, FS_CardinalityType DEF ActiveRows, FreeSlots

LEMMA PageNumbers ==
    ASSUME NEW f \in FileTypes, NEW n \in DOMAIN f.pages
    PROVE  n \in Nat \ {0} /\ n <= Len(f.pages) /\ f.pages[n] \in PageTypes
<1>1. DOMAIN f.pages = 1 .. Len(f.pages) /\ Len(f.pages) \in Nat /\ f.pages[n] \in PageTypes
  BY FileFacts
<1> QED BY <1>1

\* The slots of a file, and its rows, page by page.
LEMMA SlotFacts ==
    ASSUME NEW f
    PROVE  /\ \A x : x \in SlotsOf(f) <=>
                \E n \in DOMAIN f.pages : \E s \in DOMAIN f.pages[n].slots : x = <<n, s>>
           /\ \A n, s : <<n, s>> \in SlotsOf(f) <=>
                n \in DOMAIN f.pages /\ s \in DOMAIN f.pages[n].slots
           /\ \A n, s : <<n, s>> \in RidsOf(f) <=>
                n \in DOMAIN f.pages /\ s \in Live(f.pages[n])
           /\ \A n, s : RowAt(f, <<n, s>>) = f.pages[n].slots[s]
           /\ \A x \in SlotsOf(f) : x = <<x[1], x[2]>>
<1>1. ASSUME NEW x
      PROVE  x \in SlotsOf(f) <=>
               \E n \in DOMAIN f.pages : \E s \in DOMAIN f.pages[n].slots : x = <<n, s>>
  BY DEF SlotsOf
<1>2. ASSUME NEW n, NEW s
      PROVE  <<n, s>> \in SlotsOf(f) <=> n \in DOMAIN f.pages /\ s \in DOMAIN f.pages[n].slots
  BY <1>1
<1>3. ASSUME NEW n, NEW s PROVE RowAt(f, <<n, s>>) = f.pages[n].slots[s]
  BY DEF RowAt
<1>4. ASSUME NEW n, NEW s
      PROVE  <<n, s>> \in RidsOf(f) <=> n \in DOMAIN f.pages /\ s \in Live(f.pages[n])
  BY <1>2, <1>3 DEF RidsOf, Live
<1> QED BY <1>1, <1>2, <1>3, <1>4

\* Matched finite sets have the same number of elements.
Matches(S, T, h) ==
  /\ h \in [S -> T]
  /\ \A x, y \in S : h[x] = h[y] => x = y
  /\ \A t \in T : \E x \in S : h[x] = t

LEMMA MatchCount ==
    ASSUME NEW S, NEW T, NEW h, Matches(S, T, h), IsFiniteSet(S)
    PROVE  IsFiniteSet(T) /\ Cardinality(T) = Cardinality(S)
<1>1. h \in Bijection(S, T)
  BY DEF Matches, Bijection, Injection, Surjection, IsInjective
<1>2. ExistsBijection(S, T)
  BY <1>1 DEF ExistsBijection
<1> QED BY <1>2, FS_Bijection

\* The rows of f are those of g but for the one at rid.
LEMMA RowAdded ==
    ASSUME NEW f \in FileTypes, NEW g \in FileTypes, NEW rid \in RidsOf(g), NEW h,
           Matches(RidsOf(f), RidsOf(g) \ {rid}, h),
           \A x \in RidsOf(f) : RowAt(g, h[x]) = RowAt(f, x)
    PROVE  /\ Contents(g) = Contents(f) (+) SetToBag({RowAt(g, rid)})
           /\ ActiveRows(g) = ActiveRows(f) + 1
<1> DEFINE row == RowAt(g, rid)
<1>1. ASSUME NEW v
      PROVE  /\ IsFiniteSet(Holding(f, v)) /\ IsFiniteSet(Holding(g, v))
             /\ Cardinality(Holding(g, v) \ {rid}) = Cardinality(Holding(f, v))
  <2>1. IsFiniteSet(Holding(f, v)) /\ IsFiniteSet(Holding(g, v))
    BY FileFacts, FS_Subset DEF Holding
  <2> DEFINE k == [x \in Holding(f, v) |-> h[x]]
  <2>2. Matches(Holding(f, v), Holding(g, v) \ {rid}, k)
    BY DEF Matches, Holding
  <2> QED BY <2>1, <2>2, MatchCount
<1>2. ASSUME NEW v, v # row PROVE Cardinality(Holding(g, v)) = Cardinality(Holding(f, v))
  <2>1. Holding(g, v) \ {rid} = Holding(g, v)
    BY <1>2 DEF Holding
  <2> QED BY <1>1, <2>1
<1>3. Cardinality(Holding(g, row)) = Cardinality(Holding(f, row)) + 1
  <2>1. rid \in Holding(g, row)
    BY DEF Holding
  <2>2. /\ Cardinality(Holding(g, row) \ {rid}) = Cardinality(Holding(g, row)) - 1
        /\ Cardinality(Holding(g, row)) \in Nat
    BY <1>1, <2>1, FS_RemoveElement, FS_CardinalityType
  <2> QED BY <1>1, <2>2
<1>4. {RowAt(g, x) : x \in RidsOf(g)} = {RowAt(f, x) : x \in RidsOf(f)} \cup {row}
  BY DEF Matches
<1>5. row \notin {RowAt(f, x) : x \in RidsOf(f)} => Cardinality(Holding(f, row)) = 0
  BY FS_EmptySet DEF Holding
<1>6. \A v : Cardinality(Holding(f, v)) \in Nat
  BY <1>1, FS_CardinalityType
<1>7. Contents(g) = Contents(f) (+) SetToBag({row})
  BY <1>2, <1>3, <1>4, <1>5, <1>6 DEF Contents, (+), SetToBag
<1>8. ActiveRows(g) = ActiveRows(f) + 1
  <2>1. Cardinality(RidsOf(g) \ {rid}) = Cardinality(RidsOf(f))
    BY FileFacts, MatchCount
  <2>2. Cardinality(RidsOf(g) \ {rid}) = Cardinality(RidsOf(g)) - 1 /\ Cardinality(RidsOf(g)) \in Nat
    BY FileFacts, FS_RemoveElement, FS_CardinalityType
  <2> QED BY <2>1, <2>2 DEF ActiveRows
<1> QED BY <1>7, <1>8

\* The rows of f and g are the same.
LEMMA RowsMoved ==
    ASSUME NEW f \in FileTypes, NEW g \in FileTypes, NEW h, Matches(RidsOf(f), RidsOf(g), h),
           \A x \in RidsOf(f) : RowAt(g, h[x]) = RowAt(f, x)
    PROVE  Contents(g) = Contents(f) /\ ActiveRows(g) = ActiveRows(f)
<1>1. ASSUME NEW v
      PROVE  Cardinality(Holding(g, v)) = Cardinality(Holding(f, v))
  <2>1. IsFiniteSet(Holding(f, v))
    BY FileFacts, FS_Subset DEF Holding
  <2> DEFINE k == [x \in Holding(f, v) |-> h[x]]
  <2>2. Matches(Holding(f, v), Holding(g, v), k)
    BY DEF Matches, Holding
  <2> QED BY <2>1, <2>2, MatchCount
<1>2. {RowAt(g, x) : x \in RidsOf(g)} = {RowAt(f, x) : x \in RidsOf(f)}
  BY DEF Matches
<1>3. Contents(g) = Contents(f)
  BY <1>1, <1>2 DEF Contents
<1>4. ActiveRows(g) = ActiveRows(f)
  BY FileFacts, MatchCount DEF ActiveRows
<1> QED BY <1>3, <1>4

LEMMA ContentsAreABag ==
    ASSUME NEW f \in FileTypes
    PROVE  Contents(f) \in [DOMAIN Contents(f) -> Nat \ {0}]
<1>1. ASSUME NEW v \in {RowAt(f, x) : x \in RidsOf(f)}
      PROVE  Cardinality(Holding(f, v)) \in Nat \ {0}
  <2>1. IsFiniteSet(Holding(f, v)) /\ Holding(f, v) # {}
    BY FileFacts, FS_Subset DEF Holding
  <2> QED BY <2>1, FS_EmptySet, FS_CardinalityType
<1> QED BY <1>1 DEF Contents

\* What is added and then removed leaves the bag.
LEMMA AddedAndRemoved ==
    ASSUME NEW B, B \in [DOMAIN B -> Nat \ {0}], NEW r
    PROVE  (B (+) SetToBag({r})) (-) SetToBag({r}) = B
<1> DEFINE C == B (+) SetToBag({r})
<1>1. /\ DOMAIN C = DOMAIN B \cup {r}
      /\ \A x \in DOMAIN B \ {r} : C[x] = B[x]
      /\ C[r] = IF r \in DOMAIN B THEN B[r] + 1 ELSE 1
  BY DEF (+), SetToBag
<1> HIDE DEF C
<1> DEFINE D == [x \in DOMAIN C |-> IF x \in {r} THEN C[x] - 1 ELSE C[x]]
<1>2. C (-) SetToBag({r}) = [x \in {y \in DOMAIN D : D[y] > 0} |-> D[x]]
  BY DEF (-), SetToBag
<1>3. \A x \in DOMAIN B : D[x] = B[x] /\ D[x] > 0
  BY <1>1
<1>4. r \notin DOMAIN B => ~ (D[r] > 0)
  BY <1>1
<1>5. DOMAIN D = DOMAIN B \cup {r}
  BY <1>1
<1>6. {y \in DOMAIN D : D[y] > 0} = DOMAIN B
  <2> HIDE DEF D
  <2> QED BY <1>3, <1>4, <1>5
<1>7. C (-) SetToBag({r}) = B
  BY <1>2, <1>6, <1>3
<1> QED BY <1>7 DEF C

-----------------------------------------------------------------------------
(***************************************************************************)
(* Writes: what a file is after some of them, and why one that lost a part *)
(* of them does not open.                                                  *)
(***************************************************************************)
MetaTypes  == [active : Int, deleted : Int, pages : Int]
WriteTypes == [at : {"page"}, page : Nat \ {0}, value : PageTypes]
                \cup [at : {"header"}, value : Int]
                \cup [at : {"meta"}, value : MetaTypes]

LEMMA PageWriteFacts ==
    ASSUME NEW n \in Nat \ {0}, NEW q \in PageTypes
    PROVE  /\ WritePage(n, q) \in WriteTypes /\ WritePage(n, q).at = "page"
           /\ WritePage(n, q).page = n /\ WritePage(n, q).value = q
BY DEF WritePage, WriteTypes

LEMMA HeaderWriteFacts ==
    ASSUME NEW n \in Int
    PROVE  LET w == [at |-> "header", value |-> n]
           IN w \in WriteTypes /\ w.at = "header" /\ w.value = n
BY DEF WriteTypes

LEMMA MetaWriteFacts ==
    ASSUME NEW a \in Int, NEW d \in Int, NEW k \in Int
    PROVE  /\ WriteMeta(a, d, k) \in WriteTypes /\ WriteMeta(a, d, k).at = "meta"
           /\ WriteMeta(a, d, k).value = [active |-> a, deleted |-> d, pages |-> k]
           /\ WriteMeta(a, d, k).value \in MetaTypes
<1>1. WriteMeta(a, d, k) = [at |-> "meta", value |-> [active |-> a, deleted |-> d, pages |-> k]]
  BY DEF WriteMeta
<1>2. [active |-> a, deleted |-> d, pages |-> k] \in MetaTypes
  BY DEF MetaTypes
<1> HIDE DEF MetaTypes
<1> QED BY <1>1, <1>2 DEF WriteTypes

LEMMA LastWriteFacts ==
    ASSUME NEW ws, NEW here \in SUBSET Nat, IsFiniteSet(here), NEW old
    PROVE  /\ here = {} => LastWrite(ws, here, old) = old
           /\ \A i \in here : (\A j \in here : j <= i) => LastWrite(ws, here, old) = ws[i].value
<1>1. ASSUME NEW i \in here, \A j \in here : j <= i PROVE Max(here) = i
  <2>1. Max(here) \in here /\ \A j \in here : j <= Max(here)
    BY <1>1, FiniteMaximum
  <2>2. Max(here) \in Nat /\ i \in Nat /\ Max(here) <= i /\ i <= Max(here)
    BY <1>1, <2>1
  <2> QED BY <2>2
<1> QED BY <1>1 DEF LastWrite

\* The writes to page n, and the last of them.
ToPage(ws, i, n) == ws[i].at = "page" /\ ws[i].page = n

LEMMA WriteAllFacts ==
    ASSUME NEW f \in FileTypes, NEW ws \in Seq(WriteTypes)
    PROVE  LET g == WriteAll(f, ws)
           IN /\ Len(g.pages) \in Nat /\ DOMAIN g.pages = 1 .. Len(g.pages)
              /\ Len(f.pages) <= Len(g.pages)
              /\ \A i \in DOMAIN ws : ws[i].at = "page" => ws[i].page <= Len(g.pages)
              /\ \/ Len(g.pages) = Len(f.pages)
                 \/ \E i \in DOMAIN ws : ToPage(ws, i, Len(g.pages))
              /\ \A n \in DOMAIN g.pages :
                   /\ (\A i \in DOMAIN ws : ~ ToPage(ws, i, n)) => g.pages[n] = f.pages[n]
                   /\ \A i \in DOMAIN ws :
                        ToPage(ws, i, n) /\ (\A j \in DOMAIN ws : j > i => ~ ToPage(ws, j, n))
                          => g.pages[n] = ws[i].value
              /\ g = [pages |-> [n \in 1 .. Len(g.pages) |-> g.pages[n]],
                      allocated |-> g.allocated, meta |-> g.meta]
              /\ (\A i \in DOMAIN ws : ws[i].at # "header") => g.allocated = f.allocated
              /\ \A i \in DOMAIN ws :
                   ws[i].at = "header" /\ (\A j \in DOMAIN ws : j > i => ws[j].at # "header")
                     => g.allocated = ws[i].value
              /\ (\A i \in DOMAIN ws : ws[i].at # "meta") => g.meta = f.meta
              /\ \A i \in DOMAIN ws :
                   ws[i].at = "meta" /\ (\A j \in DOMAIN ws : j > i => ws[j].at # "meta")
                     => g.meta = ws[i].value
<1> DEFINE g == WriteAll(f, ws)
           S == {Len(f.pages)} \cup {ws[i].page : i \in WritesTo(ws, "page")}
<1>0. DOMAIN ws = 1 .. Len(ws) /\ Len(ws) \in Nat
  OBVIOUS
<1>00. ASSUME NEW here \in SUBSET DOMAIN ws PROVE here \in SUBSET Nat /\ IsFiniteSet(here)
  <2>1. IsFiniteSet(1 .. Len(ws))
    BY <1>0, FS_Interval
  <2>2. IsFiniteSet(DOMAIN ws)
    BY <1>0, <2>1
  <2> QED BY <1>0, <2>2, FS_Subset
<1>1. \A i \in WritesTo(ws, "page") : ws[i].page \in Nat
  BY DEF WritesTo, WriteTypes
<1>2. Len(f.pages) \in Nat
  BY FileFacts
<1>3. Max(S) \in S /\ \A x \in S : x <= Max(S)
  <2> DEFINE at == [i \in DOMAIN ws |-> IF i \in WritesTo(ws, "page") THEN ws[i].page ELSE 0]
             T == {at[i] : i \in DOMAIN ws}
  <2>1. at \in Surjection(DOMAIN ws, T)
    BY DEF Surjection
  <2>2. IsFiniteSet(DOMAIN ws)
    BY <1>0, FS_Interval
  <2>3. IsFiniteSet(T)
    <3> HIDE DEF at, T
    <3> QED BY <2>1, <2>2, FS_Surjection
  <2>4. S \in SUBSET (T \cup {Len(f.pages)})
    BY DEF WritesTo
  <2>5. IsFiniteSet(S)
    <3> HIDE DEF T, S
    <3>1. IsFiniteSet(T \cup {Len(f.pages)})
      BY <2>3, FS_AddElement
    <3> QED BY <2>4, <3>1, FS_Subset
  <2>6. S \in SUBSET Nat /\ S # {}
    BY <1>1, <1>2
  <2> HIDE DEF S
  <2> QED BY <2>5, <2>6, FiniteMaximum
<1>4. /\ g.pages = [n \in 1 .. Max(S) |-> LastWrite(ws, PageWrites(ws, n), f.pages[n])]
      /\ g.allocated = LastWrite(ws, WritesTo(ws, "header"), f.allocated)
      /\ g.meta = LastWrite(ws, WritesTo(ws, "meta"), f.meta)
      /\ g = [pages |-> g.pages, allocated |-> g.allocated, meta |-> g.meta]
  BY DEF WriteAll
<1>5. Max(S) \in Nat
  BY <1>1, <1>2, <1>3
<1>6. Len(g.pages) = Max(S) /\ DOMAIN g.pages = 1 .. Len(g.pages)
  BY <1>4, <1>5
<1>7. /\ Len(f.pages) <= Len(g.pages)
      /\ \A i \in DOMAIN ws : ws[i].at = "page" => ws[i].page <= Len(g.pages)
      /\ Len(g.pages) = Len(f.pages) \/ \E i \in DOMAIN ws : ToPage(ws, i, Len(g.pages))
  BY <1>3, <1>6 DEF WritesTo, ToPage
<1>8. ASSUME NEW n \in DOMAIN g.pages
      PROVE  /\ (\A i \in DOMAIN ws : ~ ToPage(ws, i, n)) => g.pages[n] = f.pages[n]
             /\ \A i \in DOMAIN ws :
                  ToPage(ws, i, n) /\ (\A j \in DOMAIN ws : j > i => ~ ToPage(ws, j, n))
                    => g.pages[n] = ws[i].value
  <2>1. g.pages[n] = LastWrite(ws, PageWrites(ws, n), f.pages[n])
    BY <1>4, <1>6
  <2>2. /\ PageWrites(ws, n) \in SUBSET DOMAIN ws
        /\ \A i \in DOMAIN ws : i \in PageWrites(ws, n) <=> ToPage(ws, i, n)
    BY <1>0 DEF PageWrites, WritesTo, ToPage
  <2> DEFINE here == PageWrites(ws, n)
             old == f.pages[n]
  <2>3. \A i \in here : i \in DOMAIN ws
    BY DEF PageWrites, WritesTo
  <2>4. /\ here = {} => LastWrite(ws, here, old) = old
        /\ \A i \in here : (\A j \in here : j <= i) => LastWrite(ws, here, old) = ws[i].value
    <3>1. here \in SUBSET Nat /\ IsFiniteSet(here)
      BY <1>00, <2>2
    <3> HIDE DEF here, old
    <3> QED BY <3>1, LastWriteFacts
  <2>5. ASSUME NEW i \in DOMAIN ws, ToPage(ws, i, n),
               \A j \in DOMAIN ws : j > i => ~ ToPage(ws, j, n)
        PROVE  g.pages[n] = ws[i].value
    <3>1. i \in here /\ \A j \in here : j <= i
      BY <1>0, <2>2, <2>3, <2>5
    <3> QED BY <2>1, <2>4, <3>1
  <2>6. (\A i \in DOMAIN ws : ~ ToPage(ws, i, n)) => here = {}
    BY <2>2, <2>3
  <2> QED BY <2>1, <2>4, <2>5, <2>6
<1>9. ASSUME NEW at, NEW old
      PROVE  /\ (\A i \in DOMAIN ws : ws[i].at # at) => LastWrite(ws, WritesTo(ws, at), old) = old
             /\ \A i \in DOMAIN ws :
                  ws[i].at = at /\ (\A j \in DOMAIN ws : j > i => ws[j].at # at)
                    => LastWrite(ws, WritesTo(ws, at), old) = ws[i].value
  <2> DEFINE here == WritesTo(ws, at)
  <2>1. /\ here \in SUBSET DOMAIN ws
        /\ \A i \in here : i \in DOMAIN ws
        /\ \A i \in DOMAIN ws : i \in here <=> ws[i].at = at
    BY <1>0 DEF WritesTo
  <2>2. /\ here = {} => LastWrite(ws, here, old) = old
        /\ \A i \in here : (\A j \in here : j <= i) => LastWrite(ws, here, old) = ws[i].value
    <3>1. here \in SUBSET Nat /\ IsFiniteSet(here)
      BY <1>00, <2>1
    <3> HIDE DEF here
    <3> QED BY <3>1, LastWriteFacts
  <2>3. ASSUME NEW i \in DOMAIN ws, ws[i].at = at, \A j \in DOMAIN ws : j > i => ws[j].at # at
        PROVE  LastWrite(ws, here, old) = ws[i].value
    <3>1. i \in here /\ \A j \in here : j <= i
      BY <1>0, <2>1, <2>3
    <3> QED BY <2>2, <3>1
  <2>4. (\A i \in DOMAIN ws : ws[i].at # at) => here = {}
    BY <2>1
  <2> QED BY <2>2, <2>3, <2>4
<1>10. g = [pages |-> [n \in 1 .. Len(g.pages) |-> g.pages[n]],
            allocated |-> g.allocated, meta |-> g.meta]
  BY <1>4, <1>6
<1> HIDE DEF g, S
<1> QED BY <1>4, <1>5, <1>6, <1>7, <1>8, <1>9, <1>10 DEF g

\* A page of the file is rewritten, then the counters.
LEMMA RewrittenPage ==
    ASSUME NEW f \in FileTypes, NEW n \in DOMAIN f.pages, NEW q \in PageTypes,
           NEW ws \in Seq(WriteTypes), ws[1] = WritePage(n, q),
           Len(ws) = 1 \/ (Len(ws) = 2 /\ ws[2].at = "meta")
    PROVE  WriteAll(f, ws) =
             [pages |-> [f.pages EXCEPT ![n] = q], allocated |-> f.allocated,
              meta |-> IF Len(ws) = 1 THEN f.meta ELSE ws[2].value]
<1> DEFINE g == WriteAll(f, ws)
<1>1. n \in Nat \ {0} /\ n <= Len(f.pages)
  BY PageNumbers
<1>2. /\ ws[1].at = "page" /\ ws[1].page = n /\ ws[1].value = q
      /\ Len(ws) = 1 \/ (Len(ws) = 2 /\ ws[2].at = "meta")
      /\ DOMAIN ws = 1 .. Len(ws)
  BY <1>1, PageWriteFacts
<1>3. \A i \in DOMAIN ws : \A m : ToPage(ws, i, m) <=> i = 1 /\ m = n
  BY <1>2 DEF ToPage
<1>4. Len(g.pages) \in Nat /\ DOMAIN g.pages = 1 .. Len(g.pages) /\ Len(g.pages) = Len(f.pages)
  <2>1. /\ Len(g.pages) \in Nat /\ DOMAIN g.pages = 1 .. Len(g.pages) /\ Len(f.pages) <= Len(g.pages)
        /\ Len(g.pages) = Len(f.pages) \/ \E i \in DOMAIN ws : ToPage(ws, i, Len(g.pages))
    BY <1>2, WriteAllFacts
  <2> QED BY <1>1, <1>3, <2>1, FileFacts
<1>5. \A m \in DOMAIN g.pages : g.pages[m] = IF m = n THEN q ELSE f.pages[m]
  <2>1. ASSUME NEW m \in DOMAIN g.pages, m # n PROVE g.pages[m] = f.pages[m]
    BY <1>2, <1>3, <2>1, WriteAllFacts
  <2>2. n \in DOMAIN g.pages => g.pages[n] = ws[1].value
    <3>1. 1 \in DOMAIN ws /\ ToPage(ws, 1, n) /\ \A j \in DOMAIN ws : j > 1 => ~ ToPage(ws, j, n)
      BY <1>2, <1>3
    <3> QED BY <1>2, <3>1, WriteAllFacts
  <2> QED BY <1>2, <2>1, <2>2
<1>6. g.allocated = f.allocated
  <2>1. \A i \in DOMAIN ws : ws[i].at # "header"
    BY <1>2
  <2> QED BY <1>2, <2>1, WriteAllFacts
<1>7. g.meta = IF Len(ws) = 1 THEN f.meta ELSE ws[2].value
  <2>1. CASE Len(ws) = 1
    <3>1. \A i \in DOMAIN ws : ws[i].at # "meta"
      BY <1>2, <2>1
    <3> QED BY <1>2, <2>1, <3>1, WriteAllFacts
  <2>2. CASE Len(ws) = 2
    <3>1. /\ 2 \in DOMAIN ws /\ ws[2].at = "meta"
          /\ \A j \in DOMAIN ws : j > 2 => ws[j].at # "meta"
      BY <1>2, <2>2
    <3>2. g.meta = ws[2].value
      BY <1>2, <3>1, WriteAllFacts
    <3> QED BY <1>2, <2>2, <3>2
  <2> QED BY <1>2, <2>1, <2>2
<1>8. [m \in 1 .. Len(g.pages) |-> g.pages[m]] = [f.pages EXCEPT ![n] = q]
  BY <1>4, <1>5, FileFacts
<1>9. g = [pages |-> [m \in 1 .. Len(g.pages) |-> g.pages[m]],
            allocated |-> g.allocated, meta |-> g.meta]
  BY <1>2, WriteAllFacts
<1> HIDE DEF g
<1> QED BY <1>2, <1>6, <1>7, <1>8, <1>9 DEF g

LEMMA OnePageWritten ==
    ASSUME NEW f \in FileTypes, NEW n \in DOMAIN f.pages, NEW q \in PageTypes
    PROVE  WriteAll(f, <<WritePage(n, q)>>) =
             [pages |-> [f.pages EXCEPT ![n] = q], allocated |-> f.allocated, meta |-> f.meta]
<1> DEFINE w == WritePage(n, q)
           ws == <<w>>
<1>1. w \in WriteTypes
  BY PageNumbers, PageWriteFacts
<1> HIDE DEF w
<1>2. ws \in Seq(WriteTypes) /\ ws[1] = w
  BY <1>1
<1>3. Len(ws) = 1
  OBVIOUS
<1> HIDE DEF ws
<1>4. WriteAll(f, ws) =
        [pages |-> [f.pages EXCEPT ![n] = q], allocated |-> f.allocated,
         meta |-> IF Len(ws) = 1 THEN f.meta ELSE ws[2].value]
  BY <1>2, <1>3, RewrittenPage DEF w
<1> QED BY <1>3, <1>4 DEF w, ws

LEMMA PageThenCounters ==
    ASSUME NEW f \in FileTypes, NEW n \in DOMAIN f.pages, NEW q \in PageTypes,
           NEW a \in Int, NEW d \in Int, NEW k \in Int
    PROVE  LET ws == <<WritePage(n, q), WriteMeta(a, d, k)>>
           IN /\ ws \in Seq(WriteTypes) /\ Len(ws) = 2
              /\ ws[1] = WritePage(n, q) /\ ws[2].at = "meta"
              /\ WriteAll(f, ws) =
                   [pages |-> [f.pages EXCEPT ![n] = q], allocated |-> f.allocated,
                    meta |-> [active |-> a, deleted |-> d, pages |-> k]]
<1> DEFINE w == WritePage(n, q)
           c == WriteMeta(a, d, k)
           ws == <<w, c>>
<1>1. /\ w \in WriteTypes /\ c \in WriteTypes /\ c.at = "meta"
      /\ c.value = [active |-> a, deleted |-> d, pages |-> k]
  BY PageNumbers, PageWriteFacts, MetaWriteFacts
<1> HIDE DEF w, c
<1>2. ws \in Seq(WriteTypes) /\ ws[1] = w /\ ws[2] = c
  BY <1>1
<1>3. Len(ws) = 2
  OBVIOUS
<1> HIDE DEF ws
<1>4. WriteAll(f, ws) =
        [pages |-> [f.pages EXCEPT ![n] = q], allocated |-> f.allocated,
         meta |-> IF Len(ws) = 1 THEN f.meta ELSE ws[2].value]
  BY <1>1, <1>2, <1>3, RewrittenPage DEF w
<1>5. WriteAll(f, ws) =
        [pages |-> [f.pages EXCEPT ![n] = q], allocated |-> f.allocated,
         meta |-> [active |-> a, deleted |-> d, pages |-> k]]
  BY <1>1, <1>2, <1>3, <1>4
<1>6. ws = <<WritePage(n, q), WriteMeta(a, d, k)>>
  BY DEF ws, w, c
<1> QED BY <1>1, <1>2, <1>3, <1>5, <1>6 DEF w

\* A page is appended and counted in the header, written, then the counters.
LEMMA FourWritesDone ==
    ASSUME NEW f \in FileTypes, NEW q \in PageTypes, NEW c, NEW n, n = Len(f.pages) + 1,
           NEW ws \in Seq(WriteTypes), Len(ws) = 4, DOMAIN ws = 1 .. 4,
           ws[1].at = "page", ws[1].page = n,
           ws[2].at = "header", ws[2].value = n,
           ws[3].at = "page", ws[3].page = n, ws[3].value = q,
           ws[4].at = "meta", ws[4].value = c
    PROVE  WriteAll(f, ws) = [pages |-> Append(f.pages, q), allocated |-> n, meta |-> c]
<1> DEFINE g == WriteAll(f, ws)
<1>1. n \in Nat \ {0} /\ DOMAIN f.pages = 1 .. Len(f.pages) /\ Len(f.pages) \in Nat
  BY FileFacts
<1>2. \A i \in DOMAIN ws : \A m : ToPage(ws, i, m) <=> i \in {1, 3} /\ m = n
  BY <1>1 DEF ToPage
<1>3. Len(g.pages) = n /\ DOMAIN g.pages = 1 .. n
  <2>1. /\ Len(g.pages) \in Nat /\ DOMAIN g.pages = 1 .. Len(g.pages)
        /\ \A i \in DOMAIN ws : ws[i].at = "page" => ws[i].page <= Len(g.pages)
        /\ Len(g.pages) = Len(f.pages) \/ \E i \in DOMAIN ws : ToPage(ws, i, Len(g.pages))
    BY <1>1, WriteAllFacts
  <2>2. n <= Len(g.pages)
    BY <1>1, <2>1
  <2> QED BY <1>1, <1>2, <2>1, <2>2
<1>4. \A m \in DOMAIN g.pages : g.pages[m] = IF m = n THEN q ELSE f.pages[m]
  <2>1. ASSUME NEW m \in DOMAIN g.pages, m # n PROVE g.pages[m] = f.pages[m]
    BY <1>1, <1>2, <2>1, WriteAllFacts
  <2>2. n \in DOMAIN g.pages => g.pages[n] = ws[3].value
    <3>1. 3 \in DOMAIN ws /\ ToPage(ws, 3, n) /\ \A j \in DOMAIN ws : j > 3 => ~ ToPage(ws, j, n)
      BY <1>1, <1>2
    <3> QED BY <1>1, <3>1, WriteAllFacts
  <2> QED BY <1>1, <2>1, <2>2
<1>5. g.allocated = n
  <2>1. /\ 2 \in DOMAIN ws /\ ws[2].at = "header"
        /\ \A j \in DOMAIN ws : j > 2 => ws[j].at # "header"
    BY <1>1
  <2>2. g.allocated = ws[2].value
    BY <1>1, <2>1, WriteAllFacts
  <2> QED BY <1>1, <2>2
<1>6. g.meta = c
  <2>1. /\ 4 \in DOMAIN ws /\ ws[4].at = "meta"
        /\ \A j \in DOMAIN ws : j > 4 => ws[j].at # "meta"
    BY <1>1
  <2>2. g.meta = ws[4].value
    BY <1>1, <2>1, WriteAllFacts
  <2> QED BY <1>1, <2>2
<1>7. [m \in 1 .. Len(g.pages) |-> g.pages[m]] = Append(f.pages, q)
  <2>1. f.pages \in Seq(PageTypes)
    BY DEF FileTypes
  <2>2. Len(Append(f.pages, q)) = n /\ DOMAIN Append(f.pages, q) = 1 .. n
    BY <1>1, <2>1
  <2>3. \A m \in 1 .. n : Append(f.pages, q)[m] = IF m = n THEN q ELSE f.pages[m]
    BY <1>1, <2>1
  <2>4. Append(f.pages, q) = [m \in 1 .. n |-> Append(f.pages, q)[m]]
    BY <2>1, <2>2
  <2> QED BY <1>3, <1>4, <2>3, <2>4
<1>8. g = [pages |-> [m \in 1 .. Len(g.pages) |-> g.pages[m]],
            allocated |-> g.allocated, meta |-> g.meta]
  BY <1>1, WriteAllFacts
<1> HIDE DEF g
<1> QED BY <1>1, <1>5, <1>6, <1>7, <1>8 DEF g

LEMMA Concatenated ==
    ASSUME NEW S, NEW s \in Seq(S), NEW t \in Seq(S)
    PROVE  /\ s \o t \in Seq(S) /\ Len(s \o t) = Len(s) + Len(t)
           /\ Len(s) \in Nat /\ Len(t) \in Nat
           /\ DOMAIN (s \o t) = 1 .. (Len(s) + Len(t))
           /\ \A i \in 1 .. Len(s) : (s \o t)[i] = s[i]
           /\ \A i \in 1 .. Len(t) : (s \o t)[Len(s) + i] = t[i]
OBVIOUS

NextPage(f) == Len(f.pages) + 1
PageAdded(n, q, a, d, k) == AllocatePage(n) \o <<WritePage(n, q), WriteMeta(a, d, k)>>

LEMMA AppendedPage ==
    ASSUME NEW f \in FileTypes, NEW q \in PageTypes, NEW a \in Int, NEW d \in Int, NEW k \in Int
    PROVE  LET n == NextPage(f)
               ws == PageAdded(n, q, a, d, k)
           IN /\ ws \in Seq(WriteTypes) /\ Len(ws) = 4 /\ DOMAIN ws = 1 .. 4
              /\ ws[1].at = "page" /\ ws[1].page = n
              /\ ws[2].at = "header" /\ ws[2].value = n /\ ws[3].at = "page" /\ ws[4].at = "meta"
              /\ WriteAll(f, ws) =
                   [pages |-> Append(f.pages, q), allocated |-> n,
                    meta |-> [active |-> a, deleted |-> d, pages |-> k]]
<1> DEFINE n == NextPage(f)
           w1 == WritePage(n, EmptyPage)
           w2 == [at |-> "header", value |-> n]
           w3 == WritePage(n, q)
           w4 == WriteMeta(a, d, k)
           grow == <<w1, w2>>
           fill == <<w3, w4>>
           ws == grow \o fill
<1>1. n \in Nat \ {0} /\ n = Len(f.pages) + 1
  BY FileFacts DEF NextPage
<1> HIDE DEF n
<1>2. /\ w1 \in WriteTypes /\ w1.at = "page" /\ w1.page = n
      /\ w2 \in WriteTypes /\ w2.at = "header" /\ w2.value = n
      /\ w3 \in WriteTypes /\ w3.at = "page" /\ w3.page = n /\ w3.value = q
      /\ w4 \in WriteTypes /\ w4.at = "meta"
      /\ w4.value = [active |-> a, deleted |-> d, pages |-> k]
  <2>1. w1 \in WriteTypes /\ w1.at = "page" /\ w1.page = n
    BY <1>1, EmptyPageFacts, PageWriteFacts
  <2>2. w2 \in WriteTypes /\ w2.at = "header" /\ w2.value = n
    BY <1>1, HeaderWriteFacts
  <2>3. w3 \in WriteTypes /\ w3.at = "page" /\ w3.page = n /\ w3.value = q
    BY <1>1, PageWriteFacts
  <2>4. /\ w4 \in WriteTypes /\ w4.at = "meta"
        /\ w4.value = [active |-> a, deleted |-> d, pages |-> k]
    BY MetaWriteFacts
  <2> QED BY <2>1, <2>2, <2>3, <2>4
<1>3. ws = PageAdded(n, q, a, d, k)
  BY DEF AllocatePage, PageAdded
<1> HIDE DEF w1, w2, w3, w4
<1>4. grow \in Seq(WriteTypes) /\ Len(grow) = 2 /\ grow[1] = w1 /\ grow[2] = w2
  BY <1>2
<1>5. fill \in Seq(WriteTypes) /\ Len(fill) = 2 /\ fill[1] = w3 /\ fill[2] = w4
  BY <1>2
<1> HIDE DEF grow, fill
<1>6. /\ ws \in Seq(WriteTypes) /\ Len(ws) = 4 /\ DOMAIN ws = 1 .. 4
      /\ \A i \in 1 .. 2 : ws[i] = grow[i]
      /\ \A i \in 1 .. 2 : ws[2 + i] = fill[i]
  <2>1. /\ ws \in Seq(WriteTypes) /\ Len(ws) = Len(grow) + Len(fill)
        /\ \A i \in 1 .. Len(grow) : ws[i] = grow[i]
        /\ \A i \in 1 .. Len(fill) : ws[Len(grow) + i] = fill[i]
    <3>1. grow \in Seq(WriteTypes) /\ fill \in Seq(WriteTypes)
      BY <1>4, <1>5
    <3> QED BY <3>1, Concatenated
  <2>2. Len(ws) = 4
    BY <1>4, <1>5, <2>1
  <2>3. DOMAIN ws = 1 .. 4
    BY <2>1, <2>2
  <2> QED BY <1>4, <1>5, <2>1, <2>2, <2>3
<1>7. ws[1] = w1 /\ ws[2] = w2 /\ ws[3] = w3 /\ ws[4] = w4
  <2>1. ws[2 + 1] = w3 /\ ws[2 + 2] = w4
    BY <1>5, <1>6
  <2> QED BY <1>4, <1>6, <2>1
<1> HIDE DEF ws
<1>8. WriteAll(f, ws) =
        [pages |-> Append(f.pages, q), allocated |-> n,
         meta |-> [active |-> a, deleted |-> d, pages |-> k]]
  <2> DEFINE c == [active |-> a, deleted |-> d, pages |-> k]
  <2>1. /\ f \in FileTypes /\ q \in PageTypes /\ n = Len(f.pages) + 1
        /\ ws \in Seq(WriteTypes) /\ Len(ws) = 4 /\ DOMAIN ws = 1 .. 4
        /\ ws[1].at = "page" /\ ws[1].page = n
        /\ ws[2].at = "header" /\ ws[2].value = n
        /\ ws[3].at = "page" /\ ws[3].page = n /\ ws[3].value = q
        /\ ws[4].at = "meta" /\ ws[4].value = c
    BY <1>1, <1>2, <1>6, <1>7
  <2> HIDE DEF c
  <2>2. WriteAll(f, ws) = [pages |-> Append(f.pages, q), allocated |-> n, meta |-> c]
    BY ONLY <2>1, FourWritesDone
  <2> QED BY <2>2 DEF c
<1> QED BY <1>2, <1>3, <1>6, <1>7, <1>8 DEF n

\* A file that opens.
Sound(f) == f \in FileTypes /\ Opens(f)

LEMMA TornFacts ==
    ASSUME NEW w \in WriteTypes
    PROVE  /\ Torn(w) \in WriteTypes /\ Torn(w).at = w.at
           /\ w.at = "page" => /\ Torn(w).page = w.page /\ Torn(w).value \in PageTypes
                               /\ Torn(w).value = [slots |-> <<>>, holes |-> PageBytes + 1]
           /\ w.at = "meta" => Torn(w).value.pages = -1
<1>1. CASE w.at = "page"
  <2> DEFINE torn == [slots |-> <<>>, holes |-> PageBytes + 1]
  <2>1. torn \in PageTypes
    BY PageAssumption DEF PageTypes
  <2>2. w \in [at : {"page"}, page : Nat \ {0}, value : PageTypes]
    BY <1>1 DEF WriteTypes
  <2>3. Torn(w) = [w EXCEPT !.value = torn]
    BY <1>1 DEF Torn
  <2> HIDE DEF torn
  <2> QED BY <1>1, <2>1, <2>2, <2>3 DEF WriteTypes, torn
<1>2. CASE w.at = "header"
  <2>1. w \in [at : {"header"}, value : Int]
    BY <1>2 DEF WriteTypes
  <2>2. Torn(w) = [w EXCEPT !.value = -1]
    BY <1>2 DEF Torn
  <2> QED BY <1>2, <2>1, <2>2 DEF WriteTypes
<1>3. CASE w.at = "meta"
  <2>1. w \in [at : {"meta"}, value : MetaTypes]
    BY <1>3 DEF WriteTypes
  <2>2. Torn(w) = [w EXCEPT !.value = [w.value EXCEPT !.pages = -1]]
    BY <1>3 DEF Torn
  <2>3. [w.value EXCEPT !.pages = -1] \in MetaTypes /\ [w.value EXCEPT !.pages = -1].pages = -1
    BY <2>1 DEF MetaTypes
  <2> QED BY <1>3, <2>1, <2>2, <2>3 DEF WriteTypes
<1> QED BY <1>1, <1>2, <1>3 DEF WriteTypes

\* No page write and no counters: the file stays.
LEMMA NothingWritten ==
    ASSUME NEW f \in FileTypes, NEW ws \in Seq(WriteTypes), Len(ws) = 0
    PROVE  WriteAll(f, ws) = f
<1> DEFINE g == WriteAll(f, ws)
<1>1. \A i \in DOMAIN ws : FALSE
  OBVIOUS
<1>2. /\ Len(g.pages) \in Nat /\ DOMAIN g.pages = 1 .. Len(g.pages)
      /\ Len(g.pages) = Len(f.pages)
      /\ \A n \in DOMAIN g.pages : g.pages[n] = f.pages[n]
      /\ g.allocated = f.allocated /\ g.meta = f.meta
      /\ g = [pages |-> [n \in 1 .. Len(g.pages) |-> g.pages[n]],
              allocated |-> g.allocated, meta |-> g.meta]
  BY <1>1, WriteAllFacts
<1>3. [n \in 1 .. Len(g.pages) |-> g.pages[n]] = f.pages
  BY <1>2, FileFacts DEF FileTypes
<1> HIDE DEF g
<1> QED BY <1>2, <1>3 DEF FileTypes, g

\* What a failure leaves is one of these sequences of writes.
LEMMA FailedWritesFacts ==
    ASSUME NEW f, NEW ws \in Seq(WriteTypes), NEW h \in FailedWrites(f, ws)
    PROVE  \E vs \in Seq(WriteTypes) :
             /\ h = WriteAll(f, vs)
             /\ Len(vs) <= Len(ws)
             /\ \/ \A i \in DOMAIN vs : vs[i] = ws[i]
                \/ /\ Len(vs) > 0
                   /\ \A i \in DOMAIN vs : i # Len(vs) => vs[i] = ws[i]
                   /\ vs[Len(vs)] = Torn(ws[Len(vs)])
<1>1. CASE \E n \in 0 .. Len(ws) : h = WriteAll(f, SubSeq(ws, 1, n))
  <2>1. PICK n \in 0 .. Len(ws) : h = WriteAll(f, SubSeq(ws, 1, n))
    BY <1>1
  <2>2. /\ SubSeq(ws, 1, n) \in Seq(WriteTypes) /\ Len(SubSeq(ws, 1, n)) = n
        /\ \A i \in 1 .. n : SubSeq(ws, 1, n)[i] = ws[i]
    OBVIOUS
  <2>3. DOMAIN SubSeq(ws, 1, n) = 1 .. n
    BY <2>2
  <2>4. n <= Len(ws)
    OBVIOUS
  <2> QED BY <2>1, <2>2, <2>3, <2>4
<1>2. CASE \E n \in DOMAIN ws : h = WriteAll(f, Append(SubSeq(ws, 1, n - 1), Torn(ws[n])))
  <2>1. PICK n \in DOMAIN ws : h = WriteAll(f, Append(SubSeq(ws, 1, n - 1), Torn(ws[n])))
    BY <1>2
  <2> DEFINE some == SubSeq(ws, 1, n - 1)
             torn == Torn(ws[n])
             vs == Append(some, torn)
  <2>2. n \in 1 .. Len(ws) /\ Len(ws) \in Nat /\ torn \in WriteTypes
    BY TornFacts
  <2>3. some \in Seq(WriteTypes) /\ Len(some) = n - 1 /\ \A i \in 1 .. n - 1 : some[i] = ws[i]
    BY <2>2
  <2> HIDE DEF some, torn
  <2>4. /\ vs \in Seq(WriteTypes) /\ Len(vs) = n /\ vs[n] = torn
        /\ \A i \in 1 .. n - 1 : vs[i] = ws[i]
    BY <2>2, <2>3
  <2>5. DOMAIN vs = 1 .. n
    BY <2>4
  <2>6. h = WriteAll(f, vs)
    BY <2>1 DEF some, torn
  <2> HIDE DEF vs
  <2>7. \A i \in DOMAIN vs : i # Len(vs) => vs[i] = ws[i]
    BY <2>2, <2>4, <2>5
  <2>8. Len(vs) <= Len(ws) /\ Len(vs) > 0
    BY <2>2, <2>4
  <2> QED BY <2>4, <2>6, <2>7, <2>8 DEF torn
<1> QED BY <1>1, <1>2 DEF FailedWrites

\* Only the last write touches the counters, and the first one lengthens the
\* file: what a failure leaves opens only if it is nothing or all of it.
LEMMA FailedGrowth ==
    ASSUME NEW f, Sound(f), NEW ws \in Seq(WriteTypes), Len(ws) > 1,
           ws[Len(ws)].at = "meta",
           \A i \in DOMAIN ws : i # Len(ws) => ws[i].at # "meta",
           ws[1].at = "page", ws[1].page > Len(f.pages),
           NEW h \in FailedWrites(f, ws), Opens(h)
    PROVE  h = f \/ h = WriteAll(f, ws)
<1>1. PICK vs \in Seq(WriteTypes) :
             /\ h = WriteAll(f, vs)
             /\ Len(vs) <= Len(ws)
             /\ \/ \A i \in DOMAIN vs : vs[i] = ws[i]
                \/ /\ Len(vs) > 0
                   /\ \A i \in DOMAIN vs : i # Len(vs) => vs[i] = ws[i]
                   /\ vs[Len(vs)] = Torn(ws[Len(vs)])
  BY FailedWritesFacts
<1>2. /\ f \in FileTypes /\ f.meta.pages = Len(f.pages)
      /\ Len(f.pages) \in Nat /\ f.meta.pages \in Nat
  BY FileFacts DEF Sound, Opens, LengthIsCounted, MetadataAgrees
<1>3. h.allocated = Len(h.pages) /\ h.meta.pages = h.allocated /\ Len(h.pages) \in Nat
  BY <1>1, <1>2, WriteAllFacts DEF Opens, LengthIsCounted, MetadataAgrees
<1>4. /\ DOMAIN vs = 1 .. Len(vs) /\ Len(vs) \in Nat
      /\ DOMAIN ws = 1 .. Len(ws) /\ Len(ws) \in Nat
  OBVIOUS
<1>5. \A i \in DOMAIN vs : /\ ws[i] \in WriteTypes /\ vs[i].at = ws[i].at
                           /\ ws[i].at = "page" => vs[i].page = ws[i].page
  <2>1. ASSUME NEW i \in DOMAIN vs
        PROVE  ws[i] \in WriteTypes /\ (vs[i] = ws[i] \/ vs[i] = Torn(ws[i]))
    <3>1. i \in DOMAIN ws
      BY <1>1, <1>4
    <3> QED BY <1>1, <3>1
  <2> QED BY <2>1, TornFacts
<1>6. CASE Len(vs) = 0
  BY <1>1, <1>2, <1>6, NothingWritten
<1>7. CASE Len(vs) > 0 /\ Len(vs) < Len(ws)
  <2>1. \A i \in DOMAIN vs : vs[i].at # "meta"
    BY <1>4, <1>5, <1>7
  <2>2. h.meta = f.meta
    BY <1>1, <1>2, <2>1, WriteAllFacts
  <2>3. 1 \in DOMAIN vs /\ vs[1].at = "page" /\ vs[1].page = ws[1].page /\ ws[1].page \in Nat
    <3>1. 1 \in DOMAIN vs
      BY <1>4, <1>7
    <3>2. ws[1] \in WriteTypes /\ vs[1].at = "page" /\ vs[1].page = ws[1].page
      BY <1>5, <3>1
    <3>3. ws[1].page \in Nat
      BY <3>2 DEF WriteTypes
    <3> QED BY <3>1, <3>2, <3>3
  <2>4. vs[1].page <= Len(h.pages)
    BY <1>1, <1>2, <2>3, WriteAllFacts
  <2>5. Len(h.pages) = Len(f.pages)
    BY <1>2, <1>3, <2>2
  <2>6. vs[1].page > Len(f.pages)
    BY <2>3
  <2> QED BY <1>2, <2>3, <2>4, <2>5, <2>6
<1>8. CASE Len(vs) = Len(ws)
  <2>1. CASE \A i \in DOMAIN vs : vs[i] = ws[i]
    <3>1. vs = ws
      BY <1>4, <1>8, <2>1
    <3> QED BY <1>1, <3>1
  <2>2. CASE vs[Len(vs)] = Torn(ws[Len(vs)])
    <3>1. vs[Len(vs)].at = "meta" /\ vs[Len(vs)].value.pages = -1 /\ Len(vs) \in DOMAIN vs
      BY <1>4, <1>5, <1>8, <2>2, TornFacts
    <3>2. \A j \in DOMAIN vs : j > Len(vs) => vs[j].at # "meta"
      BY <1>4
    <3>3. h.meta = vs[Len(vs)].value
      BY <1>1, <1>2, <3>1, <3>2, WriteAllFacts
    <3> QED BY <1>3, <3>1, <3>3
  <2> QED BY <1>1, <2>1, <2>2
<1>9. Len(vs) = 0 \/ (Len(vs) > 0 /\ Len(vs) < Len(ws)) \/ Len(vs) = Len(ws)
  <2>1. Len(vs) \in Nat /\ Len(ws) \in Nat /\ Len(vs) <= Len(ws)
    BY <1>1, <1>4
  <2> QED BY <2>1
<1> QED BY <1>6, <1>7, <1>8, <1>9

\* One page of the file is written, then the counters, and the number of rows
\* changes: again nothing or all.
LEMMA FailedInPlace ==
    ASSUME NEW f, Sound(f), NEW n \in DOMAIN f.pages, NEW q \in PageTypes,
           NEW ws \in Seq(WriteTypes), Len(ws) = 2, ws[1] = WritePage(n, q), ws[2].at = "meta",
           \A g : g.pages = [f.pages EXCEPT ![n] = q] => ActiveRows(g) # ActiveRows(f),
           NEW h \in FailedWrites(f, ws), Opens(h)
    PROVE  h = f \/ h = WriteAll(f, ws)
<1> DEFINE w == WritePage(n, q)
           c == ws[2]
<1>1. f \in FileTypes /\ n \in Nat \ {0}
  <2>1. f \in FileTypes
    BY DEF Sound
  <2> QED BY <2>1, PageNumbers
<1>2. /\ w \in WriteTypes /\ w.at = "page" /\ w.page = n /\ w.value = q
      /\ c \in WriteTypes /\ c.at = "meta"
  BY <1>1, PageWriteFacts
<1>3. Len(ws) = 2 /\ ws[1] = w /\ ws[2] = c
  OBVIOUS
<1> HIDE DEF w, c
<1>4. PICK vs \in Seq(WriteTypes) :
             /\ h = WriteAll(f, vs)
             /\ Len(vs) <= Len(ws)
             /\ \/ \A i \in DOMAIN vs : vs[i] = ws[i]
                \/ /\ Len(vs) > 0
                   /\ \A i \in DOMAIN vs : i # Len(vs) => vs[i] = ws[i]
                   /\ vs[Len(vs)] = Torn(ws[Len(vs)])
  BY FailedWritesFacts
<1>5. CASE Len(vs) = 0
  BY <1>1, <1>4, <1>5, NothingWritten
<1>6. CASE Len(vs) = 1
  <2>1. PICK p \in PageTypes : /\ vs = <<WritePage(n, p)>>
                               /\ p = q \/ ~ LayoutIsValid(p)
    <3>1. CASE vs[1] = ws[1]
      <4>1. vs = <<WritePage(n, q)>>
        BY <1>3, <1>6, <3>1 DEF w
      <4> QED BY <4>1
    <3>2. CASE vs[1] = Torn(ws[1])
      <4> DEFINE p == Torn(ws[1]).value
      <4>1. p \in PageTypes /\ p = [slots |-> <<>>, holes |-> PageBytes + 1]
        BY <1>2, <1>3, TornFacts
      <4>2. Torn(w) = WritePage(n, p)
        BY <1>2, <1>3 DEF Torn, WritePage, w
      <4>3. vs = <<WritePage(n, p)>>
        BY <1>3, <1>6, <3>2, <4>2
      <4>4. Live(p) = {} /\ Len(p.slots) = 0 /\ p.holes = PageBytes + 1
        BY <4>1 DEF Live
      <4>5. Bytes(p) = 0
        <5>1. Live(p) = Live(EmptyPage)
          BY <4>4, EmptyPageFacts
        <5> QED BY <4>1, <4>4, <5>1, EmptyPageFacts, BytesOf
      <4>6. ~ LayoutIsValid(p)
        BY <4>4, <4>5, PageAssumption DEF LayoutIsValid, FreeSpace
      <4> QED BY <4>1, <4>3, <4>6
    <3> QED BY <1>4, <1>6, <3>1, <3>2
  <2>2. h = [pages |-> [f.pages EXCEPT ![n] = p], allocated |-> f.allocated, meta |-> f.meta]
    BY <1>1, <1>4, <2>1, OnePageWritten
  <2>3. /\ h.pages = [f.pages EXCEPT ![n] = p] /\ h.meta = f.meta
        /\ n \in DOMAIN h.pages /\ h.pages[n] = p
    BY <2>2
  <2>4. p = q
    BY <2>1, <2>3 DEF Opens, CountersAgree
  <2>5. ActiveRows(h) # ActiveRows(f)
    BY <2>3, <2>4
  <2> QED BY <2>3, <2>5 DEF Sound, Opens, CountersAgree
<1>7. CASE Len(vs) = 2
  <2>1. CASE \A i \in DOMAIN vs : vs[i] = ws[i]
    <3>1. vs = ws
      BY <1>3, <1>7, <2>1
    <3> QED BY <1>4, <3>1
  <2>2. CASE vs[1] = ws[1] /\ vs[2] = Torn(ws[2])
    <3>1. vs[2].at = "meta" /\ vs[2].value.pages = -1 /\ 2 \in DOMAIN vs
      BY <1>2, <1>3, <1>7, <2>2, TornFacts
    <3>2. \A j \in DOMAIN vs : j > 2 => vs[j].at # "meta"
      BY <1>7
    <3>3. h.meta = vs[2].value
      BY <1>1, <1>4, <3>1, <3>2, WriteAllFacts
    <3>4. h.meta.pages = Len(h.pages) /\ Len(h.pages) \in Nat
      BY <1>1, <1>4, WriteAllFacts DEF Opens, LengthIsCounted, MetadataAgrees
    <3> QED BY <3>1, <3>3, <3>4
  <2> QED BY <1>4, <1>7, <2>1, <2>2
<1>8. Len(vs) = 0 \/ Len(vs) = 1 \/ Len(vs) = 2
  <2> DEFINE l == Len(vs)
  <2>1. l \in Nat /\ l <= 2
    BY <1>3, <1>4
  <2> HIDE DEF l
  <2>2. l = 0 \/ l = 1 \/ l = 2
    BY <2>1
  <2> QED BY <2>2 DEF l
<1> QED BY <1>5, <1>6, <1>7, <1>8

-----------------------------------------------------------------------------
(***************************************************************************)
(* One page of a file is replaced, or one is appended.                     *)
(***************************************************************************)
LEMMA PairSets ==
    ASSUME NEW A, NEW B, \A x \in A : x = <<x[1], x[2]>>, \A x \in B : x = <<x[1], x[2]>>,
           \A m, s : <<m, s>> \in A <=> <<m, s>> \in B
    PROVE  A = B
<1>1. \A x \in A : x \in B
  OBVIOUS
<1>2. \A x \in B : x \in A
  OBVIOUS
<1> QED BY <1>1, <1>2

\* The files f and g have the same pages but for page n, which is q in g.
Differs(f, g, n, q) ==
  /\ \A m : m \in DOMAIN g.pages <=> m = n \/ m \in DOMAIN f.pages
  /\ \A m \in DOMAIN f.pages : m # n => g.pages[m] = f.pages[m]
  /\ g.pages[n] = q

LEMMA RidsArePairs ==
    ASSUME NEW f
    PROVE  \A x \in RidsOf(f) : x \in SlotsOf(f) /\ x = <<x[1], x[2]>>
BY SlotFacts DEF RidsOf

\* One row more in page n: at slot s, which is new or was free.
LEMMA RowPut ==
    ASSUME NEW f \in FileTypes, NEW g \in FileTypes, NEW n, NEW q \in PageTypes,
           Differs(f, g, n, q), NEW p \in PageTypes, NEW s,
           n \in DOMAIN f.pages => p = f.pages[n],
           n \notin DOMAIN f.pages => p = EmptyPage,
           s \notin Live(p), Live(q) = Live(p) \cup {s},
           DOMAIN q.slots = DOMAIN p.slots \cup {s},
           \A t \in DOMAIN p.slots \ {s} : q.slots[t] = p.slots[t]
    PROVE  /\ <<n, s>> \notin RidsOf(f) /\ RidsOf(g) = RidsOf(f) \cup {<<n, s>>}
           /\ \A x \in RidsOf(f) : RowAt(g, x) = RowAt(f, x)
           /\ RowAt(g, <<n, s>>) = q.slots[s]
           /\ Contents(g) = Contents(f) (+) SetToBag({q.slots[s]})
           /\ ActiveRows(g) = ActiveRows(f) + 1
           /\ s \in DOMAIN p.slots => FreeSlots(g) = FreeSlots(f) - 1
           /\ s \notin DOMAIN p.slots => FreeSlots(g) = FreeSlots(f)
<1> DEFINE rid == <<n, s>>
<1>1. \A t : <<n, t>> \in SlotsOf(f) <=> t \in DOMAIN p.slots
  BY SlotFacts DEF EmptyPage
<1>2. \A t : <<n, t>> \in RidsOf(f) <=> t \in Live(p)
  BY SlotFacts, EmptyPageFacts
<1>3. \A m, t : <<m, t>> \in SlotsOf(g) <=> <<m, t>> = rid \/ <<m, t>> \in SlotsOf(f)
  BY <1>1, SlotFacts DEF Differs
<1>4. \A m, t : <<m, t>> \in RidsOf(g) <=> <<m, t>> = rid \/ <<m, t>> \in RidsOf(f)
  <2>1. ASSUME NEW m, NEW t, m # n PROVE <<m, t>> \in RidsOf(g) <=> <<m, t>> \in RidsOf(f)
    BY <2>1, SlotFacts DEF Differs
  <2>2. ASSUME NEW t PROVE <<n, t>> \in RidsOf(g) <=> t = s \/ <<n, t>> \in RidsOf(f)
    BY <1>2, SlotFacts DEF Differs
  <2>3. \A m, t : <<m, t>> = rid <=> m = n /\ t = s
    OBVIOUS
  <2> HIDE DEF rid
  <2> QED BY <2>1, <2>2, <2>3
<1>5. SlotsOf(g) = SlotsOf(f) \cup {rid} /\ RidsOf(g) = RidsOf(f) \cup {rid}
  <2>1. \A x \in SlotsOf(f) \cup {rid} : x = <<x[1], x[2]>>
    BY SlotFacts
  <2>2. \A x \in SlotsOf(g) : x = <<x[1], x[2]>>
    BY SlotFacts
  <2>3. \A x \in RidsOf(f) \cup {rid} : x = <<x[1], x[2]>>
    BY RidsArePairs
  <2>4. \A x \in RidsOf(g) : x = <<x[1], x[2]>>
    BY RidsArePairs
  <2> HIDE DEF rid
  <2>5. SlotsOf(g) = SlotsOf(f) \cup {rid}
    BY <1>3, <2>1, <2>2, PairSets
  <2>6. RidsOf(g) = RidsOf(f) \cup {rid}
    BY <1>4, <2>3, <2>4, PairSets
  <2> QED BY <2>5, <2>6
<1>6. rid \notin RidsOf(f)
  BY <1>2
<1>7. ASSUME NEW x \in RidsOf(f) PROVE RowAt(g, x) = RowAt(f, x)
  <2>1. PICK m, t : x = <<m, t>> /\ m \in DOMAIN f.pages /\ t \in DOMAIN f.pages[m].slots
    BY SlotFacts, RidsArePairs
  <2>2. RowAt(g, x) = g.pages[m].slots[t] /\ RowAt(f, x) = f.pages[m].slots[t]
    BY <2>1, SlotFacts
  <2>3. CASE m = n
    BY <1>6, <2>1, <2>2, <2>3 DEF Differs
  <2>4. CASE m # n
    BY <2>1, <2>2, <2>4 DEF Differs
  <2> QED BY <2>3, <2>4
<1>8. RowAt(g, rid) = q.slots[s]
  BY SlotFacts DEF Differs
<1>9. /\ Contents(g) = Contents(f) (+) SetToBag({RowAt(g, rid)})
      /\ ActiveRows(g) = ActiveRows(f) + 1
  <2> DEFINE h == [x \in RidsOf(f) |-> x]
  <2>1. Matches(RidsOf(f), RidsOf(g) \ {rid}, h)
    BY <1>5, <1>6 DEF Matches
  <2>2. \A x \in RidsOf(f) : RowAt(g, h[x]) = RowAt(f, x)
    BY <1>7
  <2>3. rid \in RidsOf(g)
    BY <1>5
  <2> HIDE DEF h, rid
  <2> QED BY <2>1, <2>2, <2>3, RowAdded
<1>10. /\ s \in DOMAIN p.slots => FreeSlots(g) = FreeSlots(f) - 1
       /\ s \notin DOMAIN p.slots => FreeSlots(g) = FreeSlots(f)
  <2> DEFINE old == SlotsOf(f) \ RidsOf(f)
             new == SlotsOf(g) \ RidsOf(g)
  <2>1. new = old \ {rid}
    BY <1>5
  <2>2. rid \in old <=> s \in DOMAIN p.slots
    BY <1>1, <1>6
  <2>3. IsFiniteSet(old) /\ FreeSlots(f) = Cardinality(old) /\ FreeSlots(g) = Cardinality(new)
    BY FileFacts DEF FreeSlots
  <2> HIDE DEF old, new, rid
  <2>4. CASE rid \in old
    <3>1. Cardinality(old \ {rid}) = Cardinality(old) - 1
      BY <2>3, <2>4, FS_RemoveElement
    <3> QED BY <2>1, <2>2, <2>3, <2>4, <3>1
  <2>5. CASE rid \notin old
    <3>1. old \ {rid} = old
      BY <2>5
    <3> QED BY <2>1, <2>2, <2>3, <2>5, <3>1
  <2> QED BY <2>4, <2>5
<1> QED BY <1>5, <1>6, <1>7, <1>8, <1>9, <1>10

\* One row less in page n, at slot s, which is free now.
LEMMA RowTaken ==
    ASSUME NEW f \in FileTypes, NEW g \in FileTypes, NEW n \in DOMAIN f.pages,
           NEW q \in PageTypes, Differs(f, g, n, q), NEW s \in Live(f.pages[n]),
           Live(q) = Live(f.pages[n]) \ {s}, DOMAIN q.slots = DOMAIN f.pages[n].slots,
           \A t \in DOMAIN q.slots \ {s} : q.slots[t] = f.pages[n].slots[t]
    PROVE  /\ RidsOf(g) = RidsOf(f) \ {<<n, s>>}
           /\ \A x \in RidsOf(g) : RowAt(g, x) = RowAt(f, x)
           /\ Contents(g) = Contents(f) (-) SetToBag({RowAt(f, <<n, s>>)})
           /\ ActiveRows(f) = ActiveRows(g) + 1
           /\ FreeSlots(g) = FreeSlots(f) + 1
<1> DEFINE p == f.pages[n]
           rid == <<n, s>>
<1>1. Differs(g, f, n, p) /\ p \in PageTypes /\ q = g.pages[n] /\ n \in DOMAIN g.pages
  BY PageNumbers DEF Differs
<1>2. s \in DOMAIN p.slots /\ DOMAIN p.slots = DOMAIN q.slots \cup {s} /\ s \in DOMAIN q.slots
  BY PageFacts, <1>1
<1>3. \A t \in DOMAIN q.slots \ {s} : p.slots[t] = q.slots[t]
  OBVIOUS
<1>4. s \notin Live(q) /\ Live(p) = Live(q) \cup {s}
  OBVIOUS
<1> HIDE DEF p
<1>5. /\ rid \notin RidsOf(g) /\ RidsOf(f) = RidsOf(g) \cup {rid}
      /\ \A x \in RidsOf(g) : RowAt(f, x) = RowAt(g, x)
      /\ RowAt(f, rid) = p.slots[s]
      /\ Contents(f) = Contents(g) (+) SetToBag({p.slots[s]})
      /\ ActiveRows(f) = ActiveRows(g) + 1
      /\ FreeSlots(f) = FreeSlots(g) - 1
  BY <1>1, <1>2, <1>3, <1>4, RowPut
<1>6. Contents(g) = Contents(f) (-) SetToBag({RowAt(f, rid)})
  <2>1. Contents(g) \in [DOMAIN Contents(g) -> Nat \ {0}]
    BY ContentsAreABag
  <2> QED BY <1>5, <2>1, AddedAndRemoved
<1>7. FreeSlots(g) = FreeSlots(f) + 1
  <2>1. FreeSlots(g) \in Nat /\ FreeSlots(f) \in Nat
    BY FileFacts
  <2> QED BY <1>5, <2>1
<1> QED BY <1>5, <1>6, <1>7

-----------------------------------------------------------------------------
(***************************************************************************)
(* The storage calls: what a deletion and an insertion into a heap leave,  *)
(* completed or failed.                                                    *)
(***************************************************************************)
LEMMA OnPages ==
    ASSUME NEW f, NEW g, f.pages = g.pages
    PROVE  SlotsOf(f) = SlotsOf(g) /\ RidsOf(f) = RidsOf(g) /\ ActiveRows(f) = ActiveRows(g)
<1>1. SlotsOf(f) = SlotsOf(g)
  BY DEF SlotsOf
<1>2. RidsOf(f) = RidsOf(g)
  BY <1>1 DEF RidsOf, RowAt
<1> QED BY <1>1, <1>2 DEF ActiveRows

LEMMA SoundFacts ==
    ASSUME NEW f, Sound(f)
    PROVE  /\ f \in FileTypes /\ f.allocated = Len(f.pages)
           /\ f.meta = [active |-> ActiveRows(f), deleted |-> FreeSlots(f), pages |-> Len(f.pages)]
           /\ f.meta.active = ActiveRows(f) /\ f.meta.deleted = FreeSlots(f)
           /\ f.meta.pages = Len(f.pages)
           /\ \A n \in DOMAIN f.pages : LayoutIsValid(f.pages[n])
<1>1. /\ f \in FileTypes /\ f.allocated = Len(f.pages)
      /\ f.meta.active = ActiveRows(f) /\ f.meta.deleted = FreeSlots(f)
      /\ f.meta.pages = Len(f.pages)
      /\ \A n \in DOMAIN f.pages : LayoutIsValid(f.pages[n])
  BY DEF Sound, Opens, LengthIsCounted, MetadataAgrees, CountersAgree
<1>2. f.meta = [active |-> f.meta.active, deleted |-> f.meta.deleted, pages |-> f.meta.pages]
  BY <1>1 DEF FileTypes
<1> QED BY <1>1, <1>2

\* What makes a file sound, field by field.
LEMMA SoundFile ==
    ASSUME NEW ps \in Seq(PageTypes), NEW g,
           g = [pages |-> ps, allocated |-> Len(ps),
                meta |-> [active |-> ActiveRows(g), deleted |-> FreeSlots(g), pages |-> Len(ps)]],
           ActiveRows(g) \in Nat, FreeSlots(g) \in Nat,
           \A n \in DOMAIN ps : LayoutIsValid(ps[n])
    PROVE  Sound(g)
<1>1. g.pages = ps /\ g.allocated = Len(ps) /\ g.meta.pages = Len(ps)
      /\ g.meta.active = ActiveRows(g) /\ g.meta.deleted = FreeSlots(g)
  OBVIOUS
<1>2. Len(ps) \in Nat
  OBVIOUS
<1>3. g \in FileTypes
  <2>1. [active |-> ActiveRows(g), deleted |-> FreeSlots(g), pages |-> Len(ps)]
          \in [active : Nat, deleted : Nat, pages : Nat]
    BY <1>2
  <2> QED BY <1>2, <2>1 DEF FileTypes
<1> QED BY <1>1, <1>3 DEF Sound, Opens, LengthIsCounted, MetadataAgrees, CountersAgree

\* DELETE of one row.
LEMMA Deletion ==
    ASSUME NEW f, Sound(f), NEW rid \in RidsOf(f)
    PROVE  LET g == WriteAll(f, DeleteWrites(f, rid))
           IN /\ Sound(g) /\ RidsOf(g) = RidsOf(f) \ {rid}
              /\ \A x \in RidsOf(g) : RowAt(g, x) = RowAt(f, x)
              /\ Contents(g) = Contents(f) (-) SetToBag({RowAt(f, rid)})
              /\ \A h \in FailedWrites(f, DeleteWrites(f, rid)) : Opens(h) => h = f \/ h = g
<1> DEFINE n == rid[1]
           s == rid[2]
           p == f.pages[n]
           q == FreeSlot(p, s)
           ws == DeleteWrites(f, rid)
           g == WriteAll(f, ws)
<1>1. f \in FileTypes /\ Len(f.pages) \in Nat /\ f.allocated = Len(f.pages)
      /\ f.meta.pages = Len(f.pages)
  BY SoundFacts, FileFacts
<1>2. rid = <<n, s>> /\ n \in DOMAIN f.pages /\ s \in Live(p) /\ p \in PageTypes
  <2>1. rid = <<n, s>>
    BY RidsArePairs
  <2>2. n \in DOMAIN f.pages /\ s \in Live(p)
    BY <2>1, SlotFacts
  <2> QED BY <1>1, <2>1, <2>2, PageNumbers
<1>3. /\ q \in PageTypes /\ Live(q) = Live(p) \ {s} /\ DOMAIN q.slots = DOMAIN p.slots
      /\ \A t \in DOMAIN q.slots \ {s} : q.slots[t] = p.slots[t]
      /\ LayoutIsValid(q)
  <2>1. /\ q \in PageTypes /\ Len(q.slots) = Len(p.slots) /\ Live(q) = Live(p) \ {s}
        /\ \A t \in DOMAIN p.slots \ {s} : q.slots[t] = p.slots[t]
        /\ FreeSpace(q) = FreeSpace(p)
    BY <1>2, FreeSlotFacts
  <2>2. DOMAIN q.slots = DOMAIN p.slots
    BY <1>2, <2>1, PageFacts
  <2>3. LayoutIsValid(p)
    BY <1>2, SoundFacts
  <2> QED BY <2>1, <2>2, <2>3 DEF LayoutIsValid
<1>4. /\ ActiveRows(f) \in Nat \ {0} /\ FreeSlots(f) \in Nat
      /\ f.meta.active = ActiveRows(f) /\ f.meta.deleted = FreeSlots(f)
  <2>1. ActiveRows(f) # 0
    BY <1>1, FileFacts, FS_EmptySet DEF ActiveRows
  <2> QED BY <1>1, <2>1, FileFacts, SoundFacts
<1> DEFINE a == f.meta.active - 1
           d == f.meta.deleted + 1
           k == f.meta.pages
<1>5. a \in Nat /\ d \in Nat /\ k \in Nat
  BY <1>1, <1>4
<1>6. ws = <<WritePage(n, q), WriteMeta(a, d, k)>>
  BY DEF DeleteWrites
<1> HIDE DEF p, q, ws, a, d, k, n, s
<1>7. /\ ws \in Seq(WriteTypes) /\ Len(ws) = 2 /\ ws[1] = WritePage(n, q) /\ ws[2].at = "meta"
      /\ g = [pages |-> [f.pages EXCEPT ![n] = q], allocated |-> f.allocated,
              meta |-> [active |-> a, deleted |-> d, pages |-> k]]
  <2> DEFINE pair == <<WritePage(n, q), WriteMeta(a, d, k)>>
  <2>1. /\ pair \in Seq(WriteTypes) /\ Len(pair) = 2
        /\ pair[1] = WritePage(n, q) /\ pair[2].at = "meta"
        /\ WriteAll(f, pair) =
             [pages |-> [f.pages EXCEPT ![n] = q], allocated |-> f.allocated,
              meta |-> [active |-> a, deleted |-> d, pages |-> k]]
    BY <1>1, <1>2, <1>3, <1>5, PageThenCounters
  <2>2. ws = pair
    BY <1>6
  <2> HIDE DEF pair
  <2> QED BY <2>1, <2>2
<1> DEFINE ps == [f.pages EXCEPT ![n] = q]
<1>8. ps \in Seq(PageTypes) /\ Len(ps) = Len(f.pages) /\ DOMAIN ps = DOMAIN f.pages
      /\ ps[n] = q /\ \A m \in DOMAIN f.pages : m # n => ps[m] = f.pages[m]
  BY <1>1, <1>2, <1>3 DEF FileTypes
<1>9. g.pages = ps /\ g.allocated = f.allocated
      /\ g.meta = [active |-> a, deleted |-> d, pages |-> k]
  BY <1>7
<1> HIDE DEF ps
<1>10. g \in FileTypes
  <2>1. [active |-> a, deleted |-> d, pages |-> k] \in [active : Nat, deleted : Nat, pages : Nat]
    BY <1>5
  <2> QED BY <1>1, <1>7, <1>8, <2>1 DEF FileTypes, ps
<1> HIDE DEF g
<1>11. Differs(f, g, n, q)
  BY <1>2, <1>8, <1>9 DEF Differs
<1>12. /\ RidsOf(g) = RidsOf(f) \ {rid}
       /\ \A x \in RidsOf(g) : RowAt(g, x) = RowAt(f, x)
       /\ Contents(g) = Contents(f) (-) SetToBag({RowAt(f, rid)})
       /\ ActiveRows(f) = ActiveRows(g) + 1
       /\ FreeSlots(g) = FreeSlots(f) + 1
  <2>1. /\ n \in DOMAIN f.pages /\ s \in Live(f.pages[n]) /\ Live(q) = Live(f.pages[n]) \ {s}
        /\ DOMAIN q.slots = DOMAIN f.pages[n].slots
        /\ \A t \in DOMAIN q.slots \ {s} : q.slots[t] = f.pages[n].slots[t]
    BY <1>2, <1>3 DEF p
  <2>2. /\ RidsOf(g) = RidsOf(f) \ {<<n, s>>}
        /\ \A x \in RidsOf(g) : RowAt(g, x) = RowAt(f, x)
        /\ Contents(g) = Contents(f) (-) SetToBag({RowAt(f, <<n, s>>)})
        /\ ActiveRows(f) = ActiveRows(g) + 1
        /\ FreeSlots(g) = FreeSlots(f) + 1
    BY <1>1, <1>3, <1>10, <1>11, <2>1, RowTaken
  <2> QED BY <1>2, <2>2
<1>13. ActiveRows(g) \in Nat /\ FreeSlots(g) \in Nat
  BY <1>10, FileFacts
<1>14. Sound(g)
  <2>1. a = ActiveRows(g) /\ d = FreeSlots(g) /\ k = Len(ps)
    BY <1>1, <1>4, <1>8, <1>12, <1>13 DEF a, d, k
  <2>2. \A m \in DOMAIN ps : LayoutIsValid(ps[m])
    BY <1>3, <1>8, SoundFacts
  <2>3. g = [pages |-> ps, allocated |-> Len(ps),
             meta |-> [active |-> ActiveRows(g), deleted |-> FreeSlots(g), pages |-> Len(ps)]]
    BY <1>1, <1>7, <1>8, <2>1 DEF ps, g
  <2> QED BY <1>8, <1>13, <2>2, <2>3, SoundFile
<1>15. ASSUME NEW h \in FailedWrites(f, ws), Opens(h) PROVE h = f \/ h = g
  <2>1. ASSUME NEW e, e.pages = [f.pages EXCEPT ![n] = q] PROVE ActiveRows(e) # ActiveRows(f)
    <3>1. ActiveRows(e) = ActiveRows(g)
      BY <1>9, <2>1, OnPages DEF ps
    <3> QED BY <1>12, <1>13, <3>1
  <2> QED BY <1>2, <1>3, <1>7, <1>15, <2>1, FailedInPlace DEF g
<1> QED BY <1>12, <1>14, <1>15 DEF g, ws

\* What an insertion promises: the file it leaves opens and has one row more;
\* one that failed opens only if it wrote nothing or everything.
Stores(f, row, ws) ==
  /\ Sound(WriteAll(f, ws))
  /\ Contents(WriteAll(f, ws)) = Contents(f) (+) SetToBag({row})
  /\ \A h \in FailedWrites(f, ws) : Opens(h) => h = f \/ h = WriteAll(f, ws)

\* The new row is at rid and the others stay where they are.
StoresAt(f, row, rid, ws) ==
  /\ rid \notin RidsOf(f)
  /\ RidsOf(WriteAll(f, ws)) = RidsOf(f) \cup {rid}
  /\ RowAt(WriteAll(f, ws), rid) = row
  /\ \A x \in RidsOf(f) : RowAt(WriteAll(f, ws), x) = RowAt(f, x)

LEMMA FittingRowFacts ==
    ASSUME NEW row \in FittingRows, NEW p \in PageTypes
    PROVE  /\ Size(row) \in Nat /\ Size(row) + SlotBytes <= PageBytes
           /\ DirectoryCost(p) \in {0, SlotBytes} /\ DirectoryCost(p) \in Nat
           /\ FreeSpace(p) \in Int
           /\ Fits(p, row) => LayoutIsValid(PutRow(p, row))
<1>1. Size(row) \in Nat /\ Size(row) + SlotBytes <= PageBytes
  BY DEF FittingRows, Size
<1>2. DirectoryCost(p) \in {0, SlotBytes} /\ DirectoryCost(p) \in Nat
  BY PageAssumption DEF DirectoryCost
<1>3. FreeSpace(p) \in Int
  <2>1. Bytes(p) \in Nat /\ Len(p.slots) \in Nat /\ p.holes \in Nat
    BY PageFacts DEF PageTypes
  <2> QED BY <2>1, PageAssumption DEF FreeSpace
<1>4. Fits(p, row) => LayoutIsValid(PutRow(p, row))
  <2>1. FreeSpace(PutRow(p, row)) = FreeSpace(p) - (Size(row) + DirectoryCost(p))
    BY PutRowFacts
  <2> QED BY <1>1, <1>2, <1>3, <2>1 DEF Fits, LayoutIsValid
<1> QED BY <1>1, <1>2, <1>3, <1>4

\* The row goes to a page of the file, compacted or not.
LEMMA RowIntoPage ==
    ASSUME NEW f, Sound(f), NEW row \in FittingRows, NEW n \in DOMAIN f.pages,
           NEW p \in PageTypes, p.slots = f.pages[n].slots, Fits(p, row),
           NEW d \in Nat,
           HasFreeSlot(p) => d = f.meta.deleted - 1,
           ~ HasFreeSlot(p) => d = f.meta.deleted
    PROVE  LET ws == <<WritePage(n, PutRow(p, row)), WriteMeta(f.meta.active + 1, d, f.meta.pages)>>
           IN Stores(f, row, ws) /\ StoresAt(f, row, <<n, SlotFor(p)>>, ws)
<1> DEFINE s == SlotFor(p)
           q == PutRow(p, row)
           a == f.meta.active + 1
           k == f.meta.pages
           ws == <<WritePage(n, q), WriteMeta(a, d, k)>>
           g == WriteAll(f, ws)
<1>1. /\ f \in FileTypes /\ Len(f.pages) \in Nat /\ f.allocated = Len(f.pages)
      /\ f.meta.pages = Len(f.pages) /\ f.meta.active = ActiveRows(f) /\ f.meta.deleted = FreeSlots(f)
      /\ ActiveRows(f) \in Nat /\ FreeSlots(f) \in Nat
  BY SoundFacts, FileFacts
<1>2. f.pages[n] \in PageTypes /\ Live(p) = Live(f.pages[n])
  BY <1>1, PageNumbers DEF Live
<1>3. /\ q \in PageTypes /\ s \notin Live(p) /\ Live(q) = Live(p) \cup {s}
      /\ s \in DOMAIN p.slots <=> HasFreeSlot(p)
      /\ DOMAIN q.slots = DOMAIN p.slots \cup {s}
      /\ q.slots[s] = row
      /\ \A t \in DOMAIN p.slots \ {s} : q.slots[t] = p.slots[t]
  <2>1. /\ q \in PageTypes /\ s \in Nat \ {0} /\ s \notin Live(p) /\ Live(q) = Live(p) \cup {s}
        /\ HasFreeSlot(p) => s \in DOMAIN p.slots /\ Len(q.slots) = Len(p.slots)
        /\ ~ HasFreeSlot(p) => s = Len(p.slots) + 1 /\ Len(q.slots) = Len(p.slots) + 1
        /\ q.slots[s] = row
        /\ \A t \in DOMAIN p.slots \ {s} : q.slots[t] = p.slots[t]
    BY PutRowFacts
  <2>2. /\ DOMAIN p.slots = 1 .. Len(p.slots) /\ Len(p.slots) \in Nat
        /\ DOMAIN q.slots = 1 .. Len(q.slots) /\ Len(q.slots) \in Nat
    BY <2>1, PageFacts
  <2>3. CASE HasFreeSlot(p)
    BY <2>1, <2>2, <2>3
  <2>4. CASE ~ HasFreeSlot(p)
    <3>1. s \notin DOMAIN p.slots
      BY <2>1, <2>2, <2>4
    <3>2. DOMAIN q.slots = DOMAIN p.slots \cup {s}
      BY <2>1, <2>2, <2>4
    <3> QED BY <2>1, <2>4, <3>1, <3>2
  <2> QED BY <2>3, <2>4
<1>4. LayoutIsValid(q)
  BY FittingRowFacts
<1>5. a \in Nat /\ k \in Nat
  BY <1>1
<1> HIDE DEF q, s, a, k
<1>6. /\ ws \in Seq(WriteTypes) /\ Len(ws) = 2 /\ ws[1] = WritePage(n, q) /\ ws[2].at = "meta"
      /\ g = [pages |-> [f.pages EXCEPT ![n] = q], allocated |-> f.allocated,
              meta |-> [active |-> a, deleted |-> d, pages |-> k]]
  BY <1>1, <1>3, <1>5, PageThenCounters
<1> HIDE DEF ws
<1> DEFINE ps == [f.pages EXCEPT ![n] = q]
<1>7. ps \in Seq(PageTypes) /\ Len(ps) = Len(f.pages) /\ DOMAIN ps = DOMAIN f.pages
      /\ ps[n] = q /\ \A m \in DOMAIN f.pages : m # n => ps[m] = f.pages[m]
  BY <1>1, <1>3 DEF FileTypes
<1>8. g.pages = ps /\ g.allocated = f.allocated
      /\ g.meta = [active |-> a, deleted |-> d, pages |-> k]
  BY <1>6
<1> HIDE DEF ps
<1>9. g \in FileTypes
  <2>1. [active |-> a, deleted |-> d, pages |-> k] \in [active : Nat, deleted : Nat, pages : Nat]
    BY <1>5
  <2> QED BY <1>1, <1>6, <1>7, <2>1 DEF FileTypes, ps
<1> HIDE DEF g
<1>10. Differs(f, g, n, q)
  BY <1>7, <1>8 DEF Differs
<1>11. /\ <<n, s>> \notin RidsOf(f) /\ RidsOf(g) = RidsOf(f) \cup {<<n, s>>}
       /\ \A x \in RidsOf(f) : RowAt(g, x) = RowAt(f, x)
       /\ RowAt(g, <<n, s>>) = row
       /\ Contents(g) = Contents(f) (+) SetToBag({row})
       /\ ActiveRows(g) = ActiveRows(f) + 1
       /\ HasFreeSlot(p) => FreeSlots(g) = FreeSlots(f) - 1
       /\ ~ HasFreeSlot(p) => FreeSlots(g) = FreeSlots(f)
  <2> DEFINE o == f.pages[n]
  <2>1. /\ f \in FileTypes /\ g \in FileTypes /\ q \in PageTypes /\ Differs(f, g, n, q)
        /\ o \in PageTypes
        /\ n \in DOMAIN f.pages => o = f.pages[n]
        /\ n \notin DOMAIN f.pages => o = EmptyPage
        /\ s \notin Live(o) /\ Live(q) = Live(o) \cup {s}
        /\ DOMAIN q.slots = DOMAIN o.slots \cup {s}
        /\ \A t \in DOMAIN o.slots \ {s} : q.slots[t] = o.slots[t]
    BY <1>1, <1>2, <1>3, <1>9, <1>10
  <2>2. s \in DOMAIN o.slots <=> HasFreeSlot(p)
    BY <1>3
  <2> HIDE DEF o
  <2>3. /\ <<n, s>> \notin RidsOf(f) /\ RidsOf(g) = RidsOf(f) \cup {<<n, s>>}
        /\ \A x \in RidsOf(f) : RowAt(g, x) = RowAt(f, x)
        /\ RowAt(g, <<n, s>>) = q.slots[s]
        /\ Contents(g) = Contents(f) (+) SetToBag({q.slots[s]})
        /\ ActiveRows(g) = ActiveRows(f) + 1
        /\ s \in DOMAIN o.slots => FreeSlots(g) = FreeSlots(f) - 1
        /\ s \notin DOMAIN o.slots => FreeSlots(g) = FreeSlots(f)
    BY ONLY <2>1, RowPut
  <2> QED BY <1>3, <2>2, <2>3
<1>12. ActiveRows(g) \in Nat /\ FreeSlots(g) \in Nat
  BY <1>9, FileFacts
<1>13. Sound(g)
  <2>1. a = ActiveRows(g) /\ d = FreeSlots(g) /\ k = Len(ps)
    BY <1>1, <1>7, <1>11 DEF a, k
  <2>2. \A m \in DOMAIN ps : LayoutIsValid(ps[m])
    BY <1>4, <1>7, SoundFacts
  <2>3. g = [pages |-> ps, allocated |-> Len(ps),
             meta |-> [active |-> ActiveRows(g), deleted |-> FreeSlots(g), pages |-> Len(ps)]]
    BY <1>1, <1>6, <1>7, <2>1 DEF ps, g
  <2> QED BY <1>7, <1>12, <2>2, <2>3, SoundFile
<1>14. ASSUME NEW h \in FailedWrites(f, ws), Opens(h) PROVE h = f \/ h = g
  <2>1. ASSUME NEW e, e.pages = [f.pages EXCEPT ![n] = q] PROVE ActiveRows(e) # ActiveRows(f)
    <3>1. ActiveRows(e) = ActiveRows(g)
      BY <1>8, <2>1, OnPages DEF ps
    <3> QED BY <1>1, <1>11, <3>1
  <2> QED BY <1>3, <1>6, <1>14, <2>1, FailedInPlace DEF g
<1>15. Stores(f, row, ws) /\ StoresAt(f, row, <<n, s>>, ws)
  BY <1>11, <1>13, <1>14 DEF g, Stores, StoresAt
<1> QED BY <1>15 DEF ws, q, s, a, k

\* The row goes to a new page at the end of the file.
LEMMA RowOnNewPage ==
    ASSUME NEW f, Sound(f), NEW row \in FittingRows
    PROVE  LET n == NextPage(f)
               ws == PageAdded(n, PutRow(EmptyPage, row), f.meta.active + 1, f.meta.deleted, n)
           IN Stores(f, row, ws) /\ StoresAt(f, row, <<n, 1>>, ws)
<1> DEFINE n == NextPage(f)
           q == PutRow(EmptyPage, row)
           a == f.meta.active + 1
           d == f.meta.deleted
           ws == PageAdded(n, q, a, d, n)
           g == WriteAll(f, ws)
<1>1. /\ f \in FileTypes /\ Len(f.pages) \in Nat /\ DOMAIN f.pages = 1 .. Len(f.pages)
      /\ f.allocated = Len(f.pages)
      /\ f.meta.pages = Len(f.pages) /\ f.meta.active = ActiveRows(f) /\ f.meta.deleted = FreeSlots(f)
      /\ ActiveRows(f) \in Nat /\ FreeSlots(f) \in Nat
  BY SoundFacts, FileFacts
<1>2. n \in Nat \ {0} /\ n \notin DOMAIN f.pages /\ n > Len(f.pages) /\ n = Len(f.pages) + 1
  BY <1>1 DEF NextPage
<1>3. /\ EmptyPage \in PageTypes /\ q \in PageTypes
      /\ 1 \notin Live(EmptyPage) /\ Live(q) = Live(EmptyPage) \cup {1}
      /\ DOMAIN EmptyPage.slots = {}
      /\ DOMAIN q.slots = DOMAIN EmptyPage.slots \cup {1}
      /\ q.slots[1] = row
      /\ \A t \in DOMAIN EmptyPage.slots \ {1} : q.slots[t] = EmptyPage.slots[t]
  <2> DEFINE s == SlotFor(EmptyPage)
             l == Len(EmptyPage.slots)
  <2>1. EmptyPage \in PageTypes /\ ~ HasFreeSlot(EmptyPage) /\ DOMAIN EmptyPage.slots = {}
    BY EmptyPageFacts DEF EmptyPage
  <2>2. /\ q \in PageTypes /\ s \notin Live(EmptyPage) /\ Live(q) = Live(EmptyPage) \cup {s}
        /\ s = l + 1 /\ Len(q.slots) = l + 1 /\ q.slots[s] = row
    BY <2>1, PutRowFacts
  <2>3. l = 0 /\ s = 1
    BY <2>2 DEF EmptyPage
  <2>4. DOMAIN q.slots = 1 .. Len(q.slots)
    BY <2>2, PageFacts
  <2> HIDE DEF l, s
  <2>5. DOMAIN q.slots = {1}
    BY <2>2, <2>3, <2>4
  <2> QED BY <2>1, <2>2, <2>3, <2>5
<1>4. LayoutIsValid(q)
  <2>1. Fits(EmptyPage, row)
    BY EmptyPageFacts, FittingRowFacts DEF Fits, DirectoryCost
  <2> QED BY <1>3, <2>1, FittingRowFacts
<1>5. a \in Nat /\ d \in Nat
  BY <1>1
<1> HIDE DEF q, a, d
<1>6. /\ ws \in Seq(WriteTypes) /\ Len(ws) = 4 /\ DOMAIN ws = 1 .. 4
      /\ ws[1].at = "page" /\ ws[1].page = n
      /\ ws[2].at = "header" /\ ws[2].value = n /\ ws[3].at = "page" /\ ws[4].at = "meta"
      /\ g = [pages |-> Append(f.pages, q), allocated |-> n,
              meta |-> [active |-> a, deleted |-> d, pages |-> n]]
  <2>1. /\ f \in FileTypes /\ q \in PageTypes /\ a \in Int /\ d \in Int /\ n \in Int
    BY <1>1, <1>2, <1>3, <1>5
  <2> QED BY ONLY <2>1, AppendedPage
<1> HIDE DEF ws, n
<1> DEFINE ps == Append(f.pages, q)
<1>7. ps \in Seq(PageTypes) /\ Len(ps) = n
      /\ ps[n] = q /\ \A m \in DOMAIN f.pages : ps[m] = f.pages[m]
  BY <1>1, <1>2, <1>3 DEF FileTypes
<1>8. /\ DOMAIN ps = 1 .. n
      /\ \A m : m \in DOMAIN ps <=> m = n \/ m \in DOMAIN f.pages
  BY <1>1, <1>2, <1>7
<1>9. g.pages = ps /\ g.allocated = n
      /\ g.meta = [active |-> a, deleted |-> d, pages |-> n]
  BY <1>6
<1> HIDE DEF ps
<1>10. g \in FileTypes
  <2>1. [active |-> a, deleted |-> d, pages |-> n] \in [active : Nat, deleted : Nat, pages : Nat]
    BY <1>2, <1>5
  <2> QED BY <1>2, <1>6, <1>7, <2>1 DEF FileTypes, ps
<1> HIDE DEF g
<1>11. Differs(f, g, n, q)
  BY <1>2, <1>7, <1>8, <1>9 DEF Differs
<1>12. /\ <<n, 1>> \notin RidsOf(f) /\ RidsOf(g) = RidsOf(f) \cup {<<n, 1>>}
       /\ \A x \in RidsOf(f) : RowAt(g, x) = RowAt(f, x)
       /\ RowAt(g, <<n, 1>>) = row
       /\ Contents(g) = Contents(f) (+) SetToBag({row})
       /\ ActiveRows(g) = ActiveRows(f) + 1
       /\ FreeSlots(g) = FreeSlots(f)
  <2> DEFINE o == EmptyPage
             one == 1
  <2>1. /\ f \in FileTypes /\ g \in FileTypes /\ q \in PageTypes /\ Differs(f, g, n, q)
        /\ o \in PageTypes
        /\ n \in DOMAIN f.pages => o = f.pages[n]
        /\ n \notin DOMAIN f.pages => o = EmptyPage
        /\ one \notin Live(o) /\ Live(q) = Live(o) \cup {one}
        /\ DOMAIN q.slots = DOMAIN o.slots \cup {one}
        /\ \A t \in DOMAIN o.slots \ {one} : q.slots[t] = o.slots[t]
    BY <1>1, <1>2, <1>3, <1>10, <1>11
  <2>2. one \notin DOMAIN o.slots /\ q.slots[one] = row
    BY <1>3
  <2> HIDE DEF o, one
  <2>3. /\ <<n, one>> \notin RidsOf(f) /\ RidsOf(g) = RidsOf(f) \cup {<<n, one>>}
        /\ \A x \in RidsOf(f) : RowAt(g, x) = RowAt(f, x)
        /\ RowAt(g, <<n, one>>) = q.slots[one]
        /\ Contents(g) = Contents(f) (+) SetToBag({q.slots[one]})
        /\ ActiveRows(g) = ActiveRows(f) + 1
        /\ one \notin DOMAIN o.slots => FreeSlots(g) = FreeSlots(f)
    BY ONLY <2>1, RowPut
  <2> QED BY <2>2, <2>3 DEF one
<1>13. Sound(g)
  <2>1. ActiveRows(g) \in Nat /\ FreeSlots(g) \in Nat
    BY <1>10, FileFacts
  <2>2. a = ActiveRows(g) /\ d = FreeSlots(g)
    BY <1>1, <1>12 DEF a, d
  <2>3. \A m \in DOMAIN ps : LayoutIsValid(ps[m])
    BY <1>4, <1>7, <1>8, SoundFacts
  <2>4. g = [pages |-> ps, allocated |-> Len(ps),
             meta |-> [active |-> ActiveRows(g), deleted |-> FreeSlots(g), pages |-> Len(ps)]]
    BY <1>6, <1>7, <2>2 DEF ps, g
  <2> QED BY <1>7, <2>1, <2>3, <2>4, SoundFile
<1>14. ASSUME NEW h \in FailedWrites(f, ws), Opens(h) PROVE h = f \/ h = g
  <2>1. \A i \in DOMAIN ws : i # Len(ws) => ws[i].at # "meta"
    BY <1>6
  <2>2. ws[1].page > Len(f.pages) /\ Len(ws) > 1 /\ ws[Len(ws)].at = "meta"
    BY <1>2, <1>6
  <2> QED BY <1>6, <1>14, <2>1, <2>2, FailedGrowth DEF g
<1>15. Stores(f, row, ws) /\ StoresAt(f, row, <<n, 1>>, ws)
  BY <1>12, <1>13, <1>14 DEF g, Stores, StoresAt
<1> QED BY <1>15 DEF ws, q, a, d, n

\* The page that the heap chooses has room for the row.
LEMMA HeapTarget ==
    ASSUME NEW f, Sound(f), NEW row \in FittingRows
    PROVE  LET n == PageFor(f, row)
               p == Receiving(f, row)
           IN /\ p \in PageTypes /\ Fits(p, row)
              /\ \/ n \in DOMAIN f.pages /\ n <= Len(f.pages) /\ p.slots = f.pages[n].slots
                 \/ n = NextPage(f) /\ n > Len(f.pages) /\ p = EmptyPage
<1> DEFINE n == PageFor(f, row)
           p == Receiving(f, row)
<1>1. /\ f \in FileTypes /\ Len(f.pages) \in Nat /\ DOMAIN f.pages = 1 .. Len(f.pages)
      /\ Size(row) \in Nat /\ Size(row) + SlotBytes <= PageBytes
  BY SoundFacts, FileFacts DEF FittingRows, Size
<1>2. CASE Reusable(f, row) # {} \/ LastHasRoom(f, row)
  <2>1. n \in DOMAIN f.pages /\ InsertableBytes(f.pages[n]) >= Size(row)
    <3>1. CASE Reusable(f, row) # {}
      <4>1. Reusable(f, row) \in SUBSET Nat
        BY <1>1 DEF Reusable
      <4>2. n = Min(Reusable(f, row))
        BY <3>1 DEF PageFor
      <4>3. n \in Reusable(f, row)
        BY <3>1, <4>1, <4>2, Minimum
      <4> QED BY <4>3 DEF Reusable
    <3>2. CASE Reusable(f, row) = {}
      <4>1. LastHasRoom(f, row) /\ n = Len(f.pages)
        BY <1>2, <3>2 DEF PageFor
      <4> QED BY <1>1, <4>1 DEF LastHasRoom, Last
    <3> QED BY <3>1, <3>2
  <2>2. n <= Len(f.pages) /\ f.pages[n] \in PageTypes
    BY <1>1, <2>1, PageNumbers
  <2> DEFINE o == f.pages[n]
  <2>3. p = IF Fits(o, row) THEN o ELSE Compact(o)
    BY <1>1, <2>1, <2>2 DEF Receiving
  <2>4. Compact(o) \in PageTypes /\ Compact(o).slots = o.slots
        /\ FreeSpace(Compact(o)) = FreeSpace(o) + o.holes
    BY <2>2, CompactFacts
  <2>5. Fits(Compact(o), row)
    <3>1. DirectoryCost(Compact(o)) = DirectoryCost(o) /\ DirectoryCost(o) \in Nat
      BY <2>2, <2>4, FittingRowFacts DEF DirectoryCost, HasFreeSlot
    <3>2. Bytes(o) \in Nat /\ Len(o.slots) \in Nat /\ o.holes \in Nat
      BY <2>2, PageFacts DEF PageTypes
    <3>3. InsertableBytes(o) = FreeSpace(o) + o.holes - DirectoryCost(o)
      <4> DEFINE d == DirectoryCost(o)
      <4>1. InsertableBytes(o) = PageBytes - SlotBytes * Len(o.slots) - Bytes(o) - d
        BY DEF InsertableBytes
      <4> HIDE DEF o, d
      <4> QED BY <3>1, <3>2, <4>1, PageAssumption DEF FreeSpace, d
    <3>4. FreeSpace(o) \in Int
      BY <2>2, FittingRowFacts
    <3>5. Size(row) \in Nat /\ InsertableBytes(o) >= Size(row)
      BY <1>1, <2>1
    <3> HIDE DEF o
    <3>6. FreeSpace(Compact(o)) >= Size(row) + DirectoryCost(Compact(o))
      BY <2>4, <3>1, <3>2, <3>3, <3>4, <3>5
    <3> QED BY <3>6 DEF Fits
  <2> QED BY <2>1, <2>2, <2>3, <2>4, <2>5
<1>3. CASE ~ (Reusable(f, row) # {} \/ LastHasRoom(f, row))
  <2>1. n = Len(f.pages) + 1
    BY <1>3 DEF PageFor
  <2>2. n > Len(f.pages) /\ p = EmptyPage
    BY <1>1, <2>1 DEF Receiving
  <2>3. Fits(EmptyPage, row)
    BY <1>1, EmptyPageFacts DEF Fits, DirectoryCost
  <2> QED BY <2>1, <2>2, <2>3, EmptyPageFacts DEF NextPage
<1> QED BY <1>2, <1>3

\* INSERT of one row into a heap.
LEMMA HeapInsertion ==
    ASSUME NEW f, Sound(f), NEW row \in FittingRows
    PROVE  /\ Stores(f, row, HeapWrites(f, row))
           /\ StoresAt(f, row, HeapRid(f, row), HeapWrites(f, row))
<1> DEFINE n == PageFor(f, row)
           p == Receiving(f, row)
           s == SlotFor(p)
<1>1. HeapRid(f, row) = <<n, s>>
  BY DEF HeapRid
<1>2. /\ f \in FileTypes /\ Len(f.pages) \in Nat /\ f.meta.pages = Len(f.pages)
      /\ f.meta.deleted = FreeSlots(f) /\ FreeSlots(f) \in Nat
  BY SoundFacts, FileFacts
<1>3. CASE n \in DOMAIN f.pages /\ n <= Len(f.pages) /\ p.slots = f.pages[n].slots
  <2> DEFINE reused == IF HasFreeSlot(p) THEN 1 ELSE 0
             d == f.meta.deleted - reused
             ws == <<WritePage(n, PutRow(p, row)), WriteMeta(f.meta.active + 1, d, f.meta.pages)>>
  <2>1. p \in PageTypes /\ Fits(p, row)
    BY HeapTarget
  <2>2. HeapWrites(f, row) = ws
    <3>1. ~ (n > Len(f.pages))
      BY <1>2, <1>3, PageNumbers
    <3>2. f.meta.pages + 0 = f.meta.pages
      BY <1>2
    <3> DEFINE grown == IF n > Len(f.pages) THEN 1 ELSE 0
    <3>3. HeapWrites(f, row) =
            (IF grown = 1 THEN AllocatePage(n) ELSE <<>>)
              \o <<WritePage(n, PutRow(p, row)), WriteMeta(f.meta.active + 1, d, f.meta.pages + grown)>>
      BY DEF HeapWrites
    <3>4. grown = 0
      BY <3>1
    <3> HIDE DEF grown, n, p, d
    <3>5. (IF grown = 1 THEN AllocatePage(n) ELSE <<>>) = <<>>
      BY <3>4
    <3>6. f.meta.pages + grown = f.meta.pages
      BY <3>2, <3>4
    <3>7. HeapWrites(f, row) = <<>> \o ws
      BY <3>3, <3>5, <3>6
    <3>8. <<>> \o ws = ws
      OBVIOUS
    <3> QED BY <3>7, <3>8
  <2>3. d \in Nat
    <3>1. CASE HasFreeSlot(p)
      <4>1. PICK t \in DOMAIN p.slots : p.slots[t] = Free
        BY <3>1 DEF HasFreeSlot
      <4>2. <<n, t>> \in SlotsOf(f) \ RidsOf(f)
        BY <1>3, <4>1, SlotFacts DEF Live
      <4>3. FreeSlots(f) # 0
        BY <1>2, <4>2, FileFacts, FS_EmptySet DEF FreeSlots
      <4> QED BY <1>2, <3>1, <4>3
    <3>2. CASE ~ HasFreeSlot(p)
      BY <1>2, <3>2
    <3> QED BY <3>1, <3>2
  <2>4. /\ HasFreeSlot(p) => d = f.meta.deleted - 1
        /\ ~ HasFreeSlot(p) => d = f.meta.deleted
    BY <1>2
  <2> HIDE DEF n, p, d, s
  <2>5. Stores(f, row, ws) /\ StoresAt(f, row, <<n, SlotFor(p)>>, ws)
    BY <1>3, <2>1, <2>3, <2>4, RowIntoPage
  <2> QED BY <1>1, <2>2, <2>5 DEF s
<1>4. CASE n = NextPage(f) /\ n > Len(f.pages) /\ p = EmptyPage
  <2> DEFINE ws == PageAdded(n, PutRow(EmptyPage, row), f.meta.active + 1, f.meta.deleted, n)
  <2>1. HeapWrites(f, row) = ws
    <3>1. f.meta.pages + 1 = n /\ f.meta.deleted - 0 = f.meta.deleted
      BY <1>2, <1>4 DEF NextPage
    <3>2. HeapWrites(f, row) =
            AllocatePage(n) \o <<WritePage(n, PutRow(EmptyPage, row)),
                                 WriteMeta(f.meta.active + 1, f.meta.deleted - 0, f.meta.pages + 1)>>
      BY <1>4, EmptyPageFacts DEF HeapWrites
    <3> QED BY <3>1, <3>2 DEF PageAdded
  <2>2. s = 1
    BY <1>4, EmptyPageFacts DEF SlotFor, EmptyPage
  <2>3. Stores(f, row, ws) /\ StoresAt(f, row, <<NextPage(f), 1>>, ws)
    <3> HIDE DEF n
    <3> QED BY <1>4, RowOnNewPage
  <2> QED BY <1>1, <1>4, <2>1, <2>2, <2>3
<1>5. \/ n \in DOMAIN f.pages /\ n <= Len(f.pages) /\ p.slots = f.pages[n].slots
      \/ n = NextPage(f) /\ n > Len(f.pages) /\ p = EmptyPage
  BY HeapTarget
<1> QED BY <1>3, <1>4, <1>5

-----------------------------------------------------------------------------
(***************************************************************************)
(* Ranks: the elements of a finite ordered set are numbered from one.      *)
(***************************************************************************)

\* below[s] is the set of elements up to s.
RankOrder(A, below) ==
  /\ \A s \in A : below[s] \subseteq A /\ s \in below[s]
  /\ \A s, t \in A : s # t => \/ below[s] \subseteq below[t] /\ t \notin below[s]
                              \/ below[t] \subseteq below[s] /\ s \notin below[t]

LEMMA Ranks ==
    ASSUME NEW A, IsFiniteSet(A), NEW below, RankOrder(A, below), NEW e, NEW N,
           N = Cardinality(A),
           e = [k \in 1 .. N |-> CHOOSE s \in A : Cardinality(below[s]) = k]
    PROVE  /\ N \in Nat /\ Matches(1 .. N, A, e)
           /\ \A s \in A : Cardinality(below[s]) \in 1 .. N /\ e[Cardinality(below[s])] = s
           /\ \A k \in 1 .. N : e[k] \in A /\ Cardinality(below[e[k]]) = k
<1>1. N \in Nat
  BY FS_CardinalityType
<1> DEFINE rank == [s \in A |-> Cardinality(below[s])]
<1>2. ASSUME NEW s \in A PROVE IsFiniteSet(below[s]) /\ rank[s] \in 1 .. N
  <2>1. below[s] \subseteq A /\ s \in below[s]
    BY DEF RankOrder
  <2>2. IsFiniteSet(below[s]) /\ Cardinality(below[s]) <= N
    BY <2>1, FS_Subset
  <2>3. Cardinality(below[s]) \in Nat /\ Cardinality(below[s]) # 0
    BY <2>1, <2>2, FS_CardinalityType, FS_EmptySet
  <2> QED BY <1>1, <2>2, <2>3
<1>3. ASSUME NEW s \in A, NEW t \in A, s # t, below[s] \subseteq below[t], t \notin below[s]
      PROVE  rank[s] # rank[t]
  <2>1. below[s] # below[t]
    BY <1>3 DEF RankOrder
  <2> QED BY <1>2, <1>3, <2>1, FS_Subset
<1>4. ASSUME NEW s \in A, NEW t \in A, rank[s] = rank[t] PROVE s = t
  BY <1>3, <1>4 DEF RankOrder
<1>5. rank \in Injection(A, 1 .. N)
  <2>1. rank \in [A -> 1 .. N]
    BY <1>2
  <2> HIDE DEF rank
  <2> QED BY <1>4, <2>1 DEF Injection, IsInjective
<1>6. IsFiniteSet(1 .. N) /\ Cardinality(1 .. N) = N
  BY <1>1, FS_Interval
<1> HIDE DEF rank
<1>7. rank \in Surjection(A, 1 .. N)
  BY <1>5, <1>6, FS_Injection
<1>8. \A k \in 1 .. N : \E s \in A : rank[s] = k
  BY <1>7 DEF Surjection
<1>9. \A s \in A : rank[s] = Cardinality(below[s])
  BY DEF rank
<1>10. \A k \in 1 .. N : e[k] \in A /\ rank[e[k]] = k
  <2> TAKE k \in 1 .. N
  <2>1. e[k] = CHOOSE s \in A : Cardinality(below[s]) = k
    OBVIOUS
  <2>2. \E s \in A : Cardinality(below[s]) = k
    BY <1>8, <1>9
  <2> QED BY <1>9, <2>1, <2>2
<1>11. \A s \in A : rank[s] \in 1 .. N /\ e[rank[s]] = s
  BY <1>2, <1>4, <1>10
<1>12. Matches(1 .. N, A, e)
  <2>1. e \in [1 .. N -> A]
    BY <1>10
  <2>2. \A i, j \in 1 .. N : e[i] = e[j] => i = j
    BY <1>10
  <2>3. \A s \in A : \E k \in 1 .. N : e[k] = s
    BY <1>11
  <2> QED BY <2>1, <2>2, <2>3 DEF Matches
<1> QED BY <1>1, <1>9, <1>10, <1>11, <1>12

\* The numbers of a set in their order.
UpTo(A) == [s \in A |-> {t \in A : t <= s}]
LEMMA NumberRanks ==
    ASSUME NEW A \in SUBSET Nat
    PROVE  RankOrder(A, UpTo(A)) /\ \A s \in A : UpTo(A)[s] = {t \in A : t <= s}
<1>1. \A s, t \in A : s # t => s < t \/ t < s
  OBVIOUS
<1>2. \A s \in A : UpTo(A)[s] = {t \in A : t <= s}
  BY DEF UpTo
<1>3. ASSUME NEW s \in A, NEW t \in A, s < t
      PROVE  UpTo(A)[s] \subseteq UpTo(A)[t] /\ t \notin UpTo(A)[s]
  <2>1. \A r \in A : r <= s => r <= t
    BY <1>3
  <2>2. ~ (t <= s)
    BY <1>3
  <2> QED BY <1>2, <2>1, <2>2
<1>4. \A s \in A : s <= s
  OBVIOUS
<1> QED BY <1>1, <1>2, <1>3, <1>4 DEF RankOrder

-----------------------------------------------------------------------------
(***************************************************************************)
(* The items of a page.                                                    *)
(***************************************************************************)

\* The rows of a page in slot order.
LEMMA PageRowFacts ==
    ASSUME NEW p \in PageTypes
    PROVE  LET N == Cardinality(Live(p))
           IN /\ N \in Nat /\ Len(PageRows(p)) = N /\ DOMAIN PageRows(p) = 1 .. N
              /\ \A k \in 1 .. N : PageRows(p)[k] \in FittingRows
              /\ \A s \in Live(p) : Rank(p, s) \in 1 .. N /\ PageRows(p)[Rank(p, s)] = p.slots[s]
              /\ \A s, t \in Live(p) : Rank(p, s) = Rank(p, t) => s = t
              /\ \A k \in 1 .. N : \E s \in Live(p) : Rank(p, s) = k
<1> DEFINE A == Live(p)
           N == Cardinality(A)
           below == UpTo(A)
           e == [k \in 1 .. N |-> CHOOSE s \in A : Cardinality(below[s]) = k]
<1>1. IsFiniteSet(A) /\ A \in SUBSET Nat /\ \A s \in A : p.slots[s] \in FittingRows
  BY PageFacts
<1>2. RankOrder(A, below) /\ \A s \in A : Rank(p, s) = Cardinality(below[s])
  BY <1>1, NumberRanks DEF Rank
<1> HIDE DEF A, below
<1>3. /\ N \in Nat
      /\ \A s \in A : Cardinality(below[s]) \in 1 .. N /\ e[Cardinality(below[s])] = s
      /\ \A k \in 1 .. N : e[k] \in A /\ Cardinality(below[e[k]]) = k
  <2> DEFINE m == N
             d == e
  <2>1. m = Cardinality(A) /\ d = [k \in 1 .. m |-> CHOOSE s \in A : Cardinality(below[s]) = k]
    OBVIOUS
  <2> HIDE DEF m, d
  <2>2. /\ m \in Nat
        /\ \A s \in A : Cardinality(below[s]) \in 1 .. m /\ d[Cardinality(below[s])] = s
        /\ \A k \in 1 .. m : d[k] \in A /\ Cardinality(below[d[k]]) = k
    BY <1>1, <1>2, <2>1, Ranks
  <2> QED BY <2>2 DEF m, d
<1>4. \A k \in 1 .. N : (CHOOSE s \in A : Rank(p, s) = k) = e[k]
  <2> TAKE k \in 1 .. N
  <2>1. e[k] = CHOOSE s \in A : Cardinality(below[s]) = k
    OBVIOUS
  <2>2. /\ e[k] \in A /\ Rank(p, e[k]) = k
        /\ \A s \in A : Rank(p, s) = k => s = e[k]
    BY <1>2, <1>3
  <2> HIDE DEF e
  <2> QED BY <2>2
<1>5. PageRows(p) = [k \in 1 .. N |-> p.slots[CHOOSE s \in A : Rank(p, s) = k]]
  BY DEF PageRows, A
<1> HIDE DEF e, N
<1>6. DOMAIN PageRows(p) = 1 .. N /\ \A k \in 1 .. N : PageRows(p)[k] = p.slots[e[k]]
  BY <1>4, <1>5
<1>7. Len(PageRows(p)) = N
  BY <1>3, <1>5
<1>8. \A k \in 1 .. N : PageRows(p)[k] \in FittingRows
  BY <1>1, <1>3, <1>6
<1>9. \A s \in A : Rank(p, s) \in 1 .. N /\ PageRows(p)[Rank(p, s)] = p.slots[s]
  BY <1>2, <1>3, <1>6
<1>10. \A s, t \in A : Rank(p, s) = Rank(p, t) => s = t
  BY <1>2, <1>3
<1>11. \A k \in 1 .. N : \E s \in A : Rank(p, s) = k
  BY <1>2, <1>3
<1> QED BY <1>3, <1>6, <1>7, <1>8, <1>9, <1>10, <1>11 DEF A, N
\* Numbers after each other.
LEMMA SubSeqFacts ==
    ASSUME NEW S, NEW s \in Seq(S), NEW a \in Nat \ {0}, NEW b \in Nat, b <= Len(s)
    PROVE  LET t == SubSeq(s, a, b)
               n == IF a > b THEN 0 ELSE (b - a) + 1
           IN t \in Seq(S) /\ Len(t) = n /\ DOMAIN t = 1 .. n /\ \A j \in 1 .. n : t[j] = s[(a + j) - 1]
OBVIOUS

\* An element put into a sequence at a position.
IsPut(S, s, i, x, t) ==
  /\ t \in Seq(S) /\ Len(t) = Len(s) + 1 /\ t[i] = x
  /\ \A j \in 1 .. Len(s) : j < i => t[j] = s[j]
  /\ \A j \in 1 .. Len(s) : j >= i => t[j + 1] = s[j]

LEMMA Inserted ==
    ASSUME NEW S, NEW s \in Seq(S), NEW x \in S, NEW i \in 1 .. (Len(s) + 1)
    PROVE  IsPut(S, s, i, x, InsertAt(s, i, x))
<1> DEFINE a == SubSeq(s, 1, i - 1)
           c == SubSeq(s, i, Len(s))
           one == <<x>>
<1>1. Len(s) \in Nat /\ i \in Nat \ {0} /\ i <= Len(s) + 1
  OBVIOUS
<1>2. /\ a \in Seq(S) /\ Len(a) = i - 1 /\ \A j \in 1 .. (i - 1) : a[j] = s[j]
  OBVIOUS
<1>3. /\ c \in Seq(S) /\ Len(c) = (Len(s) - i) + 1
      /\ \A j \in 1 .. ((Len(s) - i) + 1) : c[j] = s[(i + j) - 1]
  OBVIOUS
<1>4. one \in Seq(S) /\ Len(one) = 1 /\ one[1] = x
  OBVIOUS
<1> HIDE DEF a, c, one
<1>13. a \in Seq(S) /\ one \in Seq(S) /\ c \in Seq(S)
  BY <1>2, <1>3, <1>4
<1> DEFINE d == a \o one
<1>5. /\ d \in Seq(S) /\ Len(d) = Len(a) + Len(one)
      /\ \A j \in 1 .. Len(a) : d[j] = a[j]
      /\ \A j \in 1 .. Len(one) : d[Len(a) + j] = one[j]
  BY ONLY <1>13, Concatenated
<1>6. /\ d \o c \in Seq(S) /\ Len(d \o c) = Len(d) + Len(c)
      /\ \A j \in 1 .. Len(d) : (d \o c)[j] = d[j]
      /\ \A j \in 1 .. Len(c) : (d \o c)[Len(d) + j] = c[j]
  <2>1. d \in Seq(S) /\ c \in Seq(S)
    BY <1>5, <1>13
  <2> HIDE DEF d
  <2> QED BY ONLY <2>1, Concatenated
<1>7. InsertAt(s, i, x) = d \o c
  BY DEF InsertAt, a, c, d, one
<1> DEFINE t == d \o c
<1>8. Len(d) = i
  BY <1>1, <1>2, <1>4, <1>5
<1> HIDE DEF d
<1> HIDE DEF t
<1>9. t \in Seq(S) /\ Len(t) = Len(s) + 1
  BY <1>1, <1>3, <1>6, <1>8 DEF t
<1>10. t[i] = x
  <2>1. d[i] = x
    <3>1. Len(a) + 1 = i
      BY <1>1, <1>2
    <3> QED BY <1>4, <1>5, <3>1
  <2> QED BY <1>1, <1>6, <1>8, <2>1 DEF t
<1>11. ASSUME NEW j \in 1 .. Len(s), j < i PROVE t[j] = s[j]
  <2>1. j \in 1 .. (i - 1) /\ j \in 1 .. Len(a) /\ j \in 1 .. Len(d)
    BY <1>1, <1>2, <1>8, <1>11
  <2> QED BY <1>2, <1>5, <1>6, <2>1 DEF t
<1>12. ASSUME NEW j \in 1 .. Len(s), j >= i PROVE t[j + 1] = s[j]
  <2> DEFINE m == (j - i) + 1
  <2>1. m \in 1 .. ((Len(s) - i) + 1) /\ Len(d) + m = j + 1 /\ (i + m) - 1 = j
    BY <1>1, <1>8, <1>12
  <2> HIDE DEF m
  <2>2. m \in 1 .. Len(c)
    BY <1>3, <2>1
  <2>3. t[Len(d) + m] = c[m]
    BY <1>6, <2>2 DEF t
  <2>4. c[m] = s[(i + m) - 1]
    BY <1>3, <2>1
  <2> QED BY <2>1, <2>3, <2>4
<1>14. IsPut(S, s, i, x, t)
  BY <1>9, <1>10, <1>11, <1>12 DEF IsPut
<1> QED BY <1>7, <1>14 DEF t

-----------------------------------------------------------------------------
(***************************************************************************)
(* The bytes of items.                                                     *)
(***************************************************************************)
ItemTypes == [row : FittingRows \cup {Free}, size : Nat, new : BOOLEAN]
Costs(items) == [i \in DOMAIN items |-> 1 .. Cost(items[i])]

LEMMA ItemFacts ==
    ASSUME NEW x \in ItemTypes
    PROVE  /\ x.row \in FittingRows \cup {Free} /\ x.size \in Nat
           /\ Cost(x) \in Nat \ {0} /\ Cost(x) = x.size + SlotBytes
BY PageAssumption DEF ItemTypes, Cost

LEMMA CostIsPairs ==
    ASSUME NEW items \in Seq(ItemTypes), NEW part \in SUBSET DOMAIN items
    PROVE  /\ CostOf(items, part) = Cardinality(Pairs(part, Costs(items)))
           /\ IsFiniteSet(part) /\ IsFiniteSet(Pairs(part, Costs(items)))
           /\ CostOf(items, part) \in Nat
<1>1. \A i \in part : Costs(items)[i] = 1 .. Cost(items[i])
  BY DEF Costs
<1>2. {{i} \X (1 .. Cost(items[i])) : i \in part} = {{i} \X Costs(items)[i] : i \in part}
  BY <1>1
<1>3. UNION {{i} \X (1 .. Cost(items[i])) : i \in part} = Pairs(part, Costs(items))
  BY <1>2 DEF Pairs
<1>4. IsFiniteSet(part)
  <2>1. DOMAIN items = 1 .. Len(items) /\ Len(items) \in Nat
    OBVIOUS
  <2>2. IsFiniteSet(1 .. Len(items))
    BY <2>1, FS_Interval
  <2> QED BY <2>1, <2>2, FS_Subset
<1>5. \A i \in part : IsFiniteSet(Costs(items)[i])
  <2>1. \A i \in part : items[i] \in ItemTypes
    OBVIOUS
  <2>2. \A i \in part : Cost(items[i]) \in Nat
    BY <2>1, ItemFacts
  <2> QED BY <1>1, <2>2, FS_Interval
<1>6. IsFiniteSet(Pairs(part, Costs(items)))
  BY <1>4, <1>5, PairsFinite
<1> QED BY <1>3, <1>4, <1>6, FS_CardinalityType DEF CostOf

LEMMA CostAdds ==
    ASSUME NEW items \in Seq(ItemTypes), NEW part \in SUBSET DOMAIN items,
           NEW i \in DOMAIN items, i \notin part
    PROVE  CostOf(items, part \cup {i}) = CostOf(items, part) + Cost(items[i])
<1>1. part \cup {i} \in SUBSET DOMAIN items
  OBVIOUS
<1>2. items[i] \in ItemTypes
  OBVIOUS
<1>3. Cost(items[i]) \in Nat /\ Costs(items)[i] = 1 .. Cost(items[i])
  BY <1>2, ItemFacts DEF Costs
<1>4. IsFiniteSet(Pairs(part, Costs(items)))
  BY CostIsPairs
<1>5. Cardinality(Pairs(part \cup {i}, Costs(items)))
        = Cardinality(Pairs(part, Costs(items))) + Cost(items[i])
  <2> DEFINE g == Costs(items)
             m == Cost(items[i])
  <2>1. m \in Nat /\ g[i] = 1 .. m /\ IsFiniteSet(Pairs(part, g)) /\ i \notin part
    BY <1>3, <1>4
  <2> HIDE DEF g, m
  <2>2. Cardinality(Pairs(part \cup {i}, g)) = Cardinality(Pairs(part, g)) + m
    BY ONLY <2>1, PairsAdd
  <2> QED BY <2>2 DEF g, m
<1> QED BY <1>1, <1>5, CostIsPairs

LEMMA CostGrows ==
    ASSUME NEW items \in Seq(ItemTypes), NEW whole \in SUBSET DOMAIN items,
           NEW part \in SUBSET whole
    PROVE  CostOf(items, part) <= CostOf(items, whole)
<1>1. part \in SUBSET DOMAIN items
  OBVIOUS
<1>2. Pairs(part, Costs(items)) \subseteq Pairs(whole, Costs(items))
  BY DEF Pairs
<1> QED BY <1>1, <1>2, CostIsPairs, FS_Subset

LEMMA NoCost == ASSUME NEW items PROVE CostOf(items, {}) = 0
<1>1. UNION {{i} \X (1 .. Cost(items[i])) : i \in {}} = {}
  OBVIOUS
<1> QED BY <1>1, FS_EmptySet DEF CostOf

LEMMA OneCost ==
    ASSUME NEW items \in Seq(ItemTypes), NEW i \in DOMAIN items
    PROVE  CostOf(items, {i}) = Cost(items[i])
<1>1. {} \in SUBSET DOMAIN items /\ i \notin {} /\ {} \cup {i} = {i}
  OBVIOUS
<1>2. CostOf(items, {} \cup {i}) = CostOf(items, {}) + Cost(items[i])
  BY <1>1, CostAdds
<1>3. items[i] \in ItemTypes
  OBVIOUS
<1> QED BY <1>1, <1>2, <1>3, NoCost, ItemFacts

-----------------------------------------------------------------------------
(***************************************************************************)
(* Distributions of items over pages.  In a cut the pages go up, none is   *)
(* left out and every one holds its items.                                 *)
(***************************************************************************)
IsCut(items, on) ==
  /\ on \in [1 .. Len(items) -> Nat \ {0}]
  /\ \A i, j \in 1 .. Len(items) : i <= j => on[i] <= on[j]
  /\ \A c \in 1 .. PagesOf(on) : Owned(on, c) # {} /\ CostOf(items, Owned(on, c)) <= PageBytes

\* What a page rewrites: a row takes its bytes, and no item exceeds a page.
FittingItems ==
  {x \in ItemTypes : Cost(x) <= PageBytes /\ (x.row # Free => x.size = Size(x.row))}
Filling == [page : Nat, bytes : Nat]
NothingFilled == [page |-> 0, bytes |-> PageBytes]

\* The state of the filling before and after each item.
Fills(F, items) ==
  /\ F \in [0 .. Len(items) -> Filling] /\ F[0] = NothingFilled
  /\ \A i \in 1 .. Len(items) : F[i] = AddItem(F[i - 1], items[i])

LEMMA Filled ==
    ASSUME NEW items \in Seq(FittingItems)
    PROVE  \E F : /\ Fills(F, items)
                  /\ FillGreedily(items) = [i \in 1 .. Len(items) |-> F[i].page]
<1> DEFINE N == Len(items)
           X == Filling
           a == NothingFilled
           IsRun(run) ==
             run = [i \in 0 .. N |->
                      IF i = 0 THEN [page |-> 0, bytes |-> PageBytes]
                      ELSE AddItem(run[i - 1], items[i])]
           step == [c \in X \X (1 .. N) |-> AddItem(c[1], items[c[2]])]
<1>1. N \in Nat /\ \A n \in 1 .. N : items[n] \in ItemTypes
  BY DEF FittingItems
<1>2. a \in X
  BY PageAssumption DEF NothingFilled, Filling
<1>3. \A c \in X : \A n \in 1 .. N :
        step[<<c, n>>] = AddItem(c, items[n]) /\ step[<<c, n>>] \in X
  <2>1. ASSUME NEW c \in X, NEW n \in 1 .. N
        PROVE  step[<<c, n>>] = AddItem(c, items[n]) /\ step[<<c, n>>] \in X
    <3>1. step[<<c, n>>] = AddItem(c, items[n])
      OBVIOUS
    <3>2. Cost(items[n]) \in Nat
      BY <1>1, ItemFacts
    <3>3. AddItem(c, items[n]) \in X
      BY <3>2 DEF AddItem, Filling
    <3> HIDE DEF X, step
    <3> QED BY <3>1, <3>3
  <2> HIDE DEF X, step
  <2> QED BY <2>1
<1> HIDE DEF N, X, step, a
<1>4. PICK run \in [0 .. N -> X] :
        run[0] = a /\ \A n \in 1 .. N : run[n] = step[<<run[n - 1], n>>]
  <2>1. \A c \in X : \A n \in 1 .. N : step[<<c, n>>] \in X
    BY <1>3
  <2>2. N \in Nat
    BY <1>1
  <2>3. HasRun(X, a, N, step)
    BY ONLY <1>2, <2>1, <2>2, Iterates
  <2> QED BY <2>3 DEF HasRun
<1>5. \A n \in 1 .. N : run[n] = AddItem(run[n - 1], items[n])
  <2> TAKE n \in 1 .. N
  <2>1. n - 1 \in 0 .. N
    BY <1>1
  <2>2. run[n - 1] \in X
    BY <2>1
  <2> QED BY <1>3, <1>4, <2>2
<1>6. IsRun(run)
  <2>1. \A i \in 0 .. N :
          run[i] = IF i = 0 THEN [page |-> 0, bytes |-> PageBytes]
                   ELSE AddItem(run[i - 1], items[i])
    <3> TAKE i \in 0 .. N
    <3>1. CASE i = 0
      BY <1>4, <3>1 DEF a, NothingFilled
    <3>2. CASE i # 0
      <4>1. i \in 1 .. N
        BY <1>1, <3>2
      <4> QED BY <1>5, <3>2, <4>1
    <3> QED BY <3>1, <3>2
  <2> QED BY <2>1
<1> DEFINE F == CHOOSE r : IsRun(r)
<1>7. IsRun(F)
  <2> HIDE DEF IsRun
  <2> QED BY <1>6
<1>8. FillGreedily(items) = [i \in DOMAIN items |-> F[i].page]
  BY DEF FillGreedily, N
<1> HIDE DEF F
<1>9. /\ DOMAIN F = 0 .. N /\ F[0] = a
      /\ F = [i \in 0 .. N |-> F[i]]
      /\ \A i \in 1 .. N : F[i] = AddItem(F[i - 1], items[i])
  <2>1. F[0] = a
    BY <1>1, <1>7 DEF a, NothingFilled
  <2>2. \A i \in 1 .. N : F[i] = AddItem(F[i - 1], items[i])
    <3> TAKE i \in 1 .. N
    <3>1. i \in 0 .. N /\ i # 0
      BY <1>1
    <3> QED BY <1>7, <3>1
  <2>3. DOMAIN F = 0 .. N /\ F = [i \in 0 .. N |-> F[i]]
    BY <1>7
  <2> QED BY <2>1, <2>2, <2>3
<1> HIDE DEF IsRun
<1> DEFINE S == {n \in Nat : n \in 0 .. N => F[n] \in X}
<1>10. 0 \in S
  BY <1>2, <1>9
<1>11. ASSUME NEW n \in Nat, n \in S PROVE n + 1 \in S
  <2>1. CASE n + 1 \in 0 .. N
    <3>1. n \in 0 .. N /\ n + 1 \in 1 .. N /\ (n + 1) - 1 = n
      BY <1>1, <2>1
    <3>2. F[n] \in X
      BY <1>11, <3>1
    <3>3. F[n + 1] = AddItem(F[n], items[n + 1])
      BY <1>9, <3>1
    <3>4. step[<<F[n], n + 1>>] = F[n + 1] /\ step[<<F[n], n + 1>>] \in X
      BY <1>3, <3>1, <3>2, <3>3
    <3>5. F[n + 1] \in X
      BY <3>4
    <3> QED BY <3>5
  <2> QED BY <2>1
<1>12. \A n \in Nat : n \in S
  <2> HIDE DEF S
  <2> QED BY <1>10, <1>11, SetInduction
<1>13. \A n \in 0 .. N : F[n] \in X
  <2>1. \A n \in 0 .. N : n \in Nat
    BY <1>1
  <2> QED BY <1>12, <2>1
<1>14. F \in [0 .. N -> X]
  BY <1>9, <1>13
<1>15. Fills(F, items)
  BY <1>9, <1>14 DEF Fills, N, X, a
<1>16. DOMAIN items = 1 .. Len(items)
  OBVIOUS
<1> QED BY <1>8, <1>15, <1>16

\* Of the first i items, those on page c.
OnPage(F, i, c) == {j \in 1 .. i : F[j].page = c}
IsFilledTo(F, items, i) ==
  /\ \A j \in 1 .. i : F[j].page <= F[i].page
  /\ i # 0 => /\ F[i].page \in Nat \ {0}
              /\ F[i].bytes = CostOf(items, OnPage(F, i, F[i].page))
  /\ \A c \in 1 .. F[i].page :
       OnPage(F, i, c) # {} /\ CostOf(items, OnPage(F, i, c)) <= PageBytes

LEMMA FilledOnce ==
    ASSUME NEW items \in Seq(FittingItems), NEW F, Fills(F, items),
           NEW n \in Nat, n + 1 <= Len(items), IsFilledTo(F, items, n)
    PROVE  IsFilledTo(F, items, n + 1)
<1> DEFINE N == Len(items)
           i == n + 1
           x == items[i]
           k == Cost(x)
           P == F[n].page
           b == F[n].bytes
<1>1. /\ N \in Nat /\ DOMAIN items = 1 .. N /\ i \in 1 .. N /\ i \in DOMAIN items
      /\ n \in 0 .. N /\ i - 1 = n /\ i # 0 /\ n < i
      /\ 1 .. i = (1 .. n) \cup {i}
  BY DEF FittingItems
<1>2. x \in ItemTypes /\ k \in Nat \ {0} /\ k <= PageBytes
  <2>1. x \in FittingItems
    BY <1>1
  <2> QED BY <2>1, ItemFacts DEF FittingItems
<1>3. items \in Seq(ItemTypes)
  BY DEF FittingItems
<1>4. P \in Nat /\ b \in Nat
  <2>1. F[n] \in Filling
    BY <1>1 DEF Fills
  <2> QED BY <2>1 DEF Filling
<1>5. F[i] = AddItem(F[n], x)
  BY <1>1 DEF Fills
<1>6. \/ b + k <= PageBytes /\ F[i].page = P /\ F[i].bytes = b + k
      \/ b + k > PageBytes /\ F[i].page = P + 1 /\ F[i].bytes = k
  BY <1>2, <1>4, <1>5, PageAssumption DEF AddItem
<1>7. PageBytes \in Nat /\ SlotBytes \in Nat \ {0}
  BY PageAssumption
<1>8. \A c : OnPage(F, i, c) = IF F[i].page = c THEN OnPage(F, n, c) \cup {i} ELSE OnPage(F, n, c)
  BY <1>1 DEF OnPage
<1>9. \A c : OnPage(F, n, c) \in SUBSET DOMAIN items /\ i \notin OnPage(F, n, c)
  BY <1>1 DEF OnPage
<1>10. /\ \A j \in 1 .. n : F[j].page <= P
       /\ n # 0 => P # 0 /\ b = CostOf(items, OnPage(F, n, P))
       /\ \A c \in 1 .. P : OnPage(F, n, c) # {} /\ CostOf(items, OnPage(F, n, c)) <= PageBytes
       /\ n = 0 => P = 0 /\ b = PageBytes
  <2>1. n = 0 => F[n] = NothingFilled
    BY DEF Fills
  <2>2. n = 0 => P = 0 /\ b = PageBytes
    BY <2>1 DEF NothingFilled
  <2> QED BY <2>2 DEF IsFilledTo
<1>11. \A j \in 1 .. n : F[j].page \in Nat
  <2> TAKE j \in 1 .. n
  <2>1. j \in 0 .. N
    BY <1>1
  <2>2. F[j] \in Filling
    BY <2>1 DEF Fills
  <2> QED BY <2>2 DEF Filling
<1> HIDE DEF N, i, x, k, P, b
<1>12. CASE b + k <= PageBytes /\ F[i].page = P /\ F[i].bytes = b + k
  <2>1. n # 0 /\ P # 0 /\ b = CostOf(items, OnPage(F, n, P))
    BY <1>2, <1>4, <1>7, <1>10, <1>12
  <2>2. CostOf(items, OnPage(F, i, P)) = b + k
    <3> DEFINE A == OnPage(F, n, P)
    <3>1. A \in SUBSET DOMAIN items /\ i \notin A /\ OnPage(F, i, P) = A \cup {i}
      BY <1>8, <1>9, <1>12
    <3> HIDE DEF A
    <3>2. CostOf(items, A \cup {i}) = CostOf(items, A) + Cost(items[i])
      BY <1>1, <1>3, <3>1, CostAdds
    <3>3. CostOf(items, A) = b
      BY <2>1 DEF A
    <3> QED BY <3>1, <3>2, <3>3 DEF k, x
  <2>3. \A j \in 1 .. i : F[j].page <= F[i].page
    BY <1>1, <1>4, <1>10, <1>12
  <2>4. \A c \in 1 .. P : OnPage(F, i, c) # {} /\ CostOf(items, OnPage(F, i, c)) <= PageBytes
    <3> TAKE c \in 1 .. P
    <3>1. CASE c = P
      BY <1>8, <1>12, <2>2, <3>1
    <3>2. CASE c # P
      <4>1. OnPage(F, i, c) = OnPage(F, n, c)
        BY <1>8, <1>12, <3>2
      <4> QED BY <1>10, <4>1
    <3> QED BY <3>1, <3>2
  <2> QED BY <1>4, <1>12, <2>1, <2>2, <2>3, <2>4 DEF IsFilledTo, i
<1>13. CASE b + k > PageBytes /\ F[i].page = P + 1 /\ F[i].bytes = k
  <2>1. OnPage(F, i, P + 1) = {i}
    <3>1. OnPage(F, n, P + 1) = {}
      BY <1>4, <1>10, <1>11 DEF OnPage
    <3> QED BY <1>8, <1>13, <3>1
  <2>2. CostOf(items, OnPage(F, i, P + 1)) = k
    BY <1>1, <1>3, <2>1, OneCost DEF k, x
  <2>3. \A j \in 1 .. i : F[j].page <= F[i].page
    <3> TAKE j \in 1 .. i
    <3>1. CASE j = i
      BY <1>4, <1>13, <3>1
    <3>2. CASE j # i
      <4>1. j \in 1 .. n
        BY <1>1, <3>2
      <4>2. F[j].page <= P /\ F[j].page \in Nat
        BY <1>10, <1>11, <4>1
      <4> QED BY <1>4, <1>13, <4>2
    <3> QED BY <3>1, <3>2
  <2>4. \A c \in 1 .. (P + 1) :
          OnPage(F, i, c) # {} /\ CostOf(items, OnPage(F, i, c)) <= PageBytes
    <3> TAKE c \in 1 .. (P + 1)
    <3>1. CASE c = P + 1
      BY <1>2, <2>1, <2>2, <3>1
    <3>2. CASE c # P + 1
      <4>1. OnPage(F, i, c) = OnPage(F, n, c) /\ c \in 1 .. P
        BY <1>4, <1>8, <1>13, <3>2
      <4> QED BY <1>10, <4>1
    <3> QED BY <3>1, <3>2
  <2> QED BY <1>4, <1>13, <2>2, <2>3, <2>4 DEF IsFilledTo, i
<1> QED BY <1>6, <1>12, <1>13

LEMMA GreedyCut ==
    ASSUME NEW items \in Seq(FittingItems)
    PROVE  IsCut(items, FillGreedily(items))
<1> DEFINE N == Len(items)
           on == FillGreedily(items)
<1>1. N \in Nat
  OBVIOUS
<1>2. PICK F : Fills(F, items) /\ on = [i \in 1 .. N |-> F[i].page]
  BY Filled
<1> HIDE DEF on, N
<1> DEFINE S == {n \in Nat : n <= N => IsFilledTo(F, items, n)}
<1>3. 0 \in S
  <2>1. F[0].page = 0
    BY <1>2 DEF Fills, NothingFilled
  <2>2. 1 .. F[0].page = {} /\ 1 .. 0 = {}
    BY <2>1
  <2>3. IsFilledTo(F, items, 0)
    BY <2>2 DEF IsFilledTo
  <2> QED BY <2>3
<1>4. ASSUME NEW n \in Nat, n \in S PROVE n + 1 \in S
  <2>1. CASE n + 1 <= N
    <3>1. IsFilledTo(F, items, n)
      BY <1>1, <1>4, <2>1
    <3>2. IsFilledTo(F, items, n + 1)
      BY <1>2, <2>1, <3>1, FilledOnce DEF N
    <3> QED BY <3>2
  <2> QED BY <2>1
<1>5. \A n \in Nat : n \in S
  <2> HIDE DEF S
  <2> QED BY <1>3, <1>4, SetInduction
<1>6. \A n \in 0 .. N : IsFilledTo(F, items, n)
  <2>1. \A n \in 0 .. N : n \in Nat /\ n <= N
    BY <1>1
  <2> QED BY <1>5, <2>1
<1>7. \A n \in 1 .. N : F[n].page \in Nat \ {0}
  <2>1. \A n \in 1 .. N : n \in 0 .. N /\ n # 0
    BY <1>1
  <2> QED BY <1>6, <2>1 DEF IsFilledTo
<1>8. on \in [1 .. N -> Nat \ {0}]
  BY <1>2, <1>7
<1>9. \A i, j \in 1 .. N : i <= j => on[i] <= on[j]
  <2> TAKE i, j \in 1 .. N
  <2> HAVE i <= j
  <2>1. i \in 1 .. j /\ j \in 0 .. N
    BY <1>1
  <2>2. F[i].page <= F[j].page
    BY <1>6, <2>1 DEF IsFilledTo
  <2> QED BY <1>2, <2>2
<1>10. Len(on) = N
  BY <1>1, <1>8
<1>11. \A c \in 1 .. PagesOf(on) : Owned(on, c) # {} /\ CostOf(items, Owned(on, c)) <= PageBytes
  <2>1. CASE N = 0
    <3>1. PagesOf(on) = 0
      BY <1>10, <2>1 DEF PagesOf
    <3> QED BY <3>1
  <2>2. CASE N # 0
    <3>1. N \in 1 .. N /\ N \in 0 .. N
      BY <1>1, <2>2
    <3>2. PagesOf(on) = F[N].page
      BY <1>2, <1>10, <2>2, <3>1 DEF PagesOf
    <3>3. \A c : Owned(on, c) = OnPage(F, N, c)
      BY <1>2 DEF Owned, OnPage
    <3> QED BY <1>6, <3>1, <3>2, <3>3 DEF IsFilledTo
  <2> QED BY <2>1, <2>2
<1> QED BY <1>8, <1>9, <1>11 DEF IsCut, on, N

\* The middle of an item lies after that of every item before it.
LEMMA SpreadCut ==
    ASSUME NEW items \in Seq(FittingItems), NEW n \in Nat \ {0},
           \A c \in 1 .. n : /\ Owned(Spread(items, n), c) # {}
                             /\ CostOf(items, Owned(Spread(items, n), c)) <= PageBytes
    PROVE  IsCut(items, Spread(items, n)) /\ PagesOf(Spread(items, n)) = n
<1> DEFINE N == Len(items)
           D == DOMAIN items
           on == Spread(items, n)
           total == CostOf(items, D)
           before(i) == CostOf(items, 1 .. i - 1)
           k(i) == Cost(items[i])
           mid(i) == 2 * before(i) + k(i)
           q(i) == (mid(i) * n) \div (2 * total)
<1>1. N \in Nat /\ D = 1 .. N /\ items \in Seq(ItemTypes)
  BY DEF FittingItems
<1>2. \A i \in D : k(i) \in Nat \ {0}
  <2>1. \A i \in D : items[i] \in ItemTypes
    BY <1>1
  <2> QED BY <2>1, ItemFacts
<1>3. \A i \in D : 1 .. i - 1 \in SUBSET D /\ (1 .. i - 1) \cup {i} = 1 .. i /\ i \notin 1 .. i - 1
  BY <1>1
<1>4. \A i \in D : before(i) \in Nat /\ CostOf(items, 1 .. i) = before(i) + k(i)
  <2> TAKE i \in D
  <2> DEFINE A == 1 .. i - 1
  <2>1. A \in SUBSET D /\ A \cup {i} = 1 .. i /\ i \notin A
    BY <1>3
  <2> HIDE DEF A
  <2>2. CostOf(items, A) \in Nat
    BY <1>1, <2>1, CostIsPairs
  <2>3. CostOf(items, A \cup {i}) = CostOf(items, A) + Cost(items[i])
    BY <1>1, <2>1, CostAdds
  <2> QED BY <2>1, <2>2, <2>3 DEF A
<1>5. total \in Nat
  BY <1>1, CostIsPairs
<1>6. N # 0
  <2>1. Owned(on, 1) # {}
    OBVIOUS
  <2>2. DOMAIN on = D
    BY DEF Spread
  <2> QED BY <1>1, <2>1, <2>2 DEF Owned
<1>7. total # 0
  <2>1. N \in D /\ 1 .. N \in SUBSET D
    BY <1>1, <1>6
  <2>2. CostOf(items, 1 .. N) = before(N) + k(N)
    BY <1>4, <2>1
  <2>3. before(N) \in Nat /\ k(N) \in Nat \ {0}
    BY <1>2, <1>4, <2>1
  <2> QED BY <1>1, <2>2, <2>3
<1>8. \A i \in D : mid(i) \in Nat
  <2> TAKE i \in D
  <2>1. before(i) \in Nat /\ k(i) \in Nat
    BY <1>2, <1>4
  <2> HIDE DEF before, k
  <2> QED BY <2>1
<1>9. \A i, j \in D : i < j => mid(i) <= mid(j)
  <2> TAKE i, j \in D
  <2> HAVE i < j
  <2>1. 1 .. i \in SUBSET (1 .. j - 1) /\ 1 .. j - 1 \in SUBSET D
    BY <1>1
  <2>2. CostOf(items, 1 .. i) <= before(j)
    <3> DEFINE A == 1 .. i
               B == 1 .. j - 1
    <3>1. A \in SUBSET B /\ B \in SUBSET DOMAIN items
      BY <2>1
    <3> HIDE DEF A, B
    <3>2. CostOf(items, A) <= CostOf(items, B)
      BY <1>1, <3>1, CostGrows
    <3> QED BY <3>2 DEF A, B
  <2>3. before(i) + k(i) <= before(j)
    BY <1>4, <2>2
  <2>4. before(i) \in Nat /\ k(i) \in Nat /\ before(j) \in Nat /\ k(j) \in Nat
    BY <1>2, <1>4
  <2> HIDE DEF before, k
  <2> QED BY <2>3, <2>4
<1>10. \A i \in D : on[i] = Min({n, q(i) + 1})
  BY DEF Spread
<1> HIDE DEF on, total, mid, before, k
<1>11. \A i \in D : q(i) \in Nat
  <2> TAKE i \in D
  <2> DEFINE x == mid(i) * n
  <2>1. x \in Nat
    BY <1>8
  <2>2. 2 * total \in Nat \ {0}
    BY <1>5, <1>7
  <2> HIDE DEF x
  <2>3. x \div (2 * total) \in Nat
    BY <2>1, <2>2
  <2> QED BY <2>3 DEF x
<1>12. \A i, j \in D : i < j => q(i) <= q(j)
  <2> TAKE i, j \in D
  <2> HAVE i < j
  <2> DEFINE x == mid(i) * n
             y == mid(j) * n
             t == 2 * total
  <2>1. x \in Nat /\ y \in Nat
    BY <1>8
  <2>2. t \in Nat \ {0}
    BY <1>5, <1>7
  <2>3. x <= y
    <3> DEFINE a == mid(i)
               b == mid(j)
    <3>1. a \in Nat /\ b \in Nat /\ a <= b
      BY <1>8, <1>9
    <3> HIDE DEF a, b
    <3>2. a * n <= b * n
      BY <3>1
    <3> QED BY <3>2 DEF a, b
  <2> HIDE DEF x, y, t
  <2>4. x \div t <= y \div t
    BY <2>1, <2>2, <2>3
  <2> QED BY <2>4 DEF x, y, t
<1> HIDE DEF q
<1>13. \A i \in D : on[i] \in 1 .. n /\ on[i] = IF q(i) + 1 <= n THEN q(i) + 1 ELSE n
  <2> TAKE i \in D
  <2>1. q(i) \in Nat /\ q(i) + 1 \in Nat
    BY <1>11
  <2> DEFINE B == {n, q(i) + 1}
  <2>2. B \in SUBSET Nat /\ B # {}
    BY <2>1
  <2>3. \A x : x \in B <=> x = n \/ x = q(i) + 1
    OBVIOUS
  <2> HIDE DEF B
  <2>4. Min(B) \in B /\ \A x \in B : Min(B) <= x
    BY <2>2, Minimum
  <2>5. on[i] = Min(B)
    BY <1>10 DEF B
  <2> DEFINE m == on[i]
             k1 == q(i) + 1
  <2>6. /\ m = n \/ m = k1
        /\ m <= n /\ m <= k1
    <3>1. n \in B /\ q(i) + 1 \in B
      BY <2>3
    <3> QED BY <2>3, <2>4, <2>5, <3>1
  <2>7. k1 \in Nat /\ k1 >= 1
    BY <2>1
  <2> HIDE DEF m, k1
  <2>8. m \in 1 .. n /\ m = IF k1 <= n THEN k1 ELSE n
    BY <2>6, <2>7
  <2> QED BY <2>8 DEF m, k1
<1>14. \A i, j \in D : i <= j => on[i] <= on[j]
  <2> TAKE i, j \in D
  <2> HAVE i <= j
  <2>1. i = j \/ i < j
    BY <1>1
  <2>2. q(i) \in Nat /\ q(j) \in Nat /\ q(i) <= q(j)
    BY <1>11, <1>12, <2>1
  <2> QED BY <1>13, <2>2
<1>15. on \in [1 .. N -> Nat \ {0}]
  <2>1. on = [i \in D |-> on[i]]
    BY DEF on, Spread
  <2>2. \A i \in D : on[i] \in Nat \ {0}
    BY <1>13
  <2> QED BY <1>1, <2>1, <2>2
<1>16. PagesOf(on) = n
  <2>1. Len(on) = N
    BY <1>1, <1>15
  <2>2. N \in D
    BY <1>1, <1>6
  <2>3. PagesOf(on) = on[N]
    BY <1>6, <2>1 DEF PagesOf
  <2>4. PICK i \in D : on[i] = n
    <3>1. Owned(on, n) # {}
      BY DEF on
    <3>2. DOMAIN on = D
      BY <1>1, <1>15
    <3> QED BY <3>1, <3>2 DEF Owned
  <2>5. i <= N
    BY <1>1
  <2>6. on[i] <= on[N] /\ on[N] \in 1 .. n
    BY <1>13, <1>14, <2>2, <2>5
  <2> QED BY <2>3, <2>4, <2>6
<1>17. \A c \in 1 .. n : Owned(on, c) # {} /\ CostOf(items, Owned(on, c)) <= PageBytes
  BY DEF on
<1> HIDE DEF N
<1>18. IsCut(items, on)
  BY <1>1, <1>14, <1>15, <1>16, <1>17 DEF IsCut, N
<1> QED BY <1>16, <1>18 DEF on

-----------------------------------------------------------------------------
(***************************************************************************)
(* The pages of a cut.                                                     *)
(***************************************************************************)
LEMMA PairsOf ==
    ASSUME NEW S, NEW g
    PROVE  /\ \A x : x \in Pairs(S, g) <=> \E n \in S : \E k \in g[n] : x = <<n, k>>
           /\ \A n, k : <<n, k>> \in Pairs(S, g) <=> n \in S /\ k \in g[n]
           /\ \A x \in Pairs(S, g) : x[1] \in S /\ x[2] \in g[x[1]] /\ x = <<x[1], x[2]>>
<1>1. \A x : x \in Pairs(S, g) <=> \E n \in S : \E k \in g[n] : x = <<n, k>>
  BY DEF Pairs
<1>2. \A n, k : <<n, k>> \in Pairs(S, g) <=> n \in S /\ k \in g[n]
  BY <1>1
<1>3. \A x \in Pairs(S, g) : x[1] \in S /\ x[2] \in g[x[1]] /\ x = <<x[1], x[2]>>
  BY <1>1
<1> QED BY <1>1, <1>2, <1>3

LEMMA PairsMoved ==
    ASSUME NEW S, NEW T, NEW e, Matches(S, T, e), NEW a, NEW b, IsFiniteSet(Pairs(S, a)),
           \A n \in S : a[n] = b[e[n]]
    PROVE  Cardinality(Pairs(S, a)) = Cardinality(Pairs(T, b))
<1> DEFINE P == Pairs(S, a)
           Q == Pairs(T, b)
           h == [x \in P |-> <<e[x[1]], x[2]>>]
<1>1. /\ e \in [S -> T]
      /\ \A m, n \in S : e[m] = e[n] => m = n
      /\ \A t \in T : \E n \in S : e[n] = t
  BY DEF Matches
<1>2. \A x \in P : x[1] \in S /\ x[2] \in a[x[1]] /\ x = <<x[1], x[2]>>
  BY PairsOf
<1>3. \A n, k : <<n, k>> \in Q <=> n \in T /\ k \in b[n]
  BY PairsOf
<1>4. \A n, k : <<n, k>> \in P <=> n \in S /\ k \in a[n]
  BY PairsOf
<1>5. \A x \in Q : x[1] \in T /\ x[2] \in b[x[1]] /\ x = <<x[1], x[2]>>
  BY PairsOf
<1> HIDE DEF P, Q
<1>6. h \in [P -> Q]
  <2>1. \A x \in P : <<e[x[1]], x[2]>> \in Q
    BY <1>1, <1>2, <1>3
  <2> QED BY <2>1
<1>7. \A x, y \in P : h[x] = h[y] => x = y
  <2> TAKE x, y \in P
  <2> HAVE h[x] = h[y]
  <2>1. e[x[1]] = e[y[1]] /\ x[2] = y[2]
    OBVIOUS
  <2>2. x[1] = y[1]
    BY <1>1, <1>2, <2>1
  <2> QED BY <1>2, <2>1, <2>2
<1>8. \A y \in Q : \E x \in P : h[x] = y
  <2> TAKE y \in Q
  <2>1. y[1] \in T /\ y[2] \in b[y[1]] /\ y = <<y[1], y[2]>>
    BY <1>5
  <2>2. PICK n \in S : e[n] = y[1]
    BY <1>1, <2>1
  <2>3. <<n, y[2]>> \in P
    BY <1>4, <2>1, <2>2
  <2>4. h[<<n, y[2]>>] = <<e[n], y[2]>>
    BY <2>3
  <2> QED BY <2>1, <2>2, <2>3, <2>4
<1>9. Matches(P, Q, h)
  <2> HIDE DEF h
  <2> QED BY <1>6, <1>7, <1>8 DEF Matches
<1> HIDE DEF h
<1>10. IsFiniteSet(P)
  BY DEF P
<1>11. Cardinality(Q) = Cardinality(P)
  BY <1>9, <1>10, MatchCount
<1> QED BY <1>11 DEF P, Q

\* The positions in a sequence of chunks, and where an item goes.
Places(chunks) == UNION {{c} \X DOMAIN chunks[c] : c \in DOMAIN chunks}
Home(on, i) == <<on[i], (i - Min(Owned(on, on[i]))) + 1>>
Homes(items, on) == [i \in 1 .. Len(items) |-> Home(on, i)]

\* The items of one page are consecutive.
LEMMA OneCut ==
    ASSUME NEW items \in Seq(FittingItems), NEW on, IsCut(items, on),
           NEW c \in 1 .. PagesOf(on)
    PROVE  LET lo == Min(Owned(on, c))
               hi == Max(Owned(on, c))
           IN /\ lo \in 1 .. Len(items) /\ hi \in 1 .. Len(items) /\ lo <= hi
              /\ Owned(on, c) = lo .. hi
              /\ \A i \in 1 .. Len(items) : on[i] = c <=> i \in lo .. hi
<1> DEFINE N == Len(items)
           O == Owned(on, c)
           lo == Min(O)
           hi == Max(O)
<1>1. N \in Nat /\ on \in [1 .. N -> Nat \ {0}]
  BY DEF IsCut
<1>2. \A i : i \in O <=> i \in 1 .. N /\ on[i] = c
  BY <1>1 DEF Owned
<1>3. O # {} /\ O \in SUBSET Nat /\ \A i \in O : i <= N
  BY <1>1, <1>2 DEF IsCut
<1>7. \A i, j \in 1 .. N : i <= j => on[i] <= on[j]
  BY DEF IsCut
<1> HIDE DEF O
<1>4. lo \in O /\ \A i \in O : lo <= i
  BY <1>3, Minimum
<1>5. hi \in O /\ \A i \in O : i <= hi
  BY <1>1, <1>3, Maximum
<1> HIDE DEF lo, hi, N
<1>6. lo \in 1 .. N /\ hi \in 1 .. N /\ lo <= hi /\ on[lo] = c /\ on[hi] = c
  BY <1>2, <1>4, <1>5
<1>8. \A i \in 1 .. N : on[i] = c <=> i \in lo .. hi
  <2> TAKE i \in 1 .. N
  <2>1. ASSUME on[i] = c PROVE i \in lo .. hi
    <3>1. i \in O
      BY <1>2, <2>1
    <3>2. lo <= i /\ i <= hi
      BY <1>4, <1>5, <3>1
    <3> QED BY <1>1, <1>6, <3>2
  <2>2. ASSUME i \in lo .. hi PROVE on[i] = c
    <3>1. lo <= i /\ i <= hi
      BY <1>6, <2>2
    <3>2. on[lo] <= on[i] /\ on[i] <= on[hi]
      BY <1>6, <1>7, <3>1
    <3>3. on[i] \in Nat /\ on[lo] \in Nat
      BY <1>1, <1>6
    <3> QED BY <1>6, <3>2, <3>3
  <2> QED BY <2>1, <2>2
<1>9. O = lo .. hi
  <2>1. \A i : i \in lo .. hi => i \in 1 .. N
    BY <1>1, <1>6
  <2>2. \A i : i \in O <=> i \in lo .. hi
    BY <1>2, <1>8, <2>1
  <2> QED BY <2>2
<1> QED BY <1>6, <1>8, <1>9 DEF lo, hi, N, O

LEMMA OneChunk ==
    ASSUME NEW items \in Seq(FittingItems), NEW on, IsCut(items, on),
           NEW c \in 1 .. PagesOf(on)
    PROVE  LET lo == Min(Owned(on, c))
               hi == Max(Owned(on, c))
               t == SubSeq(items, lo, hi)
           IN /\ t \in Seq(FittingItems) /\ DOMAIN t = 1 .. ((hi - lo) + 1)
              /\ Len(t) = (hi - lo) + 1 /\ Len(t) # 0
              /\ \A j \in DOMAIN t : t[j] = items[(lo + j) - 1]
              /\ CostOf(t, DOMAIN t) <= PageBytes
<1> DEFINE N == Len(items)
           lo == Min(Owned(on, c))
           hi == Max(Owned(on, c))
           t == SubSeq(items, lo, hi)
           m == (hi - lo) + 1
           O == lo .. hi
<1>1. /\ N \in Nat /\ lo \in 1 .. N /\ hi \in 1 .. N /\ lo <= hi
      /\ Owned(on, c) = lo .. hi /\ DOMAIN items = 1 .. N
  BY OneCut
<1> HIDE DEF lo, hi
<1>2. /\ t \in Seq(FittingItems) /\ Len(t) = m /\ DOMAIN t = 1 .. m
      /\ \A j \in 1 .. m : t[j] = items[(lo + j) - 1]
  <2>1. lo \in Nat \ {0} /\ hi \in Nat /\ hi <= Len(items) /\ ~ (lo > hi)
    BY <1>1
  <2> QED BY <2>1, SubSeqFacts
<1>3. m \in Nat /\ m # 0
  BY <1>1
<1> DEFINE e == [j \in 1 .. m |-> (lo + j) - 1]
<1>4. Matches(1 .. m, O, e)
  <2>1. e \in [1 .. m -> O]
    <3>1. \A j \in 1 .. m : (lo + j) - 1 \in O
      BY <1>1
    <3> QED BY <3>1
  <2>2. \A i, j \in 1 .. m : e[i] = e[j] => i = j
    BY <1>1
  <2>3. \A i \in O : \E j \in 1 .. m : e[j] = i
    <3> TAKE i \in O
    <3>1. (i - lo) + 1 \in 1 .. m /\ (lo + ((i - lo) + 1)) - 1 = i
      BY <1>1
    <3>2. e[(i - lo) + 1] = i
      BY <3>1
    <3> QED BY <3>1, <3>2
  <2> HIDE DEF e
  <2> QED BY <2>1, <2>2, <2>3 DEF Matches
<1>5. t \in Seq(ItemTypes) /\ items \in Seq(ItemTypes)
  BY <1>2 DEF FittingItems
<1>6. CostOf(t, DOMAIN t) = CostOf(items, O)
  <2>1. O \in SUBSET DOMAIN items
    BY <1>1
  <2>2. \A j \in 1 .. m : e[j] = (lo + j) - 1 /\ e[j] \in DOMAIN items
    BY <1>1
  <2> HIDE DEF e, O, m, t
  <2>3. \A j \in 1 .. m : Costs(t)[j] = Costs(items)[e[j]]
    BY <1>2, <2>2 DEF Costs
  <2>4. IsFiniteSet(Pairs(1 .. m, Costs(t))) /\ CostOf(t, 1 .. m) = Cardinality(Pairs(1 .. m, Costs(t)))
    BY <1>2, <1>5, CostIsPairs
  <2>5. CostOf(items, O) = Cardinality(Pairs(O, Costs(items)))
    BY <1>5, <2>1, CostIsPairs
  <2>6. Cardinality(Pairs(1 .. m, Costs(t))) = Cardinality(Pairs(O, Costs(items)))
    <3> DEFINE A == 1 .. m
               a == Costs(t)
               b == Costs(items)
    <3>1. Matches(A, O, e) /\ IsFiniteSet(Pairs(A, a)) /\ \A n \in A : a[n] = b[e[n]]
      BY <1>4, <2>3, <2>4
    <3> HIDE DEF A, a, b
    <3>2. Cardinality(Pairs(A, a)) = Cardinality(Pairs(O, b))
      BY ONLY <3>1, PairsMoved
    <3> QED BY <3>2 DEF A, a, b
  <2> QED BY <1>2, <2>4, <2>5, <2>6
<1>7. CostOf(items, O) <= PageBytes
  BY <1>1 DEF IsCut
<1> HIDE DEF t, m
<1>8. /\ t \in Seq(FittingItems) /\ DOMAIN t = 1 .. m /\ Len(t) = m /\ Len(t) # 0
      /\ \A j \in DOMAIN t : t[j] = items[(lo + j) - 1]
      /\ CostOf(t, DOMAIN t) <= PageBytes
  BY <1>2, <1>3, <1>6, <1>7
<1> QED BY <1>8 DEF lo, hi, t, m

LEMMA CutFacts ==
    ASSUME NEW items \in Seq(FittingItems), NEW on, IsCut(items, on)
    PROVE  LET chunks == Cut(items, on)
               home == Homes(items, on)
           IN /\ PagesOf(on) \in Nat
              /\ chunks \in [1 .. PagesOf(on) -> Seq(FittingItems)]
              /\ Len(items) = 0 => PagesOf(on) = 0
              /\ Len(items) # 0 => PagesOf(on) # 0
              /\ \A c \in 1 .. PagesOf(on) :
                   Len(chunks[c]) # 0 /\ CostOf(chunks[c], DOMAIN chunks[c]) <= PageBytes
              /\ Matches(1 .. Len(items), Places(chunks), home)
              /\ \A i \in 1 .. Len(items) : chunks[home[i][1]][home[i][2]] = items[i]
<1> DEFINE N == Len(items)
           P == PagesOf(on)
           chunks == Cut(items, on)
           home == Homes(items, on)
           lo(c) == Min(Owned(on, c))
           hi(c) == Max(Owned(on, c))
<1>1. N \in Nat /\ on \in [1 .. N -> Nat \ {0}] /\ Len(on) = N
  BY DEF IsCut
<1>2. P = IF N = 0 THEN 0 ELSE on[N]
  BY <1>1 DEF PagesOf
<1>3. P \in Nat /\ (N = 0 => P = 0) /\ (N # 0 => P # 0)
  BY <1>1, <1>2
<1>4. \A i \in 1 .. N : on[i] \in 1 .. P
  <2> TAKE i \in 1 .. N
  <2>1. N \in 1 .. N /\ i <= N /\ N # 0
    BY <1>1
  <2>2. on[i] <= on[N]
    BY <2>1 DEF IsCut
  <2> QED BY <1>1, <1>2, <1>3, <2>1, <2>2
<1>5. \A c \in 1 .. P : chunks[c] = SubSeq(items, lo(c), hi(c))
  BY DEF Cut
<1>6. DOMAIN chunks = 1 .. P /\ chunks = [c \in 1 .. P |-> chunks[c]]
  BY DEF Cut
<1>7. \A c \in 1 .. P :
        /\ lo(c) \in 1 .. N /\ hi(c) \in 1 .. N /\ lo(c) <= hi(c)
        /\ \A i \in 1 .. N : on[i] = c <=> i \in lo(c) .. hi(c)
  BY OneCut
<1>8. \A c \in 1 .. P :
        /\ chunks[c] \in Seq(FittingItems) /\ DOMAIN chunks[c] = 1 .. ((hi(c) - lo(c)) + 1)
        /\ Len(chunks[c]) # 0 /\ CostOf(chunks[c], DOMAIN chunks[c]) <= PageBytes
        /\ \A j \in DOMAIN chunks[c] : chunks[c][j] = items[(lo(c) + j) - 1]
  <2> TAKE c \in 1 .. P
  <2>1. chunks[c] = SubSeq(items, lo(c), hi(c))
    BY <1>5
  <2> HIDE DEF chunks
  <2> QED BY <2>1, OneChunk
<1>9. \A i \in 1 .. N : home[i] = <<on[i], (i - lo(on[i])) + 1>>
  BY DEF Homes, Home
<1>10. DOMAIN home = 1 .. N /\ home = [i \in 1 .. N |-> home[i]]
  BY DEF Homes
<1> HIDE DEF chunks, home, lo, hi, P, N
<1>11. \A i \in 1 .. N :
         /\ on[i] \in 1 .. P /\ (i - lo(on[i])) + 1 \in DOMAIN chunks[on[i]]
         /\ (lo(on[i]) + ((i - lo(on[i])) + 1)) - 1 = i
  <2> TAKE i \in 1 .. N
  <2> DEFINE c == on[i]
             l == lo(c)
             u == hi(c)
  <2>1. c \in 1 .. P
    BY <1>4
  <2>2. i \in l .. u /\ l \in 1 .. N /\ u \in 1 .. N /\ DOMAIN chunks[c] = 1 .. ((u - l) + 1)
    BY <1>7, <1>8, <2>1
  <2> HIDE DEF c, l, u
  <2>3. (i - l) + 1 \in 1 .. ((u - l) + 1) /\ (l + ((i - l) + 1)) - 1 = i
    BY <1>1, <2>2
  <2>4. (i - l) + 1 \in DOMAIN chunks[c]
    BY <2>2, <2>3
  <2> QED BY <2>1, <2>3, <2>4 DEF c, l
<1>12. \A c, j : <<c, j>> \in Places(chunks) <=> c \in 1 .. P /\ j \in DOMAIN chunks[c]
  BY <1>6 DEF Places
<1>13. \A x \in Places(chunks) : x = <<x[1], x[2]>>
  BY DEF Places
<1>14. home \in [1 .. N -> Places(chunks)]
  <2>1. \A i \in 1 .. N : home[i] \in Places(chunks)
    <3> TAKE i \in 1 .. N
    <3> DEFINE c == on[i]
               j == (i - lo(on[i])) + 1
    <3>1. c \in 1 .. P /\ j \in DOMAIN chunks[c] /\ home[i] = <<c, j>>
      BY <1>9, <1>11
    <3> HIDE DEF c, j
    <3>2. <<c, j>> \in Places(chunks)
      BY <1>12, <3>1
    <3> QED BY <3>1, <3>2
  <2> QED BY <1>10, <2>1
<1>15. \A i \in 1 .. N : chunks[home[i][1]][home[i][2]] = items[i]
  <2> TAKE i \in 1 .. N
  <2>1. home[i][1] = on[i] /\ home[i][2] = (i - lo(on[i])) + 1
    BY <1>9
  <2>2. chunks[on[i]][(i - lo(on[i])) + 1] = items[(lo(on[i]) + ((i - lo(on[i])) + 1)) - 1]
    BY <1>8, <1>11
  <2> QED BY <1>11, <2>1, <2>2
<1>16. \A i, j \in 1 .. N : home[i] = home[j] => i = j
  <2> TAKE i, j \in 1 .. N
  <2> HAVE home[i] = home[j]
  <2>1. on[i] = on[j] /\ (i - lo(on[i])) + 1 = (j - lo(on[j])) + 1
    BY <1>9
  <2>2. (i - lo(on[i])) + 1 = (j - lo(on[i])) + 1
    BY <2>1
  <2>3. lo(on[i]) \in 1 .. N
    BY <1>4, <1>7
  <2> QED BY <1>1, <2>2, <2>3
<1>17. \A x \in Places(chunks) : \E i \in 1 .. N : home[i] = x
  <2> TAKE x \in Places(chunks)
  <2> DEFINE c == x[1]
             k == x[2]
             l == lo(c)
             u == hi(c)
             i == (l + k) - 1
  <2>1. x = <<c, k>> /\ c \in 1 .. P /\ k \in DOMAIN chunks[c]
    BY <1>12, <1>13
  <2>2. l \in 1 .. N /\ u \in 1 .. N /\ k \in 1 .. ((u - l) + 1)
    BY <1>7, <1>8, <2>1
  <2>3. i \in 1 .. N /\ i \in l .. u /\ (i - l) + 1 = k
    <3> HIDE DEF l, u, k
    <3> QED BY <1>1, <2>2
  <2>4. on[i] = c
    <3> HIDE DEF i
    <3> QED BY <1>7, <2>1, <2>3
  <2>5. home[i] = <<c, (i - l) + 1>>
    <3> HIDE DEF i
    <3> QED BY <1>9, <2>3, <2>4
  <2>6. home[i] = x
    <3> HIDE DEF i, l, k, c
    <3> QED BY <2>1, <2>3, <2>5
  <2> HIDE DEF i
  <2> QED BY <2>3, <2>6
<1>18. Matches(1 .. N, Places(chunks), home)
  BY <1>14, <1>16, <1>17 DEF Matches
<1>19. chunks \in [1 .. P -> Seq(FittingItems)]
  BY <1>6, <1>8
<1>20. \A c \in 1 .. P : Len(chunks[c]) # 0 /\ CostOf(chunks[c], DOMAIN chunks[c]) <= PageBytes
  BY <1>8
<1> QED BY <1>3, <1>15, <1>18, <1>19, <1>20 DEF chunks, home, P, N

-----------------------------------------------------------------------------
(***************************************************************************)
(* The page of a chunk.                                                    *)
(***************************************************************************)
Enlarged(S, m, k, g, c) == \A i \in S : g[i] = 1 .. m[i] /\ c[i] = 1 .. (m[i] + k)
LEMMA PairsSplit ==
    ASSUME NEW S, IsFiniteSet(S), NEW m \in [S -> Nat], NEW k \in Nat, NEW g, NEW c,
           Enlarged(S, m, k, g, c)
    PROVE  /\ IsFiniteSet(Pairs(S, g))
           /\ Cardinality(Pairs(S, c)) = Cardinality(Pairs(S, g)) + Cardinality(S) * k
<1> DEFINE A == Pairs(S, g)
           C == Pairs(S, c)
           B == {x \in C : x[2] > m[x[1]]}
           R == S \X (1 .. k)
           h == [x \in R |-> <<x[1], m[x[1]] + x[2]>>]
<1> USE DEF Enlarged
<1>1. \A i \in S : m[i] \in Nat
  OBVIOUS
<1>2. \A i \in S : IsFiniteSet(g[i])
  BY <1>1, FS_Interval
<1>3. IsFiniteSet(A)
  BY <1>2, PairsFinite
<1>4. \A i, j : <<i, j>> \in A <=> i \in S /\ j \in 1 .. m[i]
  <2>1. \A i, j : <<i, j>> \in A <=> i \in S /\ j \in g[i]
    BY PairsOf
  <2> HIDE DEF A
  <2> QED BY <2>1
<1>5. \A i, j : <<i, j>> \in C <=> i \in S /\ j \in 1 .. (m[i] + k)
  <2>1. \A i, j : <<i, j>> \in C <=> i \in S /\ j \in c[i]
    BY PairsOf
  <2> HIDE DEF C
  <2> QED BY <2>1
<1>6. (\A x \in A : x = <<x[1], x[2]>>) /\ (\A x \in C : x = <<x[1], x[2]>>)
  BY PairsOf
<1> HIDE DEF A, C
<1>7. \A i, j : <<i, j>> \in B <=> i \in S /\ j \in 1 .. (m[i] + k) /\ j > m[i]
  BY <1>5
<1>8. \A x \in B : x = <<x[1], x[2]>>
  BY <1>6
<1> HIDE DEF B
<1>9. A \cap B = {}
  <2>1. ASSUME NEW x \in A \cap B PROVE FALSE
    <3>1. x = <<x[1], x[2]>> /\ x \in A /\ x \in B
      BY <1>6, <2>1
    <3>2. x[1] \in S /\ x[2] \in 1 .. m[x[1]] /\ x[2] > m[x[1]]
      BY <1>4, <1>7, <3>1
    <3>3. m[x[1]] \in Nat
      BY <1>1, <3>2
    <3> QED BY <3>2, <3>3
  <2> QED BY <2>1
<1>10. A \cup B = C
  <2>1. \A x \in A \cup B : x = <<x[1], x[2]>>
    BY <1>6, <1>8
  <2>2. \A i, j : <<i, j>> \in A \cup B <=> <<i, j>> \in C
    <3> TAKE i, j
    <3>1. CASE i \in S
      <4>1. m[i] \in Nat
        BY <1>1, <3>1
      <4>2. j \in 1 .. (m[i] + k) <=> j \in 1 .. m[i] \/ (j \in 1 .. (m[i] + k) /\ j > m[i])
        BY <4>1
      <4> QED BY <1>4, <1>5, <1>7, <3>1, <4>2
    <3>2. CASE i \notin S
      BY <1>4, <1>5, <1>7, <3>2
    <3> QED BY <3>1, <3>2
  <2> QED BY <1>6, <2>1, <2>2, PairSets
<1>11. Matches(R, B, h)
  <2>1. \A x \in R : x[1] \in S /\ x[2] \in 1 .. k /\ x = <<x[1], x[2]>> /\ m[x[1]] \in Nat
    BY <1>1
  <2>2. h \in [R -> B]
    <3>1. \A x \in R : <<x[1], m[x[1]] + x[2]>> \in B
      <4> TAKE x \in R
      <4> DEFINE i == x[1]
                 j == x[2]
      <4>1. i \in S /\ j \in 1 .. k /\ m[i] \in Nat
        BY <2>1
      <4> HIDE DEF i, j
      <4>2. m[i] + j \in 1 .. (m[i] + k) /\ m[i] + j > m[i]
        BY <4>1
      <4>3. <<i, m[i] + j>> \in B
        BY <1>7, <4>1, <4>2
      <4> QED BY <4>3 DEF i, j
    <3> QED BY <3>1
  <2>3. \A x, y \in R : h[x] = h[y] => x = y
    <3> TAKE x, y \in R
    <3> HAVE h[x] = h[y]
    <3>1. x[1] = y[1] /\ m[x[1]] + x[2] = m[y[1]] + y[2]
      OBVIOUS
    <3>2. x[2] \in 1 .. k /\ y[2] \in 1 .. k /\ m[x[1]] \in Nat
      BY <2>1
    <3>3. m[x[1]] + x[2] = m[x[1]] + y[2]
      BY <3>1
    <3>4. x[2] = y[2]
      <4> HIDE DEF R, h
      <4> QED BY <3>2, <3>3
    <3> HIDE DEF R, h
    <3>5. x = <<x[1], x[2]>> /\ y = <<y[1], y[2]>>
      BY <2>1
    <3> QED BY <3>1, <3>4, <3>5
  <2>4. \A y \in B : \E x \in R : h[x] = y
    <3> TAKE y \in B
    <3> DEFINE i == y[1]
               j == y[2]
               d == j - m[i]
    <3>1. y = <<i, j>>
      BY <1>8
    <3>2. i \in S /\ j \in 1 .. (m[i] + k) /\ j > m[i]
      <4> HIDE DEF i, j
      <4> QED BY <1>7, <3>1
    <3>3. m[i] \in Nat
      BY <1>1, <3>2
    <3>4. d \in 1 .. k /\ m[i] + d = j
      <4> HIDE DEF j, i
      <4> QED BY <3>2, <3>3
    <3> HIDE DEF d
    <3>5. <<i, d>> \in R /\ h[<<i, d>>] = <<i, m[i] + d>>
      <4> HIDE DEF i
      <4>1. <<i, d>> \in R
        BY <3>2, <3>4
      <4> QED BY <4>1
    <3>6. h[<<i, d>>] = y
      <4> HIDE DEF i, j, h
      <4> QED BY <3>1, <3>4, <3>5
    <3> QED BY <3>5, <3>6
  <2> HIDE DEF R, h
  <2> QED BY <2>2, <2>3, <2>4 DEF Matches
<1>12. IsFiniteSet(R) /\ Cardinality(R) = Cardinality(S) * k
  <2>1. IsFiniteSet(1 .. k) /\ Cardinality(1 .. k) = k
    BY FS_Interval
  <2> QED BY <2>1, FS_Product
<1> HIDE DEF R, h
<1>13. IsFiniteSet(B) /\ Cardinality(B) = Cardinality(R)
  BY <1>11, <1>12, MatchCount
<1>14. Cardinality(C) = Cardinality(A) + Cardinality(B)
  BY <1>3, <1>9, <1>10, <1>13, DisjointUnion
<1> QED BY <1>3, <1>12, <1>13, <1>14 DEF A, C

\* The bytes of the items are those of the rows, the holes and the directory.
LEMMA ChunkPage ==
    ASSUME NEW t \in Seq(FittingItems), CostOf(t, DOMAIN t) <= PageBytes
    PROVE  LET q == PageOf(t)
           IN /\ q \in PageTypes /\ LayoutIsValid(q)
              /\ DOMAIN q.slots = DOMAIN t /\ Len(q.slots) = Len(t)
              /\ \A i \in DOMAIN t : q.slots[i] = t[i].row
<1> DEFINE q == PageOf(t)
           D == DOMAIN t
           N == Len(t)
           E == {i \in D : t[i].row = Free}
           g == [i \in D |-> 1 .. t[i].size]
           H == Cardinality(HoleBytes(t))
           sl == [i \in D |-> t[i].row]
<1>1. N \in Nat /\ D = 1 .. N /\ \A i \in D : t[i] \in FittingItems
  OBVIOUS
<1>2. \A i \in D : /\ t[i].row \in FittingRows \cup {Free} /\ t[i].size \in Nat
                   /\ Cost(t[i]) = t[i].size + SlotBytes
                   /\ t[i].row # Free => t[i].size = Size(t[i].row)
  <2>1. \A x \in FittingItems : x \in ItemTypes /\ (x.row # Free => x.size = Size(x.row))
    BY DEF FittingItems
  <2> HIDE DEF D
  <2> QED BY <1>1, <2>1, ItemFacts
<1>3. IsFiniteSet(D) /\ Cardinality(D) = N
  BY <1>1, FS_Interval
<1>4. SlotBytes \in Nat /\ PageBytes \in Nat
  BY PageAssumption
<1>5. /\ IsFiniteSet(Pairs(D, g))
      /\ CostOf(t, D) = Cardinality(Pairs(D, g)) + N * SlotBytes
  <2> DEFINE m == [i \in D |-> t[i].size]
             c == Costs(t)
  <2>1. m \in [D -> Nat] /\ \A i \in D : m[i] = t[i].size
    BY <1>2
  <2>2. \A i \in D : g[i] = 1 .. m[i] /\ c[i] = 1 .. (m[i] + SlotBytes)
    BY <1>2 DEF Costs
  <2>3. t \in Seq(ItemTypes) /\ D \in SUBSET DOMAIN t
    BY DEF FittingItems
  <2>4. CostOf(t, D) = Cardinality(Pairs(D, c))
    BY <2>3, CostIsPairs
  <2> HIDE DEF m, c, g, D
  <2>5. /\ IsFiniteSet(Pairs(D, g))
        /\ Cardinality(Pairs(D, c)) = Cardinality(Pairs(D, g)) + Cardinality(D) * SlotBytes
    <3> DEFINE k == SlotBytes
    <3>1. /\ IsFiniteSet(D) /\ m \in [D -> Nat] /\ k \in Nat
          /\ Enlarged(D, m, k, g, c)
      BY <1>3, <1>4, <2>1, <2>2 DEF Enlarged
    <3> HIDE DEF k
    <3>2. /\ IsFiniteSet(Pairs(D, g))
          /\ Cardinality(Pairs(D, c)) = Cardinality(Pairs(D, g)) + Cardinality(D) * k
      BY ONLY <3>1, PairsSplit
    <3> QED BY <3>2 DEF k
  <2> QED BY <1>3, <2>4, <2>5
<1>6. HoleBytes(t) = Pairs(E, g)
  <2>1. \A i \in E : g[i] = 1 .. t[i].size
    OBVIOUS
  <2>2. {{i} \X (1 .. t[i].size) : i \in E} = {{i} \X g[i] : i \in E}
    BY <2>1
  <2> QED BY <2>2 DEF HoleBytes, Pairs
<1>7. IsFiniteSet(Pairs(E, g)) /\ IsFiniteSet(Pairs(D \ E, g)) /\ H \in Nat
      /\ Cardinality(Pairs(D, g)) = Cardinality(Pairs(D \ E, g)) + H
  <2> DEFINE A == Pairs(D \ E, g)
             B == Pairs(E, g)
  <2>1. E \subseteq D
    OBVIOUS
  <2> HIDE DEF E, g, D
  <2>2. A \subseteq Pairs(D, g) /\ B \subseteq Pairs(D, g) /\ A \cup B = Pairs(D, g)
    BY <2>1 DEF Pairs
  <2>3. A \cap B = {}
    <3>1. \A x \in A : x[1] \in D \ E
      BY PairsOf
    <3>2. \A x \in B : x[1] \in E
      BY PairsOf
    <3> HIDE DEF A, B
    <3> QED BY <3>1, <3>2
  <2>4. IsFiniteSet(A) /\ IsFiniteSet(B)
    BY <1>5, <2>2, FS_Subset
  <2> HIDE DEF A, B
  <2>5. Cardinality(Pairs(D, g)) = Cardinality(A) + Cardinality(B)
    BY <2>2, <2>3, <2>4, DisjointUnion
  <2>6. H = Cardinality(B) /\ H \in Nat
    BY <1>6, <2>4, FS_CardinalityType DEF B
  <2> QED BY <2>4, <2>5, <2>6 DEF A, B
<1>8. q = [slots |-> sl, holes |-> H]
  BY DEF PageOf
<1>9. sl \in Seq(FittingRows \cup {Free}) /\ Len(sl) = N /\ DOMAIN sl = D
      /\ \A i \in D : sl[i] = t[i].row
  <2>1. sl \in [1 .. N -> FittingRows \cup {Free}]
    BY <1>1, <1>2
  <2>2. DOMAIN sl = 1 .. N
    BY <1>1
  <2>3. \A i \in D : sl[i] = t[i].row
    OBVIOUS
  <2> HIDE DEF sl
  <2> QED BY <1>1, <2>1, <2>2, <2>3
<1> HIDE DEF sl, H, q
<1>10. q \in PageTypes /\ q.slots = sl /\ q.holes = H
  BY <1>7, <1>8, <1>9 DEF PageTypes
<1>11. Live(q) = D \ E
  BY <1>9, <1>10 DEF Live
<1>12. Bytes(q) = Cardinality(Pairs(D \ E, g))
  <2>1. \A i \in D \ E : Sizes(q)[i] = g[i]
    BY <1>2, <1>9, <1>10 DEF Sizes
  <2>2. {{i} \X Sizes(q)[i] : i \in D \ E} = {{i} \X g[i] : i \in D \ E}
    BY <2>1
  <2>3. Pairs(D \ E, Sizes(q)) = Pairs(D \ E, g)
    BY <2>2 DEF Pairs
  <2>4. Bytes(q) = Cardinality(Pairs(Live(q), Sizes(q)))
    BY <1>10, PageFacts
  <2> HIDE DEF E, g, D
  <2> QED BY <1>11, <2>3, <2>4
<1>13. LayoutIsValid(q)
  <2> DEFINE b == Bytes(q)
             d == N * SlotBytes
  <2>1. b \in Nat
    BY <1>10, PageFacts
  <2>2. d \in Nat /\ SlotBytes * N = d
    BY <1>1, <1>4
  <2>3. CostOf(t, D) = (b + H) + d
    BY <1>5, <1>7, <1>12
  <2>4. FreeSpace(q) = PageBytes - d - b - H
    BY <1>9, <1>10, <2>2 DEF FreeSpace
  <2>5. (b + H) + d <= PageBytes
    BY <2>3
  <2> HIDE DEF b, d
  <2>6. PageBytes - d - b - H >= 0
    BY <1>4, <1>7, <2>1, <2>2, <2>5
  <2> QED BY <2>4, <2>6 DEF LayoutIsValid
<1> QED BY <1>9, <1>10, <1>13 DEF q, D, N

-----------------------------------------------------------------------------
(***************************************************************************)
(* The items of an insertion: the new row and the slots of the page.       *)
(***************************************************************************)
LEMMA RowItems ==
    ASSUME NEW row \in FittingRows, NEW new \in BOOLEAN
    PROVE  /\ RowItem(row, new) \in FittingItems
           /\ RowItem(row, new).row = row /\ RowItem(row, new).new = new
<1>1. Size(row) \in Nat /\ Size(row) + SlotBytes <= PageBytes
  BY DEF FittingRows, Size
<1>2. RowItem(row, new) \in ItemTypes
  BY <1>1 DEF RowItem, ItemTypes
<1> QED BY <1>1, <1>2 DEF RowItem, FittingItems, Cost

LEMMA HoleItems ==
    ASSUME NEW b \in Nat, b + SlotBytes <= PageBytes
    PROVE  Hole(b) \in FittingItems /\ Hole(b).row = Free /\ Hole(b).new = FALSE
<1>1. Hole(b) \in ItemTypes
  BY DEF Hole, ItemTypes
<1> QED BY <1>1 DEF Hole, FittingItems, Cost

\* The free slots of a page, in slot order.
FreeOf(p) == {s \in DOMAIN p.slots : p.slots[s] = Free}
LEMMA FreeSlotRanks ==
    ASSUME NEW p \in PageTypes
    PROVE  LET K == Cardinality(Live(p))
               N == Len(p.slots) - K
           IN /\ K \in Nat /\ N \in Nat /\ Len(p.slots) = K + N
              /\ Cardinality(FreeOf(p)) = N
              /\ \E r : Matches(FreeOf(p), 1 .. N, r)
<1> DEFINE A == FreeOf(p)
           B == Live(p)
           K == Cardinality(B)
           L == Len(p.slots)
           N == L - K
           m == Cardinality(A)
           below == UpTo(A)
           e == [k \in 1 .. m |-> CHOOSE s \in A : Cardinality(below[s]) = k]
<1>1. L \in Nat /\ DOMAIN p.slots = 1 .. L /\ IsFiniteSet(B) /\ B \subseteq 1 .. L
  BY PageFacts
<1>2. A \subseteq 1 .. L /\ A \cap B = {} /\ A \cup B = 1 .. L
  BY <1>1 DEF FreeOf, Live
<1> HIDE DEF A, B, L
<1>3. IsFiniteSet(1 .. L) /\ Cardinality(1 .. L) = L
  BY <1>1, FS_Interval
<1>4. IsFiniteSet(A)
  BY <1>2, <1>3, FS_Subset
<1>5. L = m + K /\ m \in Nat /\ K \in Nat
  <2>1. Cardinality(A \cup B) = Cardinality(A) + Cardinality(B)
    BY <1>1, <1>2, <1>4, DisjointUnion
  <2> QED BY <1>1, <1>2, <1>3, <1>4, <2>1, FS_CardinalityType
<1>6. A \in SUBSET Nat
  BY <1>1, <1>2
<1>7. RankOrder(A, below)
  BY <1>6, NumberRanks
<1> DEFINE n == m
           d == e
<1>8. n = Cardinality(A) /\ d = [k \in 1 .. n |-> CHOOSE s \in A : Cardinality(below[s]) = k]
  OBVIOUS
<1> HIDE DEF below, d, n, e
<1>9. Matches(1 .. n, A, d)
  BY <1>4, <1>7, <1>8, Ranks
<1> DEFINE r == [s \in A |-> CHOOSE k \in 1 .. n : d[k] = s]
<1>10. \A s \in A : r[s] \in 1 .. n /\ d[r[s]] = s
  <2> TAKE s \in A
  <2>1. \E k \in 1 .. n : d[k] = s
    BY <1>9 DEF Matches
  <2> QED BY <2>1
<1>11. \A k \in 1 .. n : d[k] \in A /\ r[d[k]] = k
  <2> TAKE k \in 1 .. n
  <2>1. d[k] \in A
    BY <1>9 DEF Matches
  <2>2. r[d[k]] \in 1 .. n /\ d[r[d[k]]] = d[k]
    BY <1>10, <2>1
  <2> HIDE DEF r
  <2>3. r[d[k]] = k
    BY <1>9, <2>2 DEF Matches
  <2> QED BY <2>1, <2>3
<1>12. Matches(A, 1 .. n, r)
  <2>1. r \in [A -> 1 .. n]
    BY <1>10
  <2> HIDE DEF r
  <2>2. \A s, t \in A : r[s] = r[t] => s = t
    BY <1>10
  <2>3. \A k \in 1 .. n : \E s \in A : r[s] = k
    BY <1>11
  <2> QED BY <2>1, <2>2, <2>3 DEF Matches
<1>13. n = N /\ N \in Nat /\ L = K + N
  BY <1>5 DEF n
<1>14. \E x : Matches(A, 1 .. N, x)
  BY <1>12, <1>13
<1> QED BY <1>5, <1>8, <1>13, <1>14 DEF A, B, L

LEMMA RetainedFacts ==
    ASSUME NEW p \in PageTypes, LayoutIsValid(p)
    PROVE  LET N == Len(p.slots) - Cardinality(Live(p))
           IN /\ RetainedHoles(p) \in Seq(FittingItems) /\ Len(RetainedHoles(p)) = N
              /\ \A i \in 1 .. N : RetainedHoles(p)[i].row = Free /\ ~ RetainedHoles(p)[i].new
<1> DEFINE N == Len(p.slots) - Cardinality(Live(p))
           h(i) == Hole(IF i = 1 THEN p.holes ELSE 0)
<1>1. N \in Nat /\ Cardinality(Live(p)) \in Nat /\ Len(p.slots) = Cardinality(Live(p)) + N
  BY FreeSlotRanks
<1>2. p.holes \in Nat /\ Bytes(p) \in Nat /\ Len(p.slots) \in Nat
  BY PageFacts DEF PageTypes
<1>3. ASSUME N # 0 PROVE p.holes + SlotBytes <= PageBytes
  <2> DEFINE l == Len(p.slots)
             x == SlotBytes * l
             b == Bytes(p)
  <2>1. l \in Nat /\ l # 0
    BY <1>1, <1>3
  <2>2. SlotBytes \in Nat \ {0} /\ PageBytes \in Nat
    BY PageAssumption
  <2>3. x \in Nat /\ x >= SlotBytes
    <3> HIDE DEF l
    <3> QED BY <2>1, <2>2
  <2>4. PageBytes - x - b - p.holes >= 0
    BY DEF LayoutIsValid, FreeSpace
  <2>5. b \in Nat
    BY <1>2
  <2> HIDE DEF x, b
  <2> QED BY <1>2, <2>2, <2>3, <2>4, <2>5
<1>4. \A i \in 1 .. N : h(i) \in FittingItems /\ h(i).row = Free /\ ~ h(i).new
  <2> TAKE i \in 1 .. N
  <2> DEFINE b == IF i = 1 THEN p.holes ELSE 0
  <2>1. b \in Nat /\ b + SlotBytes <= PageBytes
    <3>1. N # 0
      BY <1>1
    <3>2. p.holes + SlotBytes <= PageBytes /\ p.holes \in Nat
      BY <1>2, <1>3, <3>1
    <3> QED BY <3>2, PageAssumption
  <2> HIDE DEF b
  <2>2. Hole(b) \in FittingItems /\ Hole(b).row = Free /\ Hole(b).new = FALSE
    BY <2>1, HoleItems
  <2> QED BY <2>2 DEF b
<1> HIDE DEF h
<1>5. RetainedHoles(p) = [i \in 1 .. N |-> h(i)]
  BY DEF RetainedHoles, h
<1> HIDE DEF N
<1>6. RetainedHoles(p) \in Seq(FittingItems) /\ Len(RetainedHoles(p)) = N
  BY <1>1, <1>4, <1>5
<1>7. \A i \in 1 .. N : RetainedHoles(p)[i].row = Free /\ ~ RetainedHoles(p)[i].new
  BY <1>4, <1>5
<1> QED BY <1>6, <1>7 DEF N

\* The rows of a page and a new one behind every key up to its own.
LEMMA RowsWith ==
    ASSUME NEW p \in PageTypes, NEW row \in FittingRows
    PROVE  LET K == Cardinality(Live(p))
               old == [i \in DOMAIN PageRows(p) |-> RowItem(PageRows(p)[i], FALSE)]
               pos == Position(p, Key(row))
               t == InsertAt(old, pos, RowItem(row, TRUE))
           IN /\ K \in Nat /\ pos \in 1 .. (K + 1)
              /\ t \in Seq(FittingItems) /\ Len(t) = K + 1 /\ t[pos] = RowItem(row, TRUE)
              /\ \A j \in 1 .. K : j < pos => t[j] = RowItem(PageRows(p)[j], FALSE)
              /\ \A j \in 1 .. K : j >= pos => t[j + 1] = RowItem(PageRows(p)[j], FALSE)
<1> DEFINE K == Cardinality(Live(p))
           old == [i \in DOMAIN PageRows(p) |-> RowItem(PageRows(p)[i], FALSE)]
           pos == Position(p, Key(row))
           new == RowItem(row, TRUE)
           t == InsertAt(old, pos, new)
           B == {s \in Live(p) : Key(p.slots[s]) <= Key(row)}
<1>1. K \in Nat /\ DOMAIN PageRows(p) = 1 .. K /\ \A j \in 1 .. K : PageRows(p)[j] \in FittingRows
  BY PageRowFacts
<1>2. IsFiniteSet(Live(p))
  BY PageFacts
<1>3. pos \in 1 .. (K + 1)
  <2>1. B \subseteq Live(p)
    OBVIOUS
  <2>2. pos = Cardinality(B) + 1
    BY DEF Position
  <2> HIDE DEF B
  <2>3. IsFiniteSet(B) /\ Cardinality(B) <= K
    BY <1>2, <2>1, FS_Subset
  <2>4. Cardinality(B) \in Nat
    BY <2>3, FS_CardinalityType
  <2> HIDE DEF pos, K
  <2> QED BY <1>1, <2>2, <2>3, <2>4
<1> HIDE DEF pos, K
<1>4. \A j \in 1 .. K : old[j] = RowItem(PageRows(p)[j], FALSE) /\ old[j] \in FittingItems
  <2> TAKE j \in 1 .. K
  <2>1. PageRows(p)[j] \in FittingRows
    BY <1>1
  <2>2. RowItem(PageRows(p)[j], FALSE) \in FittingItems
    BY <2>1, RowItems
  <2> QED BY <1>1, <2>2
<1>5. old \in Seq(FittingItems) /\ Len(old) = K
  <2>1. old = [j \in 1 .. K |-> old[j]]
    BY <1>1
  <2> HIDE DEF old
  <2>2. old \in [1 .. K -> FittingItems]
    BY <1>4, <2>1
  <2> QED BY <1>1, <2>2
<1>6. new \in FittingItems
  BY RowItems
<1> HIDE DEF old, new
<1>7. /\ t \in Seq(FittingItems) /\ Len(t) = K + 1 /\ t[pos] = new
      /\ \A j \in 1 .. K : j < pos => t[j] = old[j]
      /\ \A j \in 1 .. K : j >= pos => t[j + 1] = old[j]
  <2>1. old \in Seq(FittingItems) /\ new \in FittingItems /\ pos \in 1 .. (Len(old) + 1)
    BY <1>3, <1>5, <1>6
  <2>2. IsPut(FittingItems, old, pos, new, t)
    BY ONLY <2>1, Inserted
  <2> HIDE DEF t
  <2> QED BY <1>5, <2>2 DEF IsPut
<1> HIDE DEF t
<1>8. /\ \A j \in 1 .. K : j < pos => t[j] = RowItem(PageRows(p)[j], FALSE)
      /\ \A j \in 1 .. K : j >= pos => t[j + 1] = RowItem(PageRows(p)[j], FALSE)
  BY <1>4, <1>7
<1>9. K \in Nat
  BY <1>1
<1>10. /\ K \in Nat /\ pos \in 1 .. (K + 1)
       /\ t \in Seq(FittingItems) /\ Len(t) = K + 1 /\ t[pos] = new
  BY <1>3, <1>7, <1>9
<1> QED BY <1>8, <1>10 DEF K, pos, t, old, new

\* Where the slots of a page go among the items.
KeepsSlots(p, items, pos, e) ==
  /\ Matches(DOMAIN p.slots, (1 .. Len(items)) \ {pos}, e)
  /\ \A s \in DOMAIN p.slots : items[e[s]].row = p.slots[s]

LEMMA ItemsWithFacts ==
    ASSUME NEW p \in PageTypes, LayoutIsValid(p), NEW row \in FittingRows
    PROVE  LET items == ItemsWith(p, row)
               pos == Position(p, Key(row))
           IN /\ items \in Seq(FittingItems) /\ Len(items) = Len(p.slots) + 1
              /\ pos \in 1 .. Len(items) /\ items[pos] = RowItem(row, TRUE)
              /\ \A i \in 1 .. Len(items) : i # pos => ~ items[i].new
              /\ \E e : KeepsSlots(p, items, pos, e)
<1> DEFINE K == Cardinality(Live(p))
           N == Len(p.slots) - K
           L == K + 1 + N
           old == [i \in DOMAIN PageRows(p) |-> RowItem(PageRows(p)[i], FALSE)]
           pos == Position(p, Key(row))
           new == RowItem(row, TRUE)
           t == InsertAt(old, pos, new)
           u == RetainedHoles(p)
           items == ItemsWith(p, row)
<1>1. /\ K \in Nat /\ pos \in 1 .. (K + 1)
      /\ t \in Seq(FittingItems) /\ Len(t) = K + 1 /\ t[pos] = new
      /\ \A j \in 1 .. K : j < pos => t[j] = RowItem(PageRows(p)[j], FALSE)
      /\ \A j \in 1 .. K : j >= pos => t[j + 1] = RowItem(PageRows(p)[j], FALSE)
  BY RowsWith
<1>2. u \in Seq(FittingItems) /\ Len(u) = N /\ \A i \in 1 .. N : u[i].row = Free /\ ~ u[i].new
  BY RetainedFacts
<1>3. N \in Nat /\ Len(p.slots) = K + N
  BY FreeSlotRanks
<1>4. PICK r : Matches(FreeOf(p), 1 .. N, r)
  BY FreeSlotRanks
<1>5. items = t \o u
  BY DEF ItemsWith
<1>6. t \in Seq(FittingItems) /\ u \in Seq(FittingItems)
  BY <1>1, <1>2
<1>7. /\ DOMAIN p.slots = 1 .. Len(p.slots) /\ Live(p) \subseteq DOMAIN p.slots
      /\ \A s \in DOMAIN p.slots : s \in Live(p) \/ s \in FreeOf(p)
      /\ \A s \in FreeOf(p) : s \notin Live(p) /\ p.slots[s] = Free /\ s \in DOMAIN p.slots
      /\ \A s \in Live(p) : p.slots[s] # Free
  BY PageFacts DEF FreeOf, Live
<1>8. /\ DOMAIN PageRows(p) = 1 .. K
      /\ \A k \in 1 .. K : PageRows(p)[k] \in FittingRows
      /\ \A s \in Live(p) : Rank(p, s) \in 1 .. K /\ PageRows(p)[Rank(p, s)] = p.slots[s]
      /\ \A s, x \in Live(p) : Rank(p, s) = Rank(p, x) => s = x
      /\ \A k \in 1 .. K : \E s \in Live(p) : Rank(p, s) = k
  BY PageRowFacts
<1> HIDE DEF t, u, items, new, pos, K, N
<1>9. /\ items \in Seq(FittingItems) /\ Len(items) = Len(t) + Len(u)
      /\ \A i \in 1 .. Len(t) : items[i] = t[i]
      /\ \A i \in 1 .. Len(u) : items[Len(t) + i] = u[i]
  <2>1. /\ t \o u \in Seq(FittingItems) /\ Len(t \o u) = Len(t) + Len(u)
        /\ \A i \in 1 .. Len(t) : (t \o u)[i] = t[i]
        /\ \A i \in 1 .. Len(u) : (t \o u)[Len(t) + i] = u[i]
    BY ONLY <1>6, Concatenated
  <2> QED BY <1>5, <2>1
<1>10. Len(items) = L /\ L = Len(p.slots) + 1 /\ L \in Nat
  BY <1>1, <1>2, <1>3, <1>9
<1>11. /\ \A i \in 1 .. (K + 1) : items[i] = t[i]
       /\ \A i \in 1 .. N : items[K + 1 + i] = u[i]
  BY <1>1, <1>2, <1>9
<1>12. pos \in 1 .. L /\ items[pos] = new
  BY <1>1, <1>3, <1>11
<1>13. \A k \in 1 .. K : /\ RowItem(PageRows(p)[k], FALSE).row = PageRows(p)[k]
                         /\ ~ RowItem(PageRows(p)[k], FALSE).new
  <2> TAKE k \in 1 .. K
  <2>1. PageRows(p)[k] \in FittingRows
    BY <1>8
  <2>2. RowItem(PageRows(p)[k], FALSE).new = FALSE /\ RowItem(PageRows(p)[k], FALSE).row = PageRows(p)[k]
    BY <2>1, RowItems
  <2> QED BY <2>2
<1> DEFINE at(k) == IF k < pos THEN k ELSE k + 1
<1>14. \A k \in 1 .. K : /\ at(k) \in (1 .. (K + 1)) \ {pos}
                         /\ items[at(k)] = RowItem(PageRows(p)[k], FALSE)
  <2> TAKE k \in 1 .. K
  <2>1. CASE k < pos
    <3>1. at(k) = k /\ k \in (1 .. (K + 1)) \ {pos}
      BY <1>1, <2>1
    <3>2. items[k] = t[k] /\ t[k] = RowItem(PageRows(p)[k], FALSE)
      BY <1>1, <1>11, <2>1, <3>1
    <3> QED BY <3>1, <3>2
  <2>2. CASE ~ (k < pos)
    <3>1. at(k) = k + 1 /\ k + 1 \in (1 .. (K + 1)) \ {pos} /\ k >= pos
      BY <1>1, <2>2
    <3>2. items[k + 1] = t[k + 1] /\ t[k + 1] = RowItem(PageRows(p)[k], FALSE)
      BY <1>1, <1>11, <3>1
    <3> QED BY <3>1, <3>2
  <2> QED BY <2>1, <2>2
<1>15. \A i \in (1 .. (K + 1)) \ {pos} : \E k \in 1 .. K : at(k) = i
  <2> TAKE i \in (1 .. (K + 1)) \ {pos}
  <2>1. CASE i < pos
    <3>1. i \in 1 .. K /\ at(i) = i
      BY <1>1, <2>1
    <3> QED BY <3>1
  <2>2. CASE ~ (i < pos)
    <3>1. i - 1 \in 1 .. K /\ at(i - 1) = i
      BY <1>1, <2>2
    <3> QED BY <3>1
  <2> QED BY <2>1, <2>2
<1>16. \A j, k \in 1 .. K : at(j) = at(k) => j = k
  BY <1>1
<1>17. \A i \in 1 .. L : i # pos => ~ items[i].new
  <2> TAKE i \in 1 .. L
  <2> HAVE i # pos
  <2>1. CASE i \in 1 .. (K + 1)
    <3>1. PICK k \in 1 .. K : at(k) = i
      BY <1>15, <2>1
    <3> HIDE DEF at
    <3> QED BY <1>13, <1>14, <3>1
  <2>2. CASE i \notin 1 .. (K + 1)
    <3>1. i - (K + 1) \in 1 .. N /\ K + 1 + (i - (K + 1)) = i
      BY <1>1, <1>3, <2>2
    <3>2. items[i] = u[i - (K + 1)]
      BY <1>11, <3>1
    <3> QED BY <1>2, <3>1, <3>2
  <2> QED BY <2>1, <2>2
<1> DEFINE T == (1 .. L) \ {pos}
           D == DOMAIN p.slots
           e == [s \in D |-> IF s \in Live(p) THEN at(Rank(p, s)) ELSE K + 1 + r[s]]
<1>18. /\ r \in [FreeOf(p) -> 1 .. N]
       /\ \A x, y \in FreeOf(p) : r[x] = r[y] => x = y
       /\ \A j \in 1 .. N : \E s \in FreeOf(p) : r[s] = j
  BY <1>4 DEF Matches
<1> HIDE DEF at
<1>19. \A s \in Live(p) : /\ e[s] = at(Rank(p, s)) /\ e[s] \in T /\ e[s] <= K + 1
                          /\ items[e[s]].row = p.slots[s]
  <2> TAKE s \in Live(p)
  <2> DEFINE k == Rank(p, s)
  <2>1. k \in 1 .. K /\ PageRows(p)[k] = p.slots[s]
    BY <1>8
  <2>2. e[s] = at(k)
    BY <1>7
  <2> HIDE DEF k, e
  <2>3. at(k) \in (1 .. (K + 1)) \ {pos} /\ items[at(k)] = RowItem(PageRows(p)[k], FALSE)
    BY <1>14, <2>1
  <2>4. at(k) \in T /\ at(k) <= K + 1
    BY <1>1, <1>3, <2>3
  <2>5. items[at(k)].row = p.slots[s]
    BY <1>13, <2>1, <2>3
  <2>6. e[s] \in T /\ e[s] <= K + 1 /\ items[e[s]].row = p.slots[s]
    BY <2>2, <2>4, <2>5
  <2> QED BY <2>2, <2>6 DEF k
<1>20. \A s \in FreeOf(p) : /\ e[s] = K + 1 + r[s] /\ e[s] \in T /\ e[s] > K + 1
                            /\ items[e[s]].row = p.slots[s]
  <2> TAKE s \in FreeOf(p)
  <2>1. r[s] \in 1 .. N
    BY <1>18
  <2>2. e[s] = K + 1 + r[s]
    BY <1>7
  <2> HIDE DEF e
  <2>3. e[s] \in T /\ e[s] > K + 1
    BY <1>1, <1>3, <2>1, <2>2
  <2>4. items[e[s]].row = Free
    BY <1>2, <1>11, <2>1, <2>2
  <2> QED BY <1>7, <2>2, <2>3, <2>4
<1>21. e \in [D -> T]
  <2>1. \A s \in D : e[s] \in T
    BY <1>7, <1>19, <1>20
  <2>2. e = [s \in D |-> e[s]]
    OBVIOUS
  <2> HIDE DEF e
  <2> QED BY <2>1, <2>2
<1> HIDE DEF e
<1>22. \A x, y \in D : e[x] = e[y] => x = y
  <2> TAKE x, y \in D
  <2> HAVE e[x] = e[y]
  <2>1. e[x] \in T /\ e[y] \in T /\ T \subseteq Nat
    BY <1>10, <1>21
  <2>2. CASE x \in Live(p) /\ y \in Live(p)
    BY <1>8, <1>16, <1>19, <2>2
  <2>3. CASE x \in FreeOf(p) /\ y \in FreeOf(p)
    <3>1. r[x] \in Nat /\ r[y] \in Nat /\ K + 1 + r[x] = K + 1 + r[y]
      BY <1>18, <1>20, <2>3
    <3>2. r[x] = r[y]
      BY <1>1, <3>1
    <3> QED BY <1>18, <2>3, <3>2
  <2>4. CASE x \in Live(p) /\ y \in FreeOf(p)
    <3>1. e[x] <= K + 1 /\ e[y] > K + 1
      BY <1>19, <1>20, <2>4
    <3> QED BY <1>1, <2>1, <3>1
  <2>5. CASE x \in FreeOf(p) /\ y \in Live(p)
    <3>1. e[y] <= K + 1 /\ e[x] > K + 1
      BY <1>19, <1>20, <2>5
    <3> QED BY <1>1, <2>1, <3>1
  <2> QED BY <1>7, <2>2, <2>3, <2>4, <2>5
<1>23. \A i \in T : \E s \in D : e[s] = i
  <2> TAKE i \in T
  <2>1. CASE i \in 1 .. (K + 1)
    <3>1. PICK k \in 1 .. K : at(k) = i
      BY <1>15, <2>1
    <3>2. PICK s \in Live(p) : Rank(p, s) = k
      BY <1>8
    <3> QED BY <1>7, <1>19, <3>1, <3>2
  <2>2. CASE i \notin 1 .. (K + 1)
    <3>1. i - (K + 1) \in 1 .. N /\ K + 1 + (i - (K + 1)) = i
      BY <1>1, <1>3, <2>2
    <3>2. PICK s \in FreeOf(p) : r[s] = i - (K + 1)
      BY <1>18, <3>1
    <3>3. e[s] = i
      BY <1>20, <3>1, <3>2
    <3> QED BY <1>7, <3>3
  <2> QED BY <2>1, <2>2
<1>24. KeepsSlots(p, items, pos, e)
  <2>1. Matches(D, T, e)
    BY <1>21, <1>22, <1>23 DEF Matches
  <2>2. \A s \in D : items[e[s]].row = p.slots[s]
    BY <1>7, <1>19, <1>20
  <2> QED BY <1>10, <2>1, <2>2 DEF KeepsSlots
<1>25. /\ items \in Seq(FittingItems) /\ Len(items) = Len(p.slots) + 1
       /\ pos \in 1 .. Len(items) /\ items[pos] = new
       /\ \A i \in 1 .. Len(items) : i # pos => ~ items[i].new
  BY <1>9, <1>10, <1>12, <1>17
<1> QED BY <1>24, <1>25 DEF items, pos, new

LEMMA PartitionCut ==
    ASSUME NEW items \in Seq(FittingItems), Len(items) # 0, NEW appending \in BOOLEAN
    PROVE  \E on : IsCut(items, on) /\ Partition(items, appending) = Cut(items, on)
<1> DEFINE greedy == FillGreedily(items)
           n == PagesOf(greedy)
           balanced == Spread(items, n)
           fits == \A c \in 1 .. n : /\ Owned(balanced, c) # {}
                                     /\ CostOf(items, Owned(balanced, c)) <= PageBytes
           on == IF n < 2 \/ appending \/ ~ fits THEN greedy ELSE balanced
<1>1. IsCut(items, greedy)
  BY GreedyCut
<1>2. Partition(items, appending) = Cut(items, on)
  BY DEF Partition
<1>3. n \in Nat
  BY <1>1, CutFacts
<1> HIDE DEF n
<1>4. CASE n < 2 \/ appending \/ ~ fits
  <2>1. on = greedy
    BY <1>4
  <2> HIDE DEF on
  <2> QED BY <1>1, <1>2, <2>1
<1>5. CASE ~ (n < 2 \/ appending \/ ~ fits)
  <2>1. on = balanced /\ fits /\ n \in Nat \ {0}
    BY <1>3, <1>5
  <2>2. IsCut(items, balanced)
    BY <2>1, SpreadCut
  <2> HIDE DEF on, balanced, fits
  <2> QED BY <1>2, <2>1, <2>2
<1> QED BY <1>4, <1>5

-----------------------------------------------------------------------------
(***************************************************************************)
(* The binary search ends at a page or behind the last: at the first page  *)
(* that passes, when every page behind one that passes does so too.        *)
(***************************************************************************)
PassesOnwards(f, key, strict) ==
  \A m, n \in 1 .. Len(f.pages) :
    m <= n /\ Passes(f, m, key, strict) => Passes(f, n, key, strict)

\* No page before i passes, and every page from j on does.
Between(f, key, strict, i, j) ==
  /\ i <= j
  /\ \A m \in 1 .. Len(f.pages) :
       (m < i => ~ Passes(f, m, key, strict)) /\ (m >= j => Passes(f, m, key, strict))

\* A round of the search leads from c to d: to a smaller part of the pages.
Narrows(f, key, strict, c, d) ==
  /\ d = <<d[1], d[2]>>
  /\ d[1] \in 1 .. (Len(f.pages) + 1) /\ d[2] \in 1 .. (Len(f.pages) + 1)
  /\ PassesOnwards(f, key, strict) /\ Between(f, key, strict, c[1], c[2]) =>
       /\ Between(f, key, strict, d[1], d[2])
       /\ d[2] - d[1] < c[2] - c[1] \/ d[2] = d[1]

LEMMA HalveFacts ==
    ASSUME NEW f \in FileTypes, NEW key, NEW strict,
           NEW i \in 1 .. (Len(f.pages) + 1), NEW j \in 1 .. (Len(f.pages) + 1)
    PROVE  Narrows(f, key, strict, <<i, j>>, Halve(f, key, strict, <<i, j>>))
<1> DEFINE d == Halve(f, key, strict, <<i, j>>)
<1> SUFFICES /\ d = <<d[1], d[2]>>
             /\ d[1] \in 1 .. (Len(f.pages) + 1) /\ d[2] \in 1 .. (Len(f.pages) + 1)
             /\ PassesOnwards(f, key, strict) /\ Between(f, key, strict, i, j) =>
                  /\ Between(f, key, strict, d[1], d[2])
                  /\ d[2] - d[1] < j - i \/ d[2] = d[1]
  BY DEF Narrows
<1> DEFINE N == Len(f.pages)
           m == (i + j) \div 2
           P(n) == Passes(f, n, key, strict)
<1>1. N \in Nat /\ i \in Nat /\ j \in Nat
  BY FileFacts
<1>2. CASE i >= j
  <2>1. d = <<i, j>> /\ d[1] = i /\ d[2] = j
    BY <1>2 DEF Halve
  <2>2. Between(f, key, strict, i, j) => j = i
    BY <1>1, <1>2 DEF Between
  <2> QED BY <2>1, <2>2
<1>3. CASE ~ (i >= j)
  <2>1. i < j /\ i <= m /\ m < j /\ m \in 1 .. N /\ m + 1 \in 1 .. (N + 1) /\ m \in 1 .. (N + 1)
    <3>1. i >= 1 /\ j <= N + 1 /\ i < j
      BY <1>1, <1>3
    <3>2. m \in i .. (j - 1)
      BY <1>1, <3>1
    <3> HIDE DEF m
    <3> QED BY <1>1, <3>1, <3>2
  <2>2. d = IF P(m) THEN <<i, m>> ELSE <<m + 1, j>>
    BY <1>3 DEF Halve
  <2> HIDE DEF m, d
  <2>3. CASE P(m)
    <3>1. ASSUME PassesOnwards(f, key, strict), Between(f, key, strict, i, j)
          PROVE  Between(f, key, strict, i, m) /\ m - i < j - i
      <4>1. \A n \in 1 .. N : n >= m => P(n)
        BY <1>1, <2>1, <2>3, <3>1 DEF PassesOnwards
      <4> QED BY <1>1, <2>1, <3>1, <4>1 DEF Between
    <3>2. d = <<i, m>> /\ d[1] = i /\ d[2] = m
      BY <2>2, <2>3
    <3> QED BY <2>1, <3>1, <3>2
  <2>4. CASE ~ P(m)
    <3>1. ASSUME PassesOnwards(f, key, strict), Between(f, key, strict, i, j)
          PROVE  Between(f, key, strict, m + 1, j) /\ j - (m + 1) < j - i
      <4>1. \A n \in 1 .. N : n < m + 1 => ~ P(n)
        BY <1>1, <2>1, <2>4, <3>1 DEF PassesOnwards
      <4> QED BY <1>1, <2>1, <3>1, <4>1 DEF Between
    <3>2. d = <<m + 1, j>> /\ d[1] = m + 1 /\ d[2] = j
      BY <2>2, <2>4
    <3> QED BY <2>1, <3>1, <3>2
  <2> QED BY <2>3, <2>4
<1> QED BY <1>2, <1>3

LEMMA SearchEnds ==
    ASSUME NEW f \in FileTypes, NEW key, NEW strict
    PROVE  LET m == FirstPage(f, key, strict)
           IN /\ m \in 1 .. (Len(f.pages) + 1)
              /\ PassesOnwards(f, key, strict) => Between(f, key, strict, m, m)
<1> DEFINE N == Len(f.pages)
           a == <<1, N + 1>>
           X == {<<i, j>> : i, j \in 1 .. (N + 1)}
           IsRun(run) ==
             run = [k \in 0 .. N |->
                      IF k = 0 THEN <<1, N + 1>> ELSE Halve(f, key, strict, run[k - 1])]
           step == [c \in X \X (1 .. N) |-> Halve(f, key, strict, c[1])]
<1>1. N \in Nat
  BY FileFacts
<1>2. a \in X
  <2>1. 1 \in 1 .. (N + 1) /\ N + 1 \in 1 .. (N + 1)
    BY <1>1
  <2> HIDE DEF N
  <2> QED BY <2>1
<1>3. \A c \in X : LET d == Halve(f, key, strict, c)
                 IN /\ d \in X
                    /\ PassesOnwards(f, key, strict) /\ Between(f, key, strict, c[1], c[2]) =>
                         /\ Between(f, key, strict, d[1], d[2])
                         /\ d[2] - d[1] < c[2] - c[1] \/ d[2] = d[1]
  <2> TAKE c \in X
  <2>1. PICK i \in 1 .. (N + 1), j \in 1 .. (N + 1) : c = <<i, j>>
    OBVIOUS
  <2>2. c[1] = i /\ c[2] = j
    BY <2>1
  <2>3. Narrows(f, key, strict, <<i, j>>, Halve(f, key, strict, <<i, j>>))
    BY HalveFacts
  <2> DEFINE d == Halve(f, key, strict, c)
  <2>4. Narrows(f, key, strict, c, d)
    BY <2>1, <2>3
  <2> HIDE DEF d
  <2>5. /\ d = <<d[1], d[2]>> /\ d[1] \in 1 .. (N + 1) /\ d[2] \in 1 .. (N + 1)
        /\ PassesOnwards(f, key, strict) /\ Between(f, key, strict, c[1], c[2]) =>
             /\ Between(f, key, strict, d[1], d[2])
             /\ d[2] - d[1] < c[2] - c[1] \/ d[2] = d[1]
    BY <2>4 DEF Narrows
  <2>6. d \in X
    BY <2>5
  <2> QED BY <2>5, <2>6 DEF d
<1>4. \A c \in X : c[1] \in 1 .. (N + 1) /\ c[2] \in 1 .. (N + 1)
  OBVIOUS
<1> HIDE DEF X, N, a
<1>5. \A c \in X : \A n \in 1 .. N :
        step[<<c, n>>] = Halve(f, key, strict, c) /\ step[<<c, n>>] \in X
  BY <1>3
<1> HIDE DEF step
<1>6. PICK run \in [0 .. N -> X] :
        run[0] = a /\ \A n \in 1 .. N : run[n] = step[<<run[n - 1], n>>]
  <2>1. \A c \in X : \A n \in 1 .. N : step[<<c, n>>] \in X
    BY <1>5
  <2>2. HasRun(X, a, N, step)
    BY ONLY <1>1, <1>2, <2>1, Iterates
  <2> QED BY <2>2 DEF HasRun
<1>7. IsRun(run)
  <2>1. \A k \in 0 .. N :
          run[k] = IF k = 0 THEN <<1, N + 1>> ELSE Halve(f, key, strict, run[k - 1])
    <3> TAKE k \in 0 .. N
    <3>1. CASE k = 0
      BY <1>6, <3>1 DEF a
    <3>2. CASE k # 0
      <4>1. k \in 1 .. N /\ k - 1 \in 0 .. N
        BY <1>1, <3>2
      <4>2. run[k - 1] \in X
        BY <4>1
      <4> QED BY <1>5, <1>6, <3>2, <4>1, <4>2
    <3> QED BY <3>1, <3>2
  <2> QED BY <2>1
<1> DEFINE F == CHOOSE r : IsRun(r)
<1>8. IsRun(F)
  <2> HIDE DEF IsRun
  <2> QED BY <1>7
<1>9. FirstPage(f, key, strict) = F[N][1]
  BY DEF FirstPage, N
<1> HIDE DEF F
<1>10. F[0] = a /\ \A k \in 1 .. N : F[k] = Halve(f, key, strict, F[k - 1])
  <2>1. F[0] = a
    BY <1>1, <1>8 DEF a
  <2>2. \A k \in 1 .. N : F[k] = Halve(f, key, strict, F[k - 1])
    <3> TAKE k \in 1 .. N
    <3>1. k \in 0 .. N /\ k # 0
      BY <1>1
    <3> QED BY <1>8, <3>1
  <2> QED BY <2>1, <2>2
<1> HIDE DEF IsRun
<1> DEFINE Rounds(n) ==
             /\ F[n] \in X
             /\ PassesOnwards(f, key, strict) =>
                  /\ Between(f, key, strict, F[n][1], F[n][2])
                  /\ F[n][2] - F[n][1] <= N - n
           S == {n \in Nat : n \in 0 .. N => Rounds(n)}
<1>11. 0 \in S
  <2>1. F[0][1] = 1 /\ F[0][2] = N + 1 /\ F[0] \in X
    BY <1>2, <1>10 DEF a
  <2>2. Between(f, key, strict, 1, N + 1)
    BY <1>1 DEF Between, N
  <2>3. (N + 1) - 1 <= N - 0
    BY <1>1
  <2> QED BY <2>1, <2>2, <2>3
<1>12. ASSUME NEW n \in Nat, n \in S PROVE n + 1 \in S
  <2>1. CASE n + 1 \in 0 .. N
    <3>1. n \in 0 .. N /\ n + 1 \in 1 .. N /\ (n + 1) - 1 = n
      BY <1>1, <2>1
    <3>2. Rounds(n)
      BY <1>12, <3>1
    <3>3. F[n + 1] = Halve(f, key, strict, F[n])
      BY <1>10, <3>1
    <3>4. F[n + 1] \in X
      BY <1>3, <3>2, <3>3
    <3>5. ASSUME PassesOnwards(f, key, strict)
          PROVE  /\ Between(f, key, strict, F[n + 1][1], F[n + 1][2])
                 /\ F[n + 1][2] - F[n + 1][1] <= N - (n + 1)
      <4> DEFINE c == F[n]
                 d == F[n + 1]
      <4>1. /\ c[1] \in 1 .. (N + 1) /\ c[2] \in 1 .. (N + 1)
            /\ d[1] \in 1 .. (N + 1) /\ d[2] \in 1 .. (N + 1)
        BY <1>4, <3>2, <3>4
      <4>2. /\ Between(f, key, strict, d[1], d[2])
            /\ d[2] - d[1] < c[2] - c[1] \/ d[2] = d[1]
            /\ c[2] - c[1] <= N - n
        BY <1>3, <3>2, <3>3, <3>5
      <4>3. n + 1 <= N /\ n \in Nat
        BY <1>1, <3>1
      <4> DEFINE u == d[2] - d[1]
                 v == c[2] - c[1]
      <4>4. u \in Int /\ v \in Int /\ v <= N - n /\ (u < v \/ u = 0)
        <5> HIDE DEF c, d
        <5> QED BY <4>1, <4>2
      <4> HIDE DEF u, v
      <4>5. u <= N - (n + 1)
        BY <1>1, <4>3, <4>4
      <4> QED BY <4>2, <4>5 DEF u
    <3> QED BY <3>4, <3>5
  <2> QED BY <2>1
<1>13. \A n \in Nat : n \in S
  <2> HIDE DEF S
  <2> QED BY <1>11, <1>12, SetInduction
<1>14. Rounds(N)
  <2>1. N \in Nat /\ N \in 0 .. N
    BY <1>1
  <2> QED BY <1>13, <2>1
<1>15. F[N][1] \in 1 .. (N + 1) /\ F[N][2] \in 1 .. (N + 1)
  BY <1>4, <1>14
<1> DEFINE m == F[N][1]
           e == F[N][2]
<1>16. ASSUME PassesOnwards(f, key, strict) PROVE Between(f, key, strict, m, m)
  <2>1. Between(f, key, strict, m, e) /\ e - m <= N - N
    BY <1>14, <1>16
  <2>2. m \in Nat /\ e \in Nat
    BY <1>15
  <2>3. m <= e
    BY <2>1 DEF Between
  <2> HIDE DEF m, e
  <2>4. e = m
    BY <1>1, <2>1, <2>2, <2>3
  <2> QED BY <2>1, <2>4
<1> QED BY <1>9, <1>15, <1>16 DEF N

LEMMA TargetIsAPage ==
    ASSUME NEW f \in FileTypes, Len(f.pages) # 0, NEW key
    PROVE  TargetPage(f, key) \in 1 .. Len(f.pages) /\ TargetPage(f, key) \in DOMAIN f.pages
<1> DEFINE N == Len(f.pages)
           a == FirstPage(f, key, TRUE)
           B == {a, N}
<1>1. N \in Nat /\ DOMAIN f.pages = 1 .. N
  BY FileFacts
<1>2. a \in 1 .. (N + 1)
  BY SearchEnds
<1>3. TargetPage(f, key) = Min(B)
  BY DEF TargetPage
<1> HIDE DEF a
<1>4. B \in SUBSET Nat /\ B # {}
  BY <1>1, <1>2
<1>5. \A x : x \in B <=> x = a \/ x = N
  OBVIOUS
<1> HIDE DEF B
<1>6. Min(B) \in B /\ \A x \in B : Min(B) <= x
  BY <1>4, Minimum
<1> DEFINE m == Min(B)
<1>7. (m = a \/ m = N) /\ m <= N
  BY <1>5, <1>6
<1> HIDE DEF m, N
<1>8. m \in 1 .. N
  BY <1>1, <1>2, <1>7 DEF N
<1> QED BY <1>1, <1>3, <1>8 DEF m, N

-----------------------------------------------------------------------------
(***************************************************************************)
(* The writes of an insertion that splits its page.                        *)
(***************************************************************************)
\* The i-th write of the allocation of pages behind page n.
Allocation(n, i) == AllocatePage(n + ((i + 1) \div 2))[2 - (i % 2)]

LEMMA AllocationFacts ==
    ASSUME NEW n \in Nat, NEW by \in Nat \ {0}
    PROVE  /\ \A i \in 1 .. (2 * by) :
                /\ Allocation(n, i) \in WriteTypes /\ Allocation(n, i).at # "meta"
                /\ Allocation(n, i).at = "page" =>
                     Allocation(n, i).page > n /\ Allocation(n, i).page <= n + by
           /\ Allocation(n, 1).at = "page" /\ Allocation(n, 1).page = n + 1
           /\ Allocation(n, (2 * by) - 1).at = "page" /\ Allocation(n, (2 * by) - 1).page = n + by
           /\ Allocation(n, 2 * by).at = "header" /\ Allocation(n, 2 * by).value = n + by
<1> DEFINE odd(m) == WritePage(m, EmptyPage)
           even(m) == [at |-> "header", value |-> m]
<1>1. \A m \in Nat \ {0} :
        /\ odd(m) \in WriteTypes /\ odd(m).at = "page" /\ odd(m).page = m
        /\ even(m) \in WriteTypes /\ even(m).at = "header" /\ even(m).value = m
  <2> TAKE m \in Nat \ {0}
  <2>1. odd(m) \in WriteTypes /\ odd(m).at = "page" /\ odd(m).page = m
    BY EmptyPageFacts, PageWriteFacts
  <2>2. even(m) \in WriteTypes /\ even(m).at = "header" /\ even(m).value = m
    BY HeaderWriteFacts
  <2> QED BY <2>1, <2>2
<1> HIDE DEF odd, even
<1>2. \A m : AllocatePage(m)[1] = odd(m) /\ AllocatePage(m)[2] = even(m)
  BY DEF AllocatePage, odd, even
<1>3. \A i \in 1 .. (2 * by) :
        LET m == n + ((i + 1) \div 2)
        IN /\ m \in Nat \ {0} /\ m > n /\ m <= n + by
           /\ Allocation(n, i) = IF i % 2 = 1 THEN odd(m) ELSE even(m)
  <2> TAKE i \in 1 .. (2 * by)
  <2> DEFINE k == (i + 1) \div 2
             m == n + k
  <2>1. i \in Nat \ {0} /\ i <= 2 * by
    OBVIOUS
  <2>2. k \in Nat /\ k >= 1 /\ k <= by
    BY <2>1
  <2>3. i % 2 = 1 \/ i % 2 = 0
    BY <2>1
  <2>4. Allocation(n, i) = AllocatePage(m)[2 - (i % 2)]
    BY DEF Allocation
  <2> HIDE DEF k
  <2>5. m \in Nat \ {0} /\ m > n /\ m <= n + by
    BY <2>2
  <2> HIDE DEF m
  <2>6. CASE i % 2 = 1
    BY <1>2, <2>4, <2>5, <2>6 DEF m, k
  <2>7. CASE i % 2 = 0
    BY <1>2, <2>4, <2>5, <2>7 DEF m, k
  <2> QED BY <2>3, <2>6, <2>7
<1>4. \A i \in 1 .. (2 * by) :
        /\ Allocation(n, i) \in WriteTypes /\ Allocation(n, i).at # "meta"
        /\ Allocation(n, i).at = "page" =>
             Allocation(n, i).page > n /\ Allocation(n, i).page <= n + by
  <2> TAKE i \in 1 .. (2 * by)
  <2> DEFINE m == n + ((i + 1) \div 2)
  <2>1. /\ m \in Nat \ {0} /\ m > n /\ m <= n + by
        /\ Allocation(n, i) = odd(m) \/ Allocation(n, i) = even(m)
    BY <1>3
  <2> HIDE DEF m
  <2> QED BY <1>1, <2>1
<1>5. Allocation(n, 1).at = "page" /\ Allocation(n, 1).page = n + 1
  <2>1. 1 \in 1 .. (2 * by) /\ 1 % 2 = 1 /\ n + ((1 + 1) \div 2) = n + 1
    OBVIOUS
  <2>2. Allocation(n, 1) = odd(n + 1)
    BY <1>3, <2>1
  <2> QED BY <1>1, <2>2
<1>6. /\ Allocation(n, (2 * by) - 1).at = "page"
      /\ Allocation(n, (2 * by) - 1).page = n + by
  <2> DEFINE i == (2 * by) - 1
  <2>1. i \in 1 .. (2 * by) /\ i % 2 = 1 /\ (i + 1) \div 2 = by
    OBVIOUS
  <2> HIDE DEF i
  <2>2. Allocation(n, i) = odd(n + by)
    BY <1>3, <2>1
  <2>3. n + by \in Nat \ {0}
    OBVIOUS
  <2> QED BY <1>1, <2>2, <2>3 DEF i
<1>7. Allocation(n, 2 * by).at = "header" /\ Allocation(n, 2 * by).value = n + by
  <2> DEFINE i == 2 * by
  <2>1. i \in 1 .. (2 * by) /\ i % 2 = 0 /\ (i + 1) \div 2 = by
    OBVIOUS
  <2> HIDE DEF i
  <2>2. Allocation(n, i) = even(n + by)
    BY <1>3, <2>1
  <2>3. n + by \in Nat \ {0}
    OBVIOUS
  <2> QED BY <1>1, <2>2, <2>3 DEF i
<1> QED BY <1>4, <1>5, <1>6, <1>7

LEMMA ShiftFacts ==
    ASSUME NEW f \in FileTypes, NEW t \in 1 .. Len(f.pages), NEW by \in Nat \ {0}
    PROVE  LET n == Len(f.pages)
               sh == ShiftSuffix(f, t, by)
           IN /\ sh \in Seq(WriteTypes) /\ Len(sh) = (2 * by) + (n - t)
              /\ \A i \in 1 .. (2 * by) : sh[i] = Allocation(n, i)
              /\ \A i \in 1 .. (n - t) :
                   sh[(2 * by) + i] = WritePage(n + 1 - i + by, f.pages[n + 1 - i])
<1> DEFINE n == Len(f.pages)
           a == [i \in 1 .. (2 * by) |-> AllocatePage(n + (i + 1) \div 2)[2 - (i % 2)]]
           b == [i \in 1 .. (n - t) |-> WritePage(n + 1 - i + by, f.pages[n + 1 - i])]
           sh == ShiftSuffix(f, t, by)
<1>1. n \in Nat /\ DOMAIN f.pages = 1 .. n /\ \A m \in 1 .. n : f.pages[m] \in PageTypes
  BY FileFacts
<1>2. sh = a \o b
  BY DEF ShiftSuffix
<1>3. \A i \in 1 .. (2 * by) : a[i] = Allocation(n, i)
  BY DEF Allocation
<1>4. a \in Seq(WriteTypes) /\ Len(a) = 2 * by
  <2>1. a = [i \in 1 .. (2 * by) |-> a[i]]
    OBVIOUS
  <2> HIDE DEF a
  <2>2. \A i \in 1 .. (2 * by) : a[i] \in WriteTypes
    <3> TAKE i \in 1 .. (2 * by)
    <3> HIDE DEF n
    <3>1. Allocation(n, i) \in WriteTypes
      BY <1>1, AllocationFacts
    <3> QED BY <1>3, <3>1
  <2>3. a \in [1 .. (2 * by) -> WriteTypes]
    BY <2>1, <2>2
  <2>4. 2 * by \in Nat
    OBVIOUS
  <2> QED BY <2>3, <2>4
<1>5. b \in Seq(WriteTypes) /\ Len(b) = n - t
  <2>1. b = [i \in 1 .. (n - t) |-> b[i]]
    OBVIOUS
  <2>2. \A i \in 1 .. (n - t) : b[i] \in WriteTypes
    <3> TAKE i \in 1 .. (n - t)
    <3> DEFINE m == n + 1 - i + by
               q == f.pages[n + 1 - i]
    <3>1. m \in Nat \ {0} /\ n + 1 - i \in 1 .. n
      BY <1>1
    <3>2. q \in PageTypes
      BY <1>1, <3>1
    <3> HIDE DEF m, q
    <3>3. WritePage(m, q) \in WriteTypes
      BY <3>1, <3>2, PageWriteFacts
    <3> QED BY <3>3 DEF m, q
  <2> HIDE DEF b
  <2>3. b \in [1 .. (n - t) -> WriteTypes]
    BY <2>1, <2>2
  <2>4. n - t \in Nat
    BY <1>1
  <2> QED BY <2>3, <2>4
<1>6. \A i \in 1 .. (n - t) : b[i] = WritePage(n + 1 - i + by, f.pages[n + 1 - i])
  OBVIOUS
<1>7. a \in Seq(WriteTypes) /\ b \in Seq(WriteTypes)
  BY <1>4, <1>5
<1> HIDE DEF a, b, sh
<1>8. /\ a \o b \in Seq(WriteTypes) /\ Len(a \o b) = Len(a) + Len(b)
      /\ \A i \in 1 .. Len(a) : (a \o b)[i] = a[i]
      /\ \A i \in 1 .. Len(b) : (a \o b)[Len(a) + i] = b[i]
  BY ONLY <1>7, Concatenated
<1>9. sh \in Seq(WriteTypes) /\ Len(sh) = (2 * by) + (n - t)
  BY <1>2, <1>4, <1>5, <1>8
<1>10. \A i \in 1 .. (2 * by) : sh[i] = Allocation(n, i)
  BY <1>2, <1>3, <1>4, <1>8
<1>11. \A i \in 1 .. (n - t) : sh[(2 * by) + i] = WritePage(n + 1 - i + by, f.pages[n + 1 - i])
  BY <1>2, <1>4, <1>5, <1>6, <1>8
<1> QED BY <1>9, <1>10, <1>11 DEF n, sh

\* The pages qs take the place of page t and the pages after it follow.
SplitInto(f, g, t, qs) ==
  LET by == Len(qs) - 1
  IN /\ g.pages \in Seq(PageTypes) /\ DOMAIN g.pages = 1 .. (Len(f.pages) + by)
     /\ \A m \in 1 .. (t - 1) : g.pages[m] = f.pages[m]
     /\ \A c \in 1 .. Len(qs) : g.pages[(t + c) - 1] = qs[c]
     /\ \A m \in (t + 1) .. Len(f.pages) : g.pages[m + by] = f.pages[m]

SplitWrites(f, t, qs, a, d, k) ==
  ShiftSuffix(f, t, Len(qs) - 1)
    \o [c \in DOMAIN qs |-> WritePage(t + c - 1, qs[c])]
    \o <<WriteMeta(a, d, k)>>

LEMMA ChunkWrites ==
    ASSUME NEW qs \in Seq(PageTypes), NEW t \in Nat \ {0}
    PROVE  LET b == [c \in DOMAIN qs |-> WritePage(t + c - 1, qs[c])]
           IN /\ b \in Seq(WriteTypes) /\ Len(b) = Len(qs)
              /\ \A c \in 1 .. Len(qs) : b[c] = WritePage((t + c) - 1, qs[c])
<1> DEFINE n == Len(qs)
           b == [c \in DOMAIN qs |-> WritePage(t + c - 1, qs[c])]
<1>1. n \in Nat /\ DOMAIN qs = 1 .. n /\ \A c \in 1 .. n : qs[c] \in PageTypes
  OBVIOUS
<1>2. \A c \in 1 .. n : b[c] = WritePage((t + c) - 1, qs[c])
  BY <1>1
<1>3. \A c \in 1 .. n : WritePage((t + c) - 1, qs[c]) \in WriteTypes
  <2> TAKE c \in 1 .. n
  <2> DEFINE m == (t + c) - 1
  <2>1. m \in Nat \ {0} /\ qs[c] \in PageTypes
    BY <1>1
  <2> HIDE DEF m
  <2> QED BY <2>1, PageWriteFacts
<1>4. b = [c \in 1 .. n |-> b[c]]
  BY <1>1
<1> HIDE DEF b
<1>5. b \in [1 .. n -> WriteTypes]
  BY <1>2, <1>3, <1>4
<1> HIDE DEF n
<1>6. b \in Seq(WriteTypes) /\ Len(b) = n
  BY <1>1, <1>5
<1> QED BY <1>2, <1>6 DEF b, n

\* There are by pages more than before.
Extends(qs, by) == by \in Nat \ {0} /\ Len(qs) = by + 1

\* The writes one by one.
InOrder(f, t, by, qs, ws, w) ==
  LET n == Len(f.pages)
      M == (2 * by) + (n - t)
  IN /\ ws \in Seq(WriteTypes) /\ Len(ws) = M + by + 2
     /\ \A i \in 1 .. (2 * by) : ws[i] = Allocation(n, i)
     /\ \A i \in 1 .. (n - t) :
          ws[(2 * by) + i] = WritePage(n + 1 - i + by, f.pages[n + 1 - i])
     /\ \A c \in 1 .. (by + 1) : ws[M + c] = WritePage((t + c) - 1, qs[c])
     /\ ws[M + by + 2] = w

LEMMA SplitWritesOrder ==
    ASSUME NEW f \in FileTypes, NEW t \in 1 .. Len(f.pages), NEW by,
           NEW qs \in Seq(PageTypes), Extends(qs, by),
           NEW a \in Int, NEW d \in Int, NEW k \in Int
    PROVE  InOrder(f, t, by, qs, SplitWrites(f, t, qs, a, d, k), WriteMeta(a, d, k))
<1> DEFINE n == Len(f.pages)
           M == (2 * by) + (n - t)
           ws == SplitWrites(f, t, qs, a, d, k)
           sh == ShiftSuffix(f, t, by)
           b == [c \in DOMAIN qs |-> WritePage(t + c - 1, qs[c])]
           w == WriteMeta(a, d, k)
           one == <<w>>
<1>18. by \in Nat \ {0} /\ Len(qs) = by + 1
  BY DEF Extends
<1>1. n \in Nat /\ t \in Nat \ {0} /\ t <= n /\ M \in Nat
  <2>1. n \in Nat
    BY FileFacts
  <2>2. t \in 1 .. n
    OBVIOUS
  <2> HIDE DEF n
  <2>3. t \in Nat \ {0} /\ t <= n
    BY <2>1, <2>2
  <2>4. M \in Nat
    BY <1>18, <2>1, <2>3
  <2> QED BY <2>1, <2>3, <2>4
<1>2. /\ sh \in Seq(WriteTypes) /\ Len(sh) = M
      /\ \A i \in 1 .. (2 * by) : sh[i] = Allocation(n, i)
      /\ \A i \in 1 .. (n - t) :
           sh[(2 * by) + i] = WritePage(n + 1 - i + by, f.pages[n + 1 - i])
  BY <1>18, ShiftFacts
<1>3. /\ b \in Seq(WriteTypes) /\ Len(b) = by + 1
      /\ \A c \in 1 .. (by + 1) : b[c] = WritePage((t + c) - 1, qs[c])
  BY <1>1, <1>18, ChunkWrites
<1>4. one \in Seq(WriteTypes) /\ Len(one) = 1 /\ one[1] = w
  <2>1. w \in WriteTypes
    BY MetaWriteFacts
  <2> HIDE DEF w
  <2> QED BY <2>1
<1>5. sh \in Seq(WriteTypes) /\ b \in Seq(WriteTypes) /\ one \in Seq(WriteTypes)
  BY <1>2, <1>3, <1>4
<1> DEFINE u == sh \o b
<1>6. ws = u \o one
  <2>1. Len(qs) - 1 = by
    BY <1>18
  <2> QED BY <2>1 DEF SplitWrites
<1> HIDE DEF sh, b, one, ws, M, n
<1>7. /\ u \in Seq(WriteTypes) /\ Len(u) = Len(sh) + Len(b)
      /\ \A i \in 1 .. Len(sh) : u[i] = sh[i]
      /\ \A i \in 1 .. Len(b) : u[Len(sh) + i] = b[i]
  BY ONLY <1>5, Concatenated
<1> HIDE DEF u
<1>8. u \in Seq(WriteTypes) /\ one \in Seq(WriteTypes)
  BY <1>5, <1>7
<1>9. /\ u \o one \in Seq(WriteTypes) /\ Len(u \o one) = Len(u) + Len(one)
      /\ \A i \in 1 .. Len(u) : (u \o one)[i] = u[i]
      /\ \A i \in 1 .. Len(one) : (u \o one)[Len(u) + i] = one[i]
  BY ONLY <1>8, Concatenated
<1>10. Len(u) = M + by + 1
  BY <1>1, <1>2, <1>3, <1>7, <1>18
<1>11. ws \in Seq(WriteTypes) /\ Len(ws) = M + by + 2
  BY <1>1, <1>4, <1>6, <1>9, <1>10, <1>18
<1>12. \A i \in 1 .. M : ws[i] = sh[i]
  BY <1>1, <1>2, <1>6, <1>7, <1>9, <1>10, <1>18
<1>13. \A c \in 1 .. (by + 1) : ws[M + c] = b[c]
  <2> TAKE c \in 1 .. (by + 1)
  <2>1. M + c \in 1 .. Len(u)
    BY <1>1, <1>10, <1>18
  <2>2. u[M + c] = b[c]
    BY <1>2, <1>3, <1>7
  <2> QED BY <1>6, <1>9, <2>1, <2>2
<1>14. ws[M + by + 2] = w
  <2>1. ws[Len(u) + 1] = one[1]
    BY <1>4, <1>6, <1>9
  <2>2. Len(u) + 1 = M + by + 2
    BY <1>1, <1>10, <1>18
  <2> QED BY <1>4, <2>1, <2>2
<1>15. \A i \in 1 .. (2 * by) : ws[i] = Allocation(n, i)
  <2> TAKE i \in 1 .. (2 * by)
  <2>1. i \in 1 .. M
    BY <1>1, <1>18 DEF M
  <2> QED BY <1>2, <1>12, <2>1
<1>16. \A i \in 1 .. (n - t) :
         ws[(2 * by) + i] = WritePage(n + 1 - i + by, f.pages[n + 1 - i])
  <2> TAKE i \in 1 .. (n - t)
  <2>1. (2 * by) + i \in 1 .. M
    BY <1>1, <1>18 DEF M
  <2> QED BY <1>2, <1>12, <2>1
<1>17. \A c \in 1 .. (by + 1) : ws[M + c] = WritePage((t + c) - 1, qs[c])
  BY <1>3, <1>13
<1> QED BY <1>11, <1>14, <1>15, <1>16, <1>17 DEF M, n, ws, w, InOrder

\* What each of the writes does.
Kinds(f, t, by, qs, ws, counters) ==
  LET n == Len(f.pages)
      x == 2 * by
      M == x + (n - t)
  IN /\ ws \in Seq(WriteTypes) /\ Len(ws) = M + by + 2 /\ M \in Nat /\ x <= M
     /\ DOMAIN ws = 1 .. (M + by + 2)
     /\ \A i \in 1 .. x : /\ ws[i].at # "meta"
                          /\ ws[i].at = "page" => ws[i].page > n /\ ws[i].page <= n + by
     /\ ws[1].at = "page" /\ ws[1].page = n + 1
     /\ ws[x - 1].at = "page" /\ ws[x - 1].page = n + by
     /\ ws[x].at = "header" /\ ws[x].value = n + by
     /\ \A i \in (x + 1) .. M :
          /\ ws[i].at = "page" /\ ws[i].page = (n + 1 + by + x) - i
          /\ ws[i].value = f.pages[(n + 1 + x) - i]
     /\ \A i \in (M + 1) .. (M + by + 1) :
          /\ ws[i].at = "page" /\ ws[i].page = (t + (i - M)) - 1
          /\ ws[i].value = qs[i - M]
     /\ ws[M + by + 2].at = "meta" /\ ws[M + by + 2].value = counters

LEMMA SplitWritesKinds ==
    ASSUME NEW f \in FileTypes, NEW t \in 1 .. Len(f.pages), NEW by,
           NEW qs \in Seq(PageTypes), Extends(qs, by),
           NEW a \in Int, NEW d \in Int, NEW k \in Int
    PROVE  Kinds(f, t, by, qs, SplitWrites(f, t, qs, a, d, k),
                 [active |-> a, deleted |-> d, pages |-> k])
<1> DEFINE n == Len(f.pages)
           x == 2 * by
           M == x + (n - t)
           ws == SplitWrites(f, t, qs, a, d, k)
<1>1. /\ ws \in Seq(WriteTypes) /\ Len(ws) = M + by + 2
      /\ \A i \in 1 .. x : ws[i] = Allocation(n, i)
      /\ \A i \in 1 .. (n - t) : ws[x + i] = WritePage(n + 1 - i + by, f.pages[n + 1 - i])
      /\ \A c \in 1 .. (by + 1) : ws[M + c] = WritePage((t + c) - 1, qs[c])
      /\ ws[M + by + 2] = WriteMeta(a, d, k)
  <2>1. InOrder(f, t, by, qs, ws, WriteMeta(a, d, k))
    BY SplitWritesOrder
  <2> HIDE DEF ws
  <2> QED BY <2>1 DEF InOrder
<1>11. by \in Nat \ {0} /\ Len(qs) = by + 1
  BY DEF Extends
<1>2. n \in Nat /\ t \in Nat \ {0} /\ t <= n /\ \A m \in 1 .. n : f.pages[m] \in PageTypes
  <2>1. n \in Nat /\ DOMAIN f.pages = 1 .. n
    BY FileFacts
  <2>2. \A m \in 1 .. n : f.pages[m] \in PageTypes
    BY <2>1, FileFacts
  <2> QED BY <2>1, <2>2
<1> HIDE DEF ws, n
<1>3. /\ M \in Nat /\ x \in Nat /\ x <= M /\ 1 \in 1 .. x /\ x - 1 \in 1 .. x /\ x \in 1 .. x
  BY <1>2, <1>11
<1>4. DOMAIN ws = 1 .. (M + by + 2)
  BY <1>1
<1>5. /\ \A i \in 1 .. x : /\ ws[i].at # "meta"
                           /\ ws[i].at = "page" => ws[i].page > n /\ ws[i].page <= n + by
      /\ ws[1].at = "page" /\ ws[1].page = n + 1
      /\ ws[x - 1].at = "page" /\ ws[x - 1].page = n + by
      /\ ws[x].at = "header" /\ ws[x].value = n + by
  <2>1. /\ \A i \in 1 .. (2 * by) :
             /\ Allocation(n, i).at # "meta"
             /\ Allocation(n, i).at = "page" =>
                  Allocation(n, i).page > n /\ Allocation(n, i).page <= n + by
        /\ Allocation(n, 1).at = "page" /\ Allocation(n, 1).page = n + 1
        /\ Allocation(n, (2 * by) - 1).at = "page" /\ Allocation(n, (2 * by) - 1).page = n + by
        /\ Allocation(n, 2 * by).at = "header" /\ Allocation(n, 2 * by).value = n + by
    BY <1>2, <1>11, AllocationFacts
  <2> QED BY <1>1, <1>3, <2>1
<1>6. \A i \in (x + 1) .. M :
        /\ ws[i].at = "page" /\ ws[i].page = (n + 1 + by + x) - i
        /\ ws[i].value = f.pages[(n + 1 + x) - i]
  <2> TAKE i \in (x + 1) .. M
  <2> DEFINE j == i - x
             m == n + 1 - j + by
             o == n + 1 - j
             q == f.pages[o]
  <2>1. j \in 1 .. (n - t) /\ x + j = i
    BY <1>2, <1>3, <1>11
  <2>2. m \in Nat \ {0} /\ m = (n + 1 + by + x) - i /\ o = (n + 1 + x) - i /\ o \in 1 .. n
    BY <1>2, <1>3, <1>11, <2>1
  <2>3. ws[i] = WritePage(m, q)
    BY <1>1, <2>1
  <2>4. q \in PageTypes
    BY <1>2, <2>2
  <2> HIDE DEF m, q, j
  <2>5. WritePage(m, q).at = "page" /\ WritePage(m, q).page = m /\ WritePage(m, q).value = q
    BY <2>2, <2>4, PageWriteFacts
  <2> QED BY <2>2, <2>3, <2>5 DEF q
<1>7. \A i \in (M + 1) .. (M + by + 1) :
        /\ ws[i].at = "page" /\ ws[i].page = (t + (i - M)) - 1
        /\ ws[i].value = qs[i - M]
  <2> TAKE i \in (M + 1) .. (M + by + 1)
  <2> DEFINE c == i - M
             m == (t + c) - 1
  <2>1. c \in 1 .. (by + 1) /\ M + c = i /\ m \in Nat \ {0}
    BY <1>2, <1>3, <1>11
  <2>2. ws[M + c] = WritePage(m, qs[c])
    BY <1>1, <2>1
  <2> HIDE DEF c, M
  <2>3. qs[c] \in PageTypes
    BY <1>11, <2>1
  <2> HIDE DEF m
  <2>4. /\ WritePage(m, qs[c]).at = "page" /\ WritePage(m, qs[c]).page = m
        /\ WritePage(m, qs[c]).value = qs[c]
    BY <2>1, <2>3, PageWriteFacts
  <2>5. ws[i] = WritePage(m, qs[c])
    BY <2>1, <2>2
  <2> QED BY <2>4, <2>5 DEF m, c
<1>8. /\ ws[M + by + 2].at = "meta"
      /\ ws[M + by + 2].value = [active |-> a, deleted |-> d, pages |-> k]
  BY <1>1, MetaWriteFacts
<1>9. ws \in Seq(WriteTypes) /\ Len(ws) = M + by + 2
  BY <1>1
<1> HIDE DEF M, x
<1>10. /\ ws \in Seq(WriteTypes) /\ Len(ws) = M + by + 2 /\ M \in Nat /\ x <= M
       /\ DOMAIN ws = 1 .. (M + by + 2)
       /\ \A i \in 1 .. x : /\ ws[i].at # "meta"
                            /\ ws[i].at = "page" => ws[i].page > n /\ ws[i].page <= n + by
       /\ ws[1].at = "page" /\ ws[1].page = n + 1
       /\ ws[x - 1].at = "page" /\ ws[x - 1].page = n + by
       /\ ws[x].at = "header" /\ ws[x].value = n + by
  BY <1>3, <1>4, <1>5, <1>9
<1> QED BY <1>6, <1>7, <1>8, <1>10 DEF n, x, M, ws, Kinds

\* The file after an insertion.
SplitResult(f, g, t, qs, counters) ==
  /\ SplitInto(f, g, t, qs) /\ Len(g.pages) = Len(f.pages) + (Len(qs) - 1)
  /\ g = [pages |-> g.pages, allocated |-> Len(g.pages), meta |-> counters]

LEMMA GrowthDone ==
    ASSUME NEW f \in FileTypes, NEW t \in 1 .. Len(f.pages), NEW by,
           NEW qs \in Seq(PageTypes), Extends(qs, by), NEW counters,
           NEW ws \in Seq(WriteTypes), Kinds(f, t, by, qs, ws, counters)
    PROVE  SplitResult(f, WriteAll(f, ws), t, qs, counters)
<1> DEFINE n == Len(f.pages)
           x == 2 * by
           M == x + (n - t)
           P == n + by
           E == M + by + 2
           g == WriteAll(f, ws)
<1>1. by \in Nat \ {0} /\ Len(qs) = by + 1 /\ \A c \in 1 .. (by + 1) : qs[c] \in PageTypes
  BY DEF Extends
<1>2. n \in Nat /\ DOMAIN f.pages = 1 .. n
  BY FileFacts
<1>3. t \in Nat \ {0} /\ t <= n
  BY <1>2
<1>4. /\ M \in Nat /\ x <= M /\ DOMAIN ws = 1 .. E
      /\ \A i \in 1 .. x : /\ ws[i].at # "meta"
                           /\ ws[i].at = "page" => ws[i].page > n /\ ws[i].page <= P
      /\ ws[x - 1].at = "page" /\ ws[x - 1].page = P
      /\ ws[x].at = "header" /\ ws[x].value = P
      /\ \A i \in (x + 1) .. M :
           /\ ws[i].at = "page" /\ ws[i].page = (n + 1 + by + x) - i
           /\ ws[i].value = f.pages[(n + 1 + x) - i]
      /\ \A i \in (M + 1) .. (M + by + 1) :
           /\ ws[i].at = "page" /\ ws[i].page = (t + (i - M)) - 1
           /\ ws[i].value = qs[i - M]
      /\ ws[E].at = "meta" /\ ws[E].value = counters
  BY DEF Kinds
<1>5. /\ Len(g.pages) \in Nat /\ DOMAIN g.pages = 1 .. Len(g.pages)
      /\ \A i \in DOMAIN ws : ws[i].at = "page" => ws[i].page <= Len(g.pages)
      /\ Len(g.pages) = n \/ \E i \in DOMAIN ws : ToPage(ws, i, Len(g.pages))
      /\ \A m \in DOMAIN g.pages :
           /\ (\A i \in DOMAIN ws : ~ ToPage(ws, i, m)) => g.pages[m] = f.pages[m]
           /\ \A i \in DOMAIN ws :
                ToPage(ws, i, m) /\ (\A j \in DOMAIN ws : j > i => ~ ToPage(ws, j, m))
                  => g.pages[m] = ws[i].value
  BY WriteAllFacts
<1>6. /\ g = [pages |-> [m \in 1 .. Len(g.pages) |-> g.pages[m]],
              allocated |-> g.allocated, meta |-> g.meta]
      /\ \A i \in DOMAIN ws :
           ws[i].at = "header" /\ (\A j \in DOMAIN ws : j > i => ws[j].at # "header")
             => g.allocated = ws[i].value
      /\ \A i \in DOMAIN ws :
           ws[i].at = "meta" /\ (\A j \in DOMAIN ws : j > i => ws[j].at # "meta")
             => g.meta = ws[i].value
  BY WriteAllFacts
<1> HIDE DEF g, n
<1>7. /\ x \in Nat /\ P \in Nat /\ E \in Nat /\ M \in Nat /\ M = x + (n - t)
      /\ x - 1 \in 1 .. E /\ x \in 1 .. E /\ E \in 1 .. E
      /\ \A i \in 1 .. E : i \in 1 .. x \/ i \in (x + 1) .. M \/ i \in (M + 1) .. (M + by + 1) \/ i = E
  <2>1. x \in Nat /\ x >= 2 /\ M \in Nat
    BY <1>1, <1>4
  <2> HIDE DEF x
  <2>2. M = x + (n - t)
    OBVIOUS
  <2> HIDE DEF M
  <2>3. x <= M
    BY <1>4
  <2> QED BY <1>1, <1>2, <2>1, <2>2, <2>3
<1>8. \A i \in 1 .. E, m \in Nat : ToPage(ws, i, m) =>
        \/ i \in 1 .. x /\ m > n /\ m <= P
        \/ i \in (x + 1) .. M /\ m = (n + 1 + by + x) - i
        \/ i \in (M + 1) .. (M + by + 1) /\ m = (t + (i - M)) - 1
  <2> TAKE i \in 1 .. E, m \in Nat
  <2> HAVE ToPage(ws, i, m)
  <2>1. ws[i].at = "page" /\ ws[i].page = m
    BY DEF ToPage
  <2> HIDE DEF x, M, P, E
  <2> QED BY <1>4, <1>7, <2>1
<1> HIDE DEF x, M, P, E
<1>9. P = n + by /\ E = M + by + 2
  BY DEF P, E
<1>10. Len(g.pages) = P
  <2>1. P <= Len(g.pages)
    <3>1. x - 1 \in DOMAIN ws /\ ws[x - 1].at = "page" /\ ws[x - 1].page = P
      BY <1>4, <1>7
    <3>2. ws[x - 1].page <= Len(g.pages)
      BY <1>5, <3>1
    <3> QED BY <3>1, <3>2
  <2>2. Len(g.pages) <= P
    <3>1. CASE Len(g.pages) = n
      BY <1>1, <1>2, <1>9, <3>1
    <3>2. CASE Len(g.pages) # n
      <4>1. PICK i \in 1 .. E : ToPage(ws, i, Len(g.pages))
        BY <1>4, <1>5, <3>2
      <4> DEFINE m == Len(g.pages)
      <4>2. m \in Nat
        BY <1>5
      <4> HIDE DEF m
      <4>3. \/ m <= P
            \/ i \in (x + 1) .. M /\ m = (n + 1 + by + x) - i
            \/ i \in (M + 1) .. (M + by + 1) /\ m = (t + (i - M)) - 1
        BY <1>8, <4>1, <4>2 DEF m
      <4>4. m <= P
        BY <1>1, <1>2, <1>3, <1>7, <1>9, <4>2, <4>3
      <4> QED BY <4>4 DEF m
    <3> QED BY <3>1, <3>2
  <2> QED BY <1>5, <1>7, <2>1, <2>2
<1>11. ASSUME NEW m \in 1 .. (t - 1) PROVE g.pages[m] = f.pages[m]
  <2>1. m \in Nat /\ m < t /\ m <= n /\ m \in DOMAIN g.pages
    BY <1>1, <1>2, <1>3, <1>5, <1>9, <1>10
  <2>2. \A i \in 1 .. E : ~ ToPage(ws, i, m)
    <3> SUFFICES ASSUME NEW i \in 1 .. E, ToPage(ws, i, m) PROVE FALSE
      OBVIOUS
    <3>1. \/ i \in 1 .. x /\ m > n /\ m <= P
          \/ i \in (x + 1) .. M /\ m = (n + 1 + by + x) - i
          \/ i \in (M + 1) .. (M + by + 1) /\ m = (t + (i - M)) - 1
      BY <1>8, <2>1
    <3> QED BY <1>1, <1>2, <1>3, <1>7, <2>1, <3>1
  <2> QED BY <1>4, <1>5, <2>1, <2>2
<1>12. ASSUME NEW c \in 1 .. (by + 1) PROVE g.pages[(t + c) - 1] = qs[c]
  <2> DEFINE m == (t + c) - 1
             i == M + c
  <2>1. m \in Nat /\ m >= t /\ m <= t + by /\ m \in 1 .. P /\ i \in 1 .. E
        /\ i \in (M + 1) .. (M + by + 1) /\ i - M = c
    BY <1>1, <1>2, <1>3, <1>7, <1>9
  <2> HIDE DEF m, i
  <2>2. m = (t + c) - 1 /\ i = M + c
    BY DEF m, i
  <2>3. ToPage(ws, i, m) /\ ws[i].value = qs[c]
    <3>1. ws[i].at = "page" /\ ws[i].page = (t + (i - M)) - 1 /\ ws[i].value = qs[i - M]
      BY <1>4, <2>1
    <3> QED BY <2>1, <2>2, <3>1 DEF ToPage
  <2>4. \A j \in 1 .. E : j > i => ~ ToPage(ws, j, m)
    <3> SUFFICES ASSUME NEW j \in 1 .. E, j > i, ToPage(ws, j, m) PROVE FALSE
      OBVIOUS
    <3>1. \/ j \in 1 .. x /\ m > n /\ m <= P
          \/ j \in (x + 1) .. M /\ m = (n + 1 + by + x) - j
          \/ j \in (M + 1) .. (M + by + 1) /\ m = (t + (j - M)) - 1
      BY <1>8, <2>1
    <3>2. x <= M
      BY <1>4
    <3> QED BY <1>1, <1>2, <1>3, <1>7, <2>1, <2>2, <3>1, <3>2
  <2>5. m \in DOMAIN g.pages
    BY <1>5, <1>10, <2>1
  <2>6. g.pages[m] = ws[i].value
    BY <1>4, <1>5, <2>1, <2>3, <2>4, <2>5
  <2> QED BY <2>2, <2>3, <2>6
<1>13. ASSUME NEW o \in (t + 1) .. n PROVE g.pages[o + by] = f.pages[o]
  <2> DEFINE m == o + by
             i == (n + 1 + x) - o
  <2>1. m \in Nat /\ m > t + by /\ m \in 1 .. P /\ i \in 1 .. E
        /\ i \in (x + 1) .. M /\ (n + 1 + by + x) - i = m /\ (n + 1 + x) - i = o
    BY <1>1, <1>2, <1>3, <1>7, <1>9
  <2> HIDE DEF m, i
  <2>2. ToPage(ws, i, m) /\ ws[i].value = f.pages[o]
    <3>1. /\ ws[i].at = "page" /\ ws[i].page = (n + 1 + by + x) - i
          /\ ws[i].value = f.pages[(n + 1 + x) - i]
      BY <1>4, <2>1
    <3> QED BY <2>1, <3>1 DEF ToPage
  <2>3. \A j \in 1 .. E : j > i => ~ ToPage(ws, j, m)
    <3> SUFFICES ASSUME NEW j \in 1 .. E, j > i, ToPage(ws, j, m) PROVE FALSE
      OBVIOUS
    <3>1. \/ j \in 1 .. x /\ m > n /\ m <= P
          \/ j \in (x + 1) .. M /\ m = (n + 1 + by + x) - j
          \/ j \in (M + 1) .. (M + by + 1) /\ m = (t + (j - M)) - 1
      BY <1>8, <2>1
    <3> QED BY <1>1, <1>2, <1>3, <1>7, <2>1, <3>1
  <2>4. m \in DOMAIN g.pages
    BY <1>5, <1>10, <2>1
  <2>5. g.pages[m] = ws[i].value
    BY <1>4, <1>5, <2>1, <2>2, <2>3, <2>4
  <2> QED BY <2>2, <2>5 DEF m
<1>14. g.allocated = P
  <2>1. \A j \in DOMAIN ws : j > x => ws[j].at # "header"
    BY <1>4, <1>7
  <2> QED BY <1>4, <1>6, <1>7, <2>1
<1>15. g.meta = counters
  <2>1. \A j \in DOMAIN ws : j > E => ws[j].at # "meta"
    BY <1>4, <1>7
  <2> QED BY <1>4, <1>6, <1>7, <2>1
<1>16. \A m \in 1 .. P : g.pages[m] \in PageTypes
  <2> TAKE m \in 1 .. P
  <2>1. \A o \in 1 .. n : f.pages[o] \in PageTypes
    BY <1>2, FileFacts
  <2>2. CASE m < t
    <3>1. m \in 1 .. (t - 1) /\ m \in 1 .. n
      BY <1>2, <1>3, <2>2
    <3> QED BY <1>11, <2>1, <3>1
  <2>3. CASE m >= t /\ m <= t + by
    <3> DEFINE c == (m - t) + 1
    <3>1. c \in 1 .. (by + 1) /\ (t + c) - 1 = m
      BY <1>1, <1>3, <2>3
    <3> HIDE DEF c
    <3>2. g.pages[(t + c) - 1] = qs[c] /\ qs[c] \in PageTypes
      BY <1>1, <1>12, <3>1
    <3> QED BY <3>1, <3>2
  <2>4. CASE m > t + by
    <3> DEFINE o == m - by
    <3>1. o \in (t + 1) .. n /\ o + by = m /\ o \in 1 .. n
      BY <1>1, <1>2, <1>3, <1>9, <2>4
    <3> HIDE DEF o
    <3>2. g.pages[o + by] = f.pages[o]
      BY <1>13, <3>1
    <3> QED BY <2>1, <3>1, <3>2
  <2> QED BY <1>1, <1>3, <2>2, <2>3, <2>4
<1>17. g = [pages |-> g.pages, allocated |-> P, meta |-> counters] /\ g.pages \in Seq(PageTypes)
  <2>1. g = [pages |-> [m \in 1 .. P |-> g.pages[m]], allocated |-> P, meta |-> counters]
    BY <1>6, <1>10, <1>14, <1>15
  <2>2. g.pages = [m \in 1 .. P |-> g.pages[m]]
    BY <2>1
  <2>3. g.pages \in [1 .. P -> PageTypes]
    BY <1>16, <2>2
  <2>4. g.pages \in Seq(PageTypes)
    BY <1>7, <2>3
  <2> QED BY <2>1, <2>2, <2>4
<1>18. SplitInto(f, g, t, qs)
  <2>1. Len(qs) - 1 = by /\ Len(f.pages) = n /\ DOMAIN g.pages = 1 .. (n + by)
    BY <1>1, <1>5, <1>9, <1>10 DEF n
  <2> QED BY <1>1, <1>11, <1>12, <1>13, <1>17, <2>1 DEF SplitInto
<1>19. Len(g.pages) = Len(f.pages) + (Len(qs) - 1)
  BY <1>1, <1>2, <1>9, <1>10 DEF n
<1> QED BY <1>10, <1>17, <1>18, <1>19 DEF SplitResult, g

\* An insertion that splits nothing rewrites one page.
LEMMA TwoWrites ==
    ASSUME NEW f \in FileTypes, NEW t \in 1 .. Len(f.pages), NEW qs \in Seq(PageTypes),
           Len(qs) = 1, NEW a \in Int, NEW d \in Int, NEW k \in Int
    PROVE  LET ws == SplitWrites(f, t, qs, a, d, k)
           IN /\ ws \in Seq(WriteTypes) /\ Len(ws) = 2
              /\ ws[1] = WritePage(t, qs[1]) /\ ws[2] = WriteMeta(a, d, k)
<1> DEFINE ws == SplitWrites(f, t, qs, a, d, k)
           b == [c \in DOMAIN qs |-> WritePage(t + c - 1, qs[c])]
           w == WriteMeta(a, d, k)
           one == <<w>>
           u == <<>> \o b
<1>1. t \in Nat \ {0}
  <2>1. Len(f.pages) \in Nat
    BY FileFacts
  <2> QED BY <2>1
<1>2. b \in Seq(WriteTypes) /\ Len(b) = 1 /\ b[1] = WritePage(t, qs[1])
  <2>1. /\ b \in Seq(WriteTypes) /\ Len(b) = Len(qs)
        /\ \A c \in 1 .. Len(qs) : b[c] = WritePage((t + c) - 1, qs[c])
    BY <1>1, ChunkWrites
  <2> HIDE DEF b
  <2>2. 1 \in 1 .. Len(qs) /\ (t + 1) - 1 = t
    BY <1>1
  <2> QED BY <2>1, <2>2
<1>3. one \in Seq(WriteTypes) /\ Len(one) = 1 /\ one[1] = w
  <2>1. w \in WriteTypes
    BY MetaWriteFacts
  <2> HIDE DEF w
  <2> QED BY <2>1
<1>4. ws = u \o one
  <2>1. Len(qs) - 1 = 0
    OBVIOUS
  <2>2. ShiftSuffix(f, t, 0) = <<>>
    BY DEF ShiftSuffix
  <2> QED BY <2>1, <2>2 DEF SplitWrites
<1>5. b \in Seq(WriteTypes) /\ one \in Seq(WriteTypes)
  BY <1>2, <1>3
<1> HIDE DEF b, one, ws
<1>6. u = b
  BY <1>5
<1>7. /\ b \o one \in Seq(WriteTypes) /\ Len(b \o one) = Len(b) + Len(one)
      /\ \A i \in 1 .. Len(b) : (b \o one)[i] = b[i]
      /\ \A i \in 1 .. Len(one) : (b \o one)[Len(b) + i] = one[i]
  BY ONLY <1>5, Concatenated
<1> HIDE DEF u
<1>8. ws = b \o one
  BY <1>4, <1>6
<1>9. ws \in Seq(WriteTypes) /\ Len(ws) = 2
  BY <1>2, <1>3, <1>7, <1>8
<1>10. ws[1] = b[1] /\ ws[2] = one[1]
  <2>1. 1 \in 1 .. Len(b) /\ 1 \in 1 .. Len(one) /\ Len(b) + 1 = 2
    BY <1>2, <1>3
  <2> QED BY <1>7, <1>8, <2>1
<1> QED BY <1>2, <1>3, <1>9, <1>10 DEF ws, w

LEMMA SplitDone ==
    ASSUME NEW f, Sound(f), NEW t \in 1 .. Len(f.pages), NEW qs \in Seq(PageTypes),
           Len(qs) # 0, NEW a \in Int, NEW d \in Int, NEW k, k = Len(f.pages) + (Len(qs) - 1)
    PROVE  LET ws == SplitWrites(f, t, qs, a, d, k)
               g == WriteAll(f, ws)
           IN /\ SplitResult(f, g, t, qs, [active |-> a, deleted |-> d, pages |-> k])
              /\ ActiveRows(g) # ActiveRows(f) =>
                   \A h \in FailedWrites(f, ws) : Opens(h) => h = f \/ h = g
<1> DEFINE n == Len(f.pages)
           ws == SplitWrites(f, t, qs, a, d, k)
           g == WriteAll(f, ws)
           counters == [active |-> a, deleted |-> d, pages |-> k]
           by == Len(qs) - 1
<1>1. f \in FileTypes /\ n \in Nat /\ DOMAIN f.pages = 1 .. n /\ f.allocated = n
  BY SoundFacts, FileFacts
<1>2. by \in Nat /\ k = n + by /\ k \in Int /\ Len(qs) = by + 1
  BY <1>1
<1>5. \A c \in 1 .. Len(qs) : qs[c] \in PageTypes
  OBVIOUS
<1> HIDE DEF by
<1>3. CASE by = 0
  <2>1. Len(qs) = 1
    BY <1>2, <1>3
  <2>2. /\ ws \in Seq(WriteTypes) /\ Len(ws) = 2
        /\ ws[1] = WritePage(t, qs[1]) /\ ws[2] = WriteMeta(a, d, k)
    BY <1>1, <1>2, <2>1, TwoWrites
  <2> DEFINE q == qs[1]
  <2>3. q \in PageTypes /\ t \in DOMAIN f.pages
    <3>1. 1 \in 1 .. Len(qs)
      BY <2>1
    <3> QED BY <1>1, <1>5, <3>1
  <2>4. ws[2].at = "meta" /\ ws[2].value = counters
    <3>1. WriteMeta(a, d, k).at = "meta" /\ WriteMeta(a, d, k).value = counters
      BY <1>2, MetaWriteFacts
    <3> HIDE DEF ws, counters
    <3> QED BY <2>2, <3>1
  <2> HIDE DEF ws
  <2>5. g = [pages |-> [f.pages EXCEPT ![t] = q], allocated |-> f.allocated, meta |-> counters]
    <3>1. WriteAll(f, ws) =
             [pages |-> [f.pages EXCEPT ![t] = q], allocated |-> f.allocated,
              meta |-> IF Len(ws) = 1 THEN f.meta ELSE ws[2].value]
      <4> HIDE DEF q
      <4> QED BY <1>1, <2>2, <2>3, <2>4, RewrittenPage DEF q
    <3> QED BY <2>2, <2>4, <3>1
  <2>6. g.pages = [f.pages EXCEPT ![t] = q]
    BY <2>5
  <2> HIDE DEF g, q, by, n
  <2>7. f.pages \in Seq(PageTypes)
    BY <1>1 DEF FileTypes
  <2>8. /\ g.pages \in Seq(PageTypes) /\ DOMAIN g.pages = 1 .. n /\ Len(g.pages) = n
        /\ g.pages[t] = q /\ \A m \in 1 .. n : m # t => g.pages[m] = f.pages[m]
    BY <1>1, <2>3, <2>6, <2>7 DEF n
  <2>9. SplitInto(f, g, t, qs)
    <3>1. t \in Nat \ {0} /\ t <= n
      BY <1>1, <2>3
    <3>2. \A m \in 1 .. (t - 1) : g.pages[m] = f.pages[m]
      BY <1>1, <2>8, <3>1
    <3>3. \A m \in (t + 1) .. n : g.pages[m + 0] = f.pages[m]
      BY <1>1, <2>8, <3>1
    <3>4. \A c \in 1 .. 1 : g.pages[(t + c) - 1] = qs[c]
      <4>1. (t + 1) - 1 = t
        BY <3>1
      <4> QED BY <2>8, <4>1 DEF q
    <3>5. Len(qs) - 1 = 0 /\ n + 0 = n
      BY <1>1, <2>1
    <3>6. DOMAIN g.pages = 1 .. (n + 0) /\ g.pages \in Seq(PageTypes)
      BY <2>8, <3>5
    <3> QED BY <2>1, <3>2, <3>3, <3>4, <3>5, <3>6 DEF SplitInto, n
  <2>10. SplitResult(f, g, t, qs, counters)
    <3>1. Len(g.pages) = Len(f.pages) + (Len(qs) - 1)
      BY <1>1, <2>1, <2>8 DEF n
    <3>2. g = [pages |-> g.pages, allocated |-> Len(g.pages), meta |-> counters]
      BY <1>1, <2>5, <2>6, <2>8
    <3> HIDE DEF counters
    <3> QED BY <2>9, <3>1, <3>2 DEF SplitResult
  <2>11. ASSUME ActiveRows(g) # ActiveRows(f), NEW h \in FailedWrites(f, ws), Opens(h)
         PROVE  h = f \/ h = g
    <3>1. \A e : e.pages = [f.pages EXCEPT ![t] = q] => ActiveRows(e) # ActiveRows(f)
      <4> TAKE e
      <4> HAVE e.pages = [f.pages EXCEPT ![t] = q]
      <4>1. ActiveRows(e) = ActiveRows(g)
        BY <2>6, OnPages
      <4> QED BY <2>11, <4>1
    <3>2. ws[1] = WritePage(t, q)
      BY <2>2 DEF q
    <3> QED BY <2>2, <2>3, <2>4, <2>11, <3>1, <3>2, FailedInPlace DEF g
  <2> QED BY <2>10, <2>11 DEF g, ws, n
<1>4. CASE by # 0
  <2>1. Extends(qs, by)
    BY <1>2, <1>4 DEF Extends
  <2>2. Kinds(f, t, by, qs, ws, counters)
    BY <1>1, <1>2, <2>1, SplitWritesKinds
  <2> HIDE DEF ws, counters
  <2>3. ws \in Seq(WriteTypes)
    BY <2>2 DEF Kinds
  <2>4. SplitResult(f, g, t, qs, counters)
    BY <1>1, <2>1, <2>2, <2>3, GrowthDone
  <2>5. /\ Len(ws) > 1 /\ ws[Len(ws)].at = "meta"
        /\ \A i \in DOMAIN ws : i # Len(ws) => ws[i].at # "meta"
        /\ ws[1].at = "page" /\ ws[1].page > n
    <3> DEFINE x == 2 * by
               M == x + (n - t)
               E == M + by + 2
    <3>1. /\ Len(ws) = E /\ M \in Nat /\ x <= M /\ DOMAIN ws = 1 .. E
          /\ \A i \in 1 .. x : ws[i].at # "meta"
          /\ ws[1].at = "page" /\ ws[1].page = n + 1
          /\ \A i \in (x + 1) .. M : ws[i].at = "page"
          /\ \A i \in (M + 1) .. (M + by + 1) : ws[i].at = "page"
          /\ ws[E].at = "meta"
      BY <2>2 DEF Kinds
    <3>2. x \in Nat
      BY <1>2
    <3> HIDE DEF x, M
    <3>3. \A i \in 1 .. E :
            i \in 1 .. x \/ i \in (x + 1) .. M \/ i \in (M + 1) .. (M + by + 1) \/ i = E
      <4>1. M \in Nat /\ x <= M /\ x \in Nat /\ by \in Nat /\ E = M + by + 2
        BY <1>2, <3>1, <3>2
      <4> HIDE DEF E
      <4> QED BY ONLY <4>1
    <3>4. E \in Nat /\ E > 1
      BY <1>2, <3>1
    <3>5. ws[1].page > n
      BY <1>1, <3>1
    <3> HIDE DEF E
    <3> QED BY <3>1, <3>3, <3>4, <3>5
  <2>6. ASSUME NEW h \in FailedWrites(f, ws), Opens(h) PROVE h = f \/ h = g
    BY <2>3, <2>5, <2>6, FailedGrowth
  <2> QED BY <2>4, <2>6 DEF ws, counters
<1> QED BY <1>3, <1>4

-----------------------------------------------------------------------------
(***************************************************************************)
(* The slots of the file before an insertion are those after it but one.   *)
(***************************************************************************)
PagePlaces(qs) == UNION {{c} \X DOMAIN qs[c].slots : c \in DOMAIN qs}

\* Every slot of the page has a place on the new pages, other than at.
Relocates(p, qs, at, loc) ==
  /\ Matches(DOMAIN p.slots, PagePlaces(qs) \ {at}, loc)
  /\ \A s \in DOMAIN p.slots : qs[loc[s][1]].slots[loc[s][2]] = p.slots[s]

\* Every slot of f has a place in g, other than rid.
KeepsRows(f, g, rid, h) ==
  /\ Matches(SlotsOf(f), SlotsOf(g) \ {rid}, h)
  /\ \A x \in SlotsOf(f) : RowAt(g, h[x]) = RowAt(f, x)

\* The slot of the file that a place on the new pages is.
SlotFrom(t, at) == <<t + at[1] - 1, at[2]>>

\* Page t of f becomes the pages qs of g, and rid is the place at.
Replaced(f, g, t, qs, at, loc, rid) ==
  /\ f \in FileTypes /\ t \in DOMAIN f.pages
  /\ qs \in Seq(PageTypes) /\ Len(qs) # 0 /\ SplitInto(f, g, t, qs)
  /\ at \in PagePlaces(qs) /\ Relocates(f.pages[t], qs, at, loc)
  /\ rid = SlotFrom(t, at)

LEMMA SlotsSplit ==
    ASSUME NEW f, NEW g, NEW t, NEW qs, NEW at, NEW loc, NEW rid,
           Replaced(f, g, t, qs, at, loc, rid)
    PROVE  /\ rid \in SlotsOf(g) /\ RowAt(g, rid) = qs[at[1]].slots[at[2]]
           /\ \E h : KeepsRows(f, g, rid, h)
<1> SUFFICES ASSUME f \in FileTypes, t \in DOMAIN f.pages,
                    qs \in Seq(PageTypes), Len(qs) # 0, SplitInto(f, g, t, qs),
                    at \in PagePlaces(qs), Relocates(f.pages[t], qs, at, loc),
                    rid = SlotFrom(t, at)
             PROVE  /\ rid \in SlotsOf(g) /\ RowAt(g, rid) = qs[at[1]].slots[at[2]]
                    /\ \E h : KeepsRows(f, g, rid, h)
  BY DEF Replaced
<1> DEFINE n == Len(f.pages)
           by == Len(qs) - 1
           D == DOMAIN f.pages[t].slots
           A == SlotsOf(f)
           B == SlotsOf(g)
           place(c, j) == <<(t + c) - 1, j>>
           h == [x \in A |-> IF x[1] < t THEN x
                             ELSE IF x[1] = t THEN place(loc[x[2]][1], loc[x[2]][2])
                             ELSE <<x[1] + by, x[2]>>]
<1>1. n \in Nat /\ DOMAIN f.pages = 1 .. n /\ t \in Nat \ {0} /\ t <= n
  <2>1. n \in Nat /\ DOMAIN f.pages = 1 .. n
    BY FileFacts
  <2>2. t \in 1 .. n
    BY <2>1
  <2> HIDE DEF n
  <2> QED BY <2>1, <2>2
<1>2. Len(qs) \in Nat /\ DOMAIN qs = 1 .. Len(qs) /\ by \in Nat /\ Len(qs) = by + 1
  OBVIOUS
<1> HIDE DEF by, n
<1>3. DOMAIN g.pages = 1 .. (n + by)
  BY DEF SplitInto, n, by
<1>4. /\ \A m \in 1 .. (t - 1) : g.pages[m] = f.pages[m]
      /\ \A c \in 1 .. (by + 1) : g.pages[(t + c) - 1] = qs[c]
      /\ \A m \in (t + 1) .. n : g.pages[m + by] = f.pages[m]
  <2>1. /\ \A m \in 1 .. (t - 1) : g.pages[m] = f.pages[m]
        /\ \A c \in 1 .. Len(qs) : g.pages[(t + c) - 1] = qs[c]
        /\ \A m \in (t + 1) .. n : g.pages[m + by] = f.pages[m]
    BY DEF SplitInto, n, by
  <2> QED BY <1>2, <2>1
<1>5. \A c, j : <<c, j>> \in PagePlaces(qs) <=> c \in 1 .. (by + 1) /\ j \in DOMAIN qs[c].slots
  BY <1>2 DEF PagePlaces
<1>6. \A z \in PagePlaces(qs) : z = <<z[1], z[2]>> /\ z[1] \in 1 .. (by + 1) /\ z[2] \in DOMAIN qs[z[1]].slots
  <2> TAKE z \in PagePlaces(qs)
  <2>1. z = <<z[1], z[2]>>
    BY DEF PagePlaces
  <2> QED BY <1>5, <2>1
<1>7. /\ \A m, s : <<m, s>> \in A <=> m \in 1 .. n /\ s \in DOMAIN f.pages[m].slots
      /\ \A x \in A : x = <<x[1], x[2]>>
      /\ \A m, s : RowAt(f, <<m, s>>) = f.pages[m].slots[s]
  BY <1>1, SlotFacts
<1>8. /\ \A m, s : <<m, s>> \in B <=> m \in 1 .. (n + by) /\ s \in DOMAIN g.pages[m].slots
      /\ \A x \in B : x = <<x[1], x[2]>>
      /\ \A m, s : RowAt(g, <<m, s>>) = g.pages[m].slots[s]
  BY <1>3, SlotFacts
<1>9. /\ loc \in [D -> PagePlaces(qs) \ {at}]
      /\ \A x, y \in D : loc[x] = loc[y] => x = y
      /\ \A z \in PagePlaces(qs) \ {at} : \E x \in D : loc[x] = z
      /\ \A s \in D : qs[loc[s][1]].slots[loc[s][2]] = f.pages[t].slots[s]
  BY DEF Relocates, Matches
<1> HIDE DEF A, B
<1>10. \A z \in PagePlaces(qs) :
         /\ place(z[1], z[2]) \in B /\ RowAt(g, place(z[1], z[2])) = qs[z[1]].slots[z[2]]
         /\ (t + z[1]) - 1 \in t .. (t + by)
  <2> TAKE z \in PagePlaces(qs)
  <2> DEFINE c == z[1]
             j == z[2]
             m == (t + c) - 1
  <2>1. c \in 1 .. (by + 1) /\ j \in DOMAIN qs[c].slots
    BY <1>6
  <2> HIDE DEF c, j
  <2>2. g.pages[m] = qs[c] /\ m \in 1 .. (n + by) /\ m \in t .. (t + by)
    <3>1. c \in Nat /\ c >= 1 /\ c <= by + 1
      BY <1>2, <2>1
    <3>2. m \in 1 .. (n + by) /\ m \in t .. (t + by)
      BY <1>1, <1>2, <3>1
    <3>3. g.pages[m] = qs[c]
      BY <1>4, <2>1
    <3> QED BY <3>2, <3>3
  <2>3. place(c, j) = <<m, j>>
    OBVIOUS
  <2> HIDE DEF m, place
  <2>4. <<m, j>> \in B /\ RowAt(g, <<m, j>>) = qs[c].slots[j]
    BY <1>8, <2>1, <2>2
  <2> QED BY <2>2, <2>3, <2>4 DEF c, j, m
<1>11. /\ rid = place(at[1], at[2]) /\ rid \in B /\ RowAt(g, rid) = qs[at[1]].slots[at[2]]
       /\ rid[1] \in t .. (t + by)
  <2> DEFINE m == (t + at[1]) - 1
  <2>2. t + at[1] - 1 = m
    <3>1. at[1] \in 1 .. (by + 1)
      BY <1>6
    <3> QED BY <1>1, <1>2, <3>1
  <2>3. place(at[1], at[2]) = <<m, at[2]>>
    OBVIOUS
  <2>1. rid = place(at[1], at[2]) /\ rid[1] = (t + at[1]) - 1
    <3> HIDE DEF place, m
    <3>1. rid = <<m, at[2]>>
      BY <2>2 DEF SlotFrom
    <3> QED BY <2>3, <3>1 DEF m
  <2> QED BY <1>10, <2>1
<1>12. \A y, z \in PagePlaces(qs) : place(y[1], y[2]) = place(z[1], z[2]) => y = z
  <2> TAKE y, z \in PagePlaces(qs)
  <2> HAVE place(y[1], y[2]) = place(z[1], z[2])
  <2>1. (t + y[1]) - 1 = (t + z[1]) - 1 /\ y[2] = z[2]
    OBVIOUS
  <2>2. y[1] \in 1 .. (by + 1) /\ z[1] \in 1 .. (by + 1) /\ y = <<y[1], y[2]>> /\ z = <<z[1], z[2]>>
    BY <1>6
  <2>3. y[1] = z[1]
    BY <1>1, <1>2, <2>1, <2>2
  <2> QED BY <2>1, <2>2, <2>3
<1>13. \A x \in A : x[1] < t =>
         /\ h[x] = x /\ h[x] \in B /\ h[x][1] < t /\ RowAt(g, h[x]) = RowAt(f, x)
  <2> TAKE x \in A
  <2> HAVE x[1] < t
  <2>1. h[x] = x
    OBVIOUS
  <2> DEFINE m == x[1]
             s == x[2]
  <2>2. x = <<m, s>>
    BY <1>7
  <2>3. m < t
    OBVIOUS
  <2> HIDE DEF m, s, h
  <2>4. m \in 1 .. n /\ s \in DOMAIN f.pages[m].slots
    BY <1>7, <2>2
  <2>5. m \in 1 .. (t - 1) /\ m \in 1 .. (n + by)
    BY <1>1, <1>2, <2>3, <2>4
  <2>6. g.pages[m] = f.pages[m]
    BY <1>4, <2>5
  <2>7. <<m, s>> \in B /\ RowAt(g, <<m, s>>) = RowAt(f, <<m, s>>)
    BY <1>7, <1>8, <2>4, <2>5, <2>6
  <2> QED BY <2>1, <2>2, <2>3, <2>7 DEF m
<1>14. \A x \in A : x[1] = t =>
         /\ x[2] \in D /\ x = <<t, x[2]>>
         /\ h[x] = place(loc[x[2]][1], loc[x[2]][2]) /\ h[x] \in B /\ h[x] # rid
         /\ h[x][1] \in t .. (t + by) /\ RowAt(g, h[x]) = RowAt(f, x)
  <2> TAKE x \in A
  <2> HAVE x[1] = t
  <2> DEFINE s == x[2]
             z == loc[s]
  <2>1. x = <<t, s>>
    BY <1>7
  <2>2. s \in D
    <3> HIDE DEF s, h
    <3> QED BY <1>7, <2>1
  <2>3. h[x] = place(z[1], z[2])
    BY <1>1
  <2> HIDE DEF h, s
  <2>4. z \in PagePlaces(qs) /\ z # at /\ qs[z[1]].slots[z[2]] = f.pages[t].slots[s]
    BY <1>9, <2>2
  <2> HIDE DEF z
  <2>5. /\ place(z[1], z[2]) \in B /\ RowAt(g, place(z[1], z[2])) = qs[z[1]].slots[z[2]]
        /\ (t + z[1]) - 1 \in t .. (t + by)
    BY <1>10, <2>4
  <2>6. place(z[1], z[2]) # rid
    <3> HIDE DEF place
    <3> QED BY <1>11, <1>12, <2>4
  <2>7. place(z[1], z[2])[1] \in t .. (t + by)
    BY <2>5
  <2>8. RowAt(f, x) = f.pages[t].slots[s]
    BY <1>7, <2>1
  <2> HIDE DEF place
  <2>9. h[x] \in B /\ h[x] # rid /\ h[x][1] \in t .. (t + by) /\ RowAt(g, h[x]) = RowAt(f, x)
    BY <2>3, <2>4, <2>5, <2>6, <2>7, <2>8
  <2> QED BY <2>1, <2>2, <2>3, <2>9 DEF s, z
<1>15. \A x \in A : x[1] > t =>
         /\ h[x] = <<x[1] + by, x[2]>> /\ h[x] \in B
         /\ h[x][1] > t + by /\ RowAt(g, h[x]) = RowAt(f, x)
  <2> TAKE x \in A
  <2> HAVE x[1] > t
  <2> DEFINE m == x[1]
             s == x[2]
  <2>2. x = <<m, s>>
    BY <1>7
  <2>4. m \in 1 .. n /\ s \in DOMAIN f.pages[m].slots
    <3>1. <<m, s>> \in A
      BY <2>2
    <3> HIDE DEF m, s, h
    <3> QED BY <1>7, <3>1
  <2>3. m > t /\ m \in Nat
    BY <1>1, <2>4
  <2>1. h[x] = <<m + by, s>>
    BY <1>1, <2>3
  <2> HIDE DEF m, s, h
  <2>5. m \in (t + 1) .. n /\ m + by \in 1 .. (n + by) /\ m + by > t + by
    BY <1>1, <1>2, <2>3, <2>4
  <2>6. g.pages[m + by] = f.pages[m]
    BY <1>4, <2>5
  <2>7. <<m + by, s>> \in B /\ RowAt(g, <<m + by, s>>) = RowAt(f, <<m, s>>)
    <3>1. <<m + by, s>> \in B
      BY <1>8, <2>4, <2>5, <2>6
    <3>2. RowAt(g, <<m + by, s>>) = g.pages[m + by].slots[s]
      BY <1>8
    <3>3. RowAt(f, <<m, s>>) = f.pages[m].slots[s]
      BY <1>7
    <3> QED BY <2>6, <3>1, <3>2, <3>3
  <2>8. h[x] \in B /\ RowAt(g, h[x]) = RowAt(f, x)
    BY <2>1, <2>2, <2>7
  <2>9. h[x][1] = m + by
    BY <2>1
  <2> QED BY <2>1, <2>5, <2>8, <2>9 DEF m, s
<1>16. \A x \in A : x[1] \in 1 .. n /\ (x[1] < t \/ x[1] = t \/ x[1] > t)
  <2> TAKE x \in A
  <2>1. x = <<x[1], x[2]>>
    BY <1>7
  <2>2. x[1] \in 1 .. n
    BY <1>7, <2>1
  <2> QED BY <1>1, <2>2
<1>17. h = [x \in A |-> h[x]]
  OBVIOUS
<1> HIDE DEF h
<1>18. h \in [A -> B \ {rid}]
  <2>1. \A x \in A : h[x] \in B /\ h[x] # rid
    <3> TAKE x \in A
    <3>1. rid[1] \in Nat /\ rid[1] >= t /\ rid[1] <= t + by
      BY <1>1, <1>2, <1>11
    <3>2. CASE x[1] < t
      BY <1>1, <1>13, <3>1, <3>2
    <3>3. CASE x[1] = t
      BY <1>14, <3>3
    <3>4. CASE x[1] > t
      <4>1. h[x] \in B /\ h[x][1] > t + by
        BY <1>15, <3>4
      <4>2. h[x] # rid
        BY <1>1, <1>2, <3>1, <4>1
      <4> QED BY <4>1, <4>2
    <3> QED BY <1>16, <3>2, <3>3, <3>4
  <2> QED BY <1>17, <2>1
<1>19. \A x, y \in A : h[x] = h[y] => x = y
  <2> TAKE x, y \in A
  <2> HAVE h[x] = h[y]
  <2>1. CASE x[1] < t /\ y[1] < t
    BY <1>13, <2>1
  <2>2. CASE x[1] = t /\ y[1] = t
    <3>1. /\ x[2] \in D /\ x = <<t, x[2]>> /\ h[x] = place(loc[x[2]][1], loc[x[2]][2])
          /\ y[2] \in D /\ y = <<t, y[2]>> /\ h[y] = place(loc[y[2]][1], loc[y[2]][2])
      BY <1>14, <2>2
    <3> HIDE DEF place
    <3>2. loc[x[2]] \in PagePlaces(qs) /\ loc[y[2]] \in PagePlaces(qs)
      BY <1>9, <3>1
    <3>3. loc[x[2]] = loc[y[2]]
      BY <1>12, <3>1, <3>2
    <3>4. x[2] = y[2]
      BY <1>9, <3>1, <3>3
    <3> QED BY <3>1, <3>4
  <2>3. CASE x[1] > t /\ y[1] > t
    <3>1. h[x] = <<x[1] + by, x[2]>> /\ h[y] = <<y[1] + by, y[2]>>
      BY <1>15, <2>3
    <3>2. x[1] + by = y[1] + by /\ x[2] = y[2]
      <4> DEFINE i == x[1] + by
                 j == y[1] + by
      <4>1. <<i, x[2]>> = <<j, y[2]>>
        BY <3>1
      <4> HIDE DEF i, j
      <4>2. i = j /\ x[2] = y[2]
        BY ONLY <4>1
      <4> QED BY <4>2 DEF i, j
    <3>3. x[1] = y[1]
      BY <1>1, <1>2, <1>16, <3>2
    <3>4. x = <<x[1], x[2]>> /\ y = <<y[1], y[2]>>
      BY <1>7
    <3> QED BY <3>2, <3>3, <3>4
  <2>4. \A z \in A : z[1] = t => h[z][1] \in Nat /\ h[z][1] >= t /\ h[z][1] <= t + by
    BY <1>1, <1>2, <1>14
  <2>5. \A z \in A : z[1] < t => h[z][1] < t
    BY <1>13
  <2>6. \A z \in A : z[1] > t => h[z][1] > t + by /\ h[z][1] \in Nat
    <3> TAKE z \in A
    <3> HAVE z[1] > t
    <3>1. h[z] = <<z[1] + by, z[2]>> /\ h[z][1] > t + by /\ z[1] \in 1 .. n
      BY <1>15, <1>16
    <3>2. z[1] + by \in Nat
      BY <1>1, <1>2, <3>1
    <3> QED BY <3>1, <3>2
  <2>7. \A z \in A : z[1] < t => h[z][1] \in Nat
    BY <1>1, <1>13, <1>16
  <2>8. ~ (x[1] < t /\ y[1] = t) /\ ~ (x[1] = t /\ y[1] < t)
    BY <1>1, <2>4, <2>5, <2>7
  <2>9. ~ (x[1] > t /\ y[1] = t) /\ ~ (x[1] = t /\ y[1] > t)
    BY <1>1, <1>2, <2>4, <2>6
  <2>10. ~ (x[1] > t /\ y[1] < t) /\ ~ (x[1] < t /\ y[1] > t)
    BY <1>1, <1>2, <2>5, <2>6, <2>7
  <2> QED BY <1>16, <2>1, <2>2, <2>3, <2>8, <2>9, <2>10
<1>20. \A y \in B \ {rid} : \E x \in A : h[x] = y
  <2> TAKE y \in B \ {rid}
  <2> DEFINE m == y[1]
             s == y[2]
  <2>1. y = <<m, s>> /\ y # rid
    BY <1>8
  <2>2. m \in 1 .. (n + by) /\ s \in DOMAIN g.pages[m].slots
    <3> HIDE DEF m, s
    <3> QED BY <1>8, <2>1
  <2> HIDE DEF m, s
  <2>3. CASE m < t
    <3>1. m \in 1 .. (t - 1) /\ m \in 1 .. n
      BY <1>1, <1>2, <2>2, <2>3
    <3>2. g.pages[m] = f.pages[m]
      BY <1>4, <3>1
    <3>3. y \in A
      BY <1>7, <2>1, <2>2, <3>1, <3>2
    <3>4. y[1] < t
      BY <2>1, <2>3
    <3>5. h[y] = y
      BY <1>13, <3>3, <3>4
    <3> QED BY <3>3, <3>5
  <2>4. CASE m >= t /\ m <= t + by
    <3> DEFINE c == (m - t) + 1
               z == <<c, s>>
    <3>1. c \in 1 .. (by + 1) /\ (t + c) - 1 = m
      <4>1. m \in Nat /\ t \in Nat /\ by \in Nat
        BY <1>1, <1>2, <2>2
      <4> QED BY <2>4, <4>1
    <3> HIDE DEF c
    <3>2. g.pages[m] = qs[c]
      BY <1>4, <3>1
    <3>3. z \in PagePlaces(qs)
      BY <1>5, <2>2, <3>1, <3>2
    <3>4. place(c, s) = y
      BY <2>1, <3>1
    <3>5. z # at
      <4> SUFFICES ASSUME z = at PROVE FALSE
        OBVIOUS
      <4>1. at[1] = c /\ at[2] = s
        OBVIOUS
      <4> HIDE DEF place, z
      <4> QED BY <1>11, <2>1, <3>4, <4>1
    <3>6. z[1] = c /\ z[2] = s
      OBVIOUS
    <3> HIDE DEF z, place
    <3>7. PICK d \in D : loc[d] = z
      BY <1>9, <3>3, <3>5
    <3> DEFINE x == <<t, d>>
    <3>8. x \in A
      BY <1>1, <1>7
    <3>9. x[1] = t /\ x[2] = d
      OBVIOUS
    <3> HIDE DEF x
    <3>10. h[x] = place(loc[x[2]][1], loc[x[2]][2])
      BY <1>14, <3>8, <3>9
    <3>11. h[x] = y
      BY <3>4, <3>6, <3>7, <3>9, <3>10
    <3> QED BY <3>8, <3>11
  <2>5. CASE m > t + by
    <3> DEFINE o == m - by
               x == <<o, s>>
    <3>1. o \in (t + 1) .. n /\ o + by = m /\ o \in 1 .. n /\ o > t
      BY <1>1, <1>2, <2>2, <2>5
    <3> HIDE DEF o
    <3>2. g.pages[m] = f.pages[o]
      BY <1>4, <3>1
    <3>3. x \in A
      BY <1>7, <2>2, <3>1, <3>2
    <3>4. x[1] = o /\ x[2] = s
      OBVIOUS
    <3> HIDE DEF x
    <3>5. h[x] = <<x[1] + by, x[2]>>
      BY <1>15, <3>1, <3>3, <3>4
    <3>6. h[x] = y
      BY <2>1, <3>1, <3>4, <3>5
    <3> QED BY <3>3, <3>6
  <2> QED BY <1>1, <1>2, <2>2, <2>3, <2>4, <2>5
<1>21. \A x \in A : RowAt(g, h[x]) = RowAt(f, x)
  BY <1>13, <1>14, <1>15, <1>16
<1>22. KeepsRows(f, g, rid, h)
  BY <1>18, <1>19, <1>20, <1>21 DEF KeepsRows, Matches, A, B
<1> QED BY <1>11, <1>22 DEF B

LEMMA RowsKept ==
    ASSUME NEW f \in FileTypes, NEW g \in FileTypes, NEW rid \in SlotsOf(g),
           RowAt(g, rid) # Free, NEW h, KeepsRows(f, g, rid, h)
    PROVE  /\ rid \in RidsOf(g)
           /\ Contents(g) = Contents(f) (+) SetToBag({RowAt(g, rid)})
           /\ ActiveRows(g) = ActiveRows(f) + 1 /\ FreeSlots(g) = FreeSlots(f)
<1> DEFINE A == RidsOf(f)
           B == RidsOf(g) \ {rid}
           C == SlotsOf(f) \ RidsOf(f)
           D == SlotsOf(g) \ RidsOf(g)
           ha == [x \in A |-> h[x]]
           hc == [x \in C |-> h[x]]
<1>1. rid \in RidsOf(g)
  BY DEF RidsOf
<1>2. /\ h \in [SlotsOf(f) -> SlotsOf(g) \ {rid}]
      /\ \A x, y \in SlotsOf(f) : h[x] = h[y] => x = y
      /\ \A y \in SlotsOf(g) \ {rid} : \E x \in SlotsOf(f) : h[x] = y
      /\ \A x \in SlotsOf(f) : RowAt(g, h[x]) = RowAt(f, x)
  BY DEF KeepsRows, Matches
<1>3. /\ \A x : x \in A <=> x \in SlotsOf(f) /\ RowAt(f, x) # Free
      /\ \A y : y \in RidsOf(g) <=> y \in SlotsOf(g) /\ RowAt(g, y) # Free
  BY DEF RidsOf
<1>4. /\ \A x : x \in C <=> x \in SlotsOf(f) /\ RowAt(f, x) = Free
      /\ \A y : y \in D <=> y \in SlotsOf(g) /\ RowAt(g, y) = Free
  BY <1>3
<1>5. \A y : y \in B <=> y \in SlotsOf(g) /\ RowAt(g, y) # Free /\ y # rid
  BY <1>3
<1> HIDE DEF A, B, C, D
<1>6. Matches(A, B, ha)
  <2>1. \A x \in A : h[x] \in B
    BY <1>2, <1>3, <1>5
  <2>2. ha \in [A -> B] /\ \A x \in A : ha[x] = h[x]
    BY <2>1
  <2> HIDE DEF ha
  <2>3. \A x, y \in A : ha[x] = ha[y] => x = y
    BY <1>2, <1>3, <2>2
  <2>4. \A y \in B : \E x \in A : ha[x] = y
    <3> TAKE y \in B
    <3>1. PICK x \in SlotsOf(f) : h[x] = y
      BY <1>2, <1>5
    <3>2. x \in A
      BY <1>2, <1>3, <1>5, <3>1
    <3> QED BY <2>2, <3>1, <3>2
  <2> QED BY <2>2, <2>3, <2>4 DEF Matches
<1>7. Matches(C, D, hc)
  <2>1. \A x \in C : h[x] \in D
    BY <1>2, <1>4
  <2>2. hc \in [C -> D] /\ \A x \in C : hc[x] = h[x]
    BY <2>1
  <2> HIDE DEF hc
  <2>3. \A x, y \in C : hc[x] = hc[y] => x = y
    BY <1>2, <1>4, <2>2
  <2>4. \A y \in D : \E x \in C : hc[x] = y
    <3> TAKE y \in D
    <3>1. y \in SlotsOf(g) /\ y # rid
      BY <1>4
    <3>2. PICK x \in SlotsOf(f) : h[x] = y
      BY <1>2, <3>1
    <3>3. x \in C
      BY <1>2, <1>4, <3>2
    <3> QED BY <2>2, <3>2, <3>3
  <2> QED BY <2>2, <2>3, <2>4 DEF Matches
<1>8. \A x \in A : RowAt(g, ha[x]) = RowAt(f, x)
  BY <1>2, <1>3
<1> HIDE DEF ha, hc
<1>9. /\ Contents(g) = Contents(f) (+) SetToBag({RowAt(g, rid)})
      /\ ActiveRows(g) = ActiveRows(f) + 1
  BY <1>1, <1>6, <1>8, RowAdded DEF A, B
<1>10. FreeSlots(g) = FreeSlots(f)
  <2>1. IsFiniteSet(C)
    BY FileFacts DEF C
  <2>2. Cardinality(D) = Cardinality(C)
    BY <1>7, <2>1, MatchCount
  <2> QED BY <2>2 DEF FreeSlots, C, D
<1> QED BY <1>1, <1>9, <1>10

-----------------------------------------------------------------------------
(***************************************************************************)
(* The pages of a cut hold the rows of its items.                          *)
(***************************************************************************)
PagesFor(chunks) == [c \in DOMAIN chunks |-> PageOf(chunks[c])]

LEMMA CutPages ==
    ASSUME NEW items \in Seq(FittingItems), NEW on, IsCut(items, on)
    PROVE  LET chunks == Cut(items, on)
               qs == PagesFor(chunks)
               home == Homes(items, on)
           IN /\ qs \in Seq(PageTypes) /\ Len(chunks) = Len(qs) /\ Len(qs) = PagesOf(on)
              /\ DOMAIN chunks = 1 .. Len(qs)
              /\ Len(items) # 0 => Len(qs) # 0
              /\ \A c \in 1 .. Len(qs) : LayoutIsValid(qs[c])
              /\ PagePlaces(qs) = Places(chunks)
              /\ Matches(1 .. Len(items), PagePlaces(qs), home)
              /\ \A i \in 1 .. Len(items) :
                   /\ chunks[home[i][1]][home[i][2]] = items[i]
                   /\ qs[home[i][1]].slots[home[i][2]] = items[i].row
<1> DEFINE chunks == Cut(items, on)
           qs == PagesFor(chunks)
           home == Homes(items, on)
           P == PagesOf(on)
           N == Len(items)
<1>1. /\ P \in Nat /\ chunks \in [1 .. P -> Seq(FittingItems)]
      /\ N # 0 => P # 0
      /\ \A c \in 1 .. P : CostOf(chunks[c], DOMAIN chunks[c]) <= PageBytes
      /\ Matches(1 .. N, Places(chunks), home)
      /\ \A i \in 1 .. N : chunks[home[i][1]][home[i][2]] = items[i]
  BY CutFacts
<1> HIDE DEF chunks, home, P, N
<1>2. Len(chunks) = P /\ DOMAIN chunks = 1 .. P /\ \A c \in 1 .. P : chunks[c] \in Seq(FittingItems)
  BY <1>1
<1>3. \A c \in 1 .. P :
        /\ qs[c] \in PageTypes /\ LayoutIsValid(qs[c]) /\ DOMAIN qs[c].slots = DOMAIN chunks[c]
        /\ \A i \in DOMAIN chunks[c] : qs[c].slots[i] = chunks[c][i].row
  <2> TAKE c \in 1 .. P
  <2>1. qs[c] = PageOf(chunks[c])
    BY <1>2 DEF PagesFor
  <2> HIDE DEF qs
  <2> QED BY <1>1, <1>2, <2>1, ChunkPage
<1>4. DOMAIN qs = 1 .. P /\ qs = [c \in 1 .. P |-> qs[c]]
  BY <1>2 DEF PagesFor
<1> HIDE DEF qs
<1>5. qs \in Seq(PageTypes) /\ Len(qs) = P
  <2>1. qs \in [1 .. P -> PageTypes]
    BY <1>3, <1>4
  <2> QED BY <1>1, <2>1
<1>6. PagePlaces(qs) = Places(chunks)
  <2>1. {{c} \X DOMAIN qs[c].slots : c \in 1 .. P} = {{c} \X DOMAIN chunks[c] : c \in 1 .. P}
    BY <1>3
  <2> QED BY <1>2, <1>4, <2>1 DEF PagePlaces, Places
<1>7. \A i \in 1 .. N :
        /\ chunks[home[i][1]][home[i][2]] = items[i]
        /\ qs[home[i][1]].slots[home[i][2]] = items[i].row
  <2> TAKE i \in 1 .. N
  <2>1. home[i] \in Places(chunks)
    BY <1>1 DEF Matches
  <2>2. home[i][1] \in 1 .. P /\ home[i][2] \in DOMAIN chunks[home[i][1]]
    BY <1>2, <2>1 DEF Places
  <2>3. chunks[home[i][1]][home[i][2]] = items[i]
    BY <1>1
  <2> QED BY <1>3, <2>2, <2>3
<1>8. \A c \in 1 .. Len(qs) : LayoutIsValid(qs[c])
  BY <1>3, <1>5
<1>9. /\ qs \in Seq(PageTypes) /\ Len(chunks) = Len(qs) /\ Len(qs) = P
      /\ DOMAIN chunks = 1 .. Len(qs) /\ (N # 0 => Len(qs) # 0)
  BY <1>1, <1>2, <1>5
<1>10. Matches(1 .. N, PagePlaces(qs), home)
  BY <1>1, <1>6
<1> QED BY <1>6, <1>7, <1>8, <1>9, <1>10 DEF chunks, qs, home, P, N

\* The place of the new item among the chunks, as the insertion looks it up.
NewAt(chunks, at) ==
  /\ at[1] = CHOOSE c \in DOMAIN chunks : \E i \in DOMAIN chunks[c] : chunks[c][i].new
  /\ at[2] = CHOOSE i \in DOMAIN chunks[at[1]] : chunks[at[1]][i].new

\* An insertion keeps every slot of its page and adds its row.
LEMMA Relocation ==
    ASSUME NEW p \in PageTypes, LayoutIsValid(p), NEW row \in FittingRows, NEW on,
           IsCut(ItemsWith(p, row), on)
    PROVE  LET items == ItemsWith(p, row)
               chunks == Cut(items, on)
               qs == PagesFor(chunks)
               at == Homes(items, on)[Position(p, Key(row))]
           IN /\ qs \in Seq(PageTypes) /\ Len(qs) # 0 /\ Len(chunks) = Len(qs)
              /\ \A c \in 1 .. Len(qs) : LayoutIsValid(qs[c])
              /\ at \in PagePlaces(qs) /\ qs[at[1]].slots[at[2]] = row
              /\ \E loc : Relocates(p, qs, at, loc)
              /\ NewAt(chunks, at)
<1> DEFINE items == ItemsWith(p, row)
           pos == Position(p, Key(row))
           chunks == Cut(items, on)
           qs == PagesFor(chunks)
           home == Homes(items, on)
           at == home[pos]
           N == Len(items)
           D == DOMAIN p.slots
<1>1. /\ items \in Seq(FittingItems) /\ N = Len(p.slots) + 1
      /\ pos \in 1 .. N /\ items[pos] = RowItem(row, TRUE)
      /\ \A i \in 1 .. N : i # pos => ~ items[i].new
      /\ \E e : KeepsSlots(p, items, pos, e)
  BY ItemsWithFacts
<1> HIDE DEF items, pos
<1>2. /\ qs \in Seq(PageTypes) /\ Len(chunks) = Len(qs) /\ DOMAIN chunks = 1 .. Len(qs)
      /\ N # 0 => Len(qs) # 0
      /\ \A c \in 1 .. Len(qs) : LayoutIsValid(qs[c])
      /\ PagePlaces(qs) = Places(chunks)
      /\ Matches(1 .. N, PagePlaces(qs), home)
      /\ \A i \in 1 .. N :
           /\ chunks[home[i][1]][home[i][2]] = items[i]
           /\ qs[home[i][1]].slots[home[i][2]] = items[i].row
  BY <1>1, CutPages DEF items
<1> HIDE DEF chunks, qs, home, N
<1>3. PICK e : KeepsSlots(p, items, pos, e)
  BY <1>1
<1>4. /\ e \in [D -> (1 .. N) \ {pos}]
      /\ \A x, y \in D : e[x] = e[y] => x = y
      /\ \A i \in (1 .. N) \ {pos} : \E s \in D : e[s] = i
      /\ \A s \in D : items[e[s]].row = p.slots[s]
  BY <1>3 DEF KeepsSlots, Matches, N
<1>5. /\ home \in [1 .. N -> PagePlaces(qs)]
      /\ \A x, y \in 1 .. N : home[x] = home[y] => x = y
      /\ \A z \in PagePlaces(qs) : \E i \in 1 .. N : home[i] = z
  BY <1>2 DEF Matches
<1>6. RowItem(row, TRUE).row = row /\ RowItem(row, TRUE).new = TRUE
  BY RowItems
<1>7. at \in PagePlaces(qs) /\ qs[at[1]].slots[at[2]] = row
  BY <1>1, <1>2, <1>5, <1>6
<1> DEFINE loc == [s \in D |-> home[e[s]]]
<1>8. Relocates(p, qs, at, loc)
  <2>1. \A s \in D : e[s] \in 1 .. N /\ e[s] # pos
    BY <1>4
  <2>2. \A s \in D : home[e[s]] \in PagePlaces(qs) \ {at}
    BY <1>1, <1>5, <2>1
  <2>3. loc \in [D -> PagePlaces(qs) \ {at}] /\ \A s \in D : loc[s] = home[e[s]]
    BY <2>2
  <2> HIDE DEF loc
  <2>4. \A x, y \in D : loc[x] = loc[y] => x = y
    BY <1>4, <1>5, <2>1, <2>3
  <2>5. \A z \in PagePlaces(qs) \ {at} : \E s \in D : loc[s] = z
    <3> TAKE z \in PagePlaces(qs) \ {at}
    <3>1. PICK i \in 1 .. N : home[i] = z
      BY <1>5
    <3>2. i # pos
      BY <3>1
    <3>3. PICK s \in D : e[s] = i
      BY <1>4, <3>2
    <3> QED BY <2>3, <3>1, <3>3
  <2>6. \A s \in D : qs[loc[s][1]].slots[loc[s][2]] = p.slots[s]
    BY <1>2, <1>4, <2>1, <2>3
  <2> QED BY <2>3, <2>4, <2>5, <2>6 DEF Relocates, Matches
<1>9. N # 0
  BY <1>1 DEF PageTypes
<1>10. \A c, i : <<c, i>> \in PagePlaces(qs) <=> c \in DOMAIN chunks /\ i \in DOMAIN chunks[c]
  BY <1>2 DEF Places
<1>11. at = <<at[1], at[2]>> /\ at[1] \in DOMAIN chunks /\ at[2] \in DOMAIN chunks[at[1]]
  <2>1. at = <<at[1], at[2]>>
    BY <1>2, <1>7 DEF Places
  <2> HIDE DEF at
  <2> QED BY <1>7, <1>10, <2>1
<1>12. chunks[at[1]][at[2]].new
  BY <1>1, <1>2, <1>6
<1>13. ASSUME NEW c \in DOMAIN chunks, NEW i \in DOMAIN chunks[c], chunks[c][i].new
       PROVE  c = at[1] /\ i = at[2]
  <2>1. <<c, i>> \in PagePlaces(qs)
    BY <1>10
  <2>2. PICK j \in 1 .. N : home[j] = <<c, i>>
    BY <1>5, <2>1
  <2>3. home[j][1] = c /\ home[j][2] = i
    BY <2>2
  <2>4. items[j].new
    BY <1>2, <1>13, <2>3
  <2>5. j = pos
    BY <1>1, <2>4
  <2> QED BY <2>3, <2>5
<1> HIDE DEF at, loc
<1>14. at[1] = CHOOSE c \in DOMAIN chunks : \E i \in DOMAIN chunks[c] : chunks[c][i].new
  BY <1>11, <1>12, <1>13
<1>15. at[2] = CHOOSE i \in DOMAIN chunks[at[1]] : chunks[at[1]][i].new
  BY <1>11, <1>12, <1>13
<1>16. \E x : Relocates(p, qs, at, x)
  BY <1>8
<1>17. qs \in Seq(PageTypes) /\ Len(qs) # 0 /\ Len(chunks) = Len(qs)
  BY <1>2, <1>9
<1>18. \A c \in 1 .. Len(qs) : LayoutIsValid(qs[c])
  BY <1>2
<1>19. NewAt(chunks, at)
  BY <1>14, <1>15 DEF NewAt
<1> QED BY <1>7, <1>16, <1>17, <1>18, <1>19 DEF items, pos, chunks, qs, home, at

\* The layouts of all pages stay valid.
LEMMA SplitLayouts ==
    ASSUME NEW f, Sound(f), NEW t \in 1 .. Len(f.pages), NEW g,
           NEW qs \in Seq(PageTypes), Len(qs) # 0, SplitInto(f, g, t, qs),
           \A c \in 1 .. Len(qs) : LayoutIsValid(qs[c])
    PROVE  \A m \in DOMAIN g.pages : LayoutIsValid(g.pages[m])
<1> DEFINE n == Len(f.pages)
           by == Len(qs) - 1
<1>1. n \in Nat /\ DOMAIN f.pages = 1 .. n /\ \A m \in 1 .. n : LayoutIsValid(f.pages[m])
  <2>1. f \in FileTypes /\ \A m \in DOMAIN f.pages : LayoutIsValid(f.pages[m])
    BY SoundFacts
  <2>2. n \in Nat /\ DOMAIN f.pages = 1 .. n
    BY <2>1, FileFacts
  <2> QED BY <2>1, <2>2
<1>2. by \in Nat /\ Len(qs) = by + 1
  OBVIOUS
<1>3. t \in Nat \ {0} /\ t <= n
  BY <1>1
<1>4. /\ DOMAIN g.pages = 1 .. (n + by)
      /\ \A m \in 1 .. (t - 1) : g.pages[m] = f.pages[m]
      /\ \A c \in 1 .. Len(qs) : g.pages[(t + c) - 1] = qs[c]
      /\ \A m \in (t + 1) .. n : g.pages[m + by] = f.pages[m]
  BY DEF SplitInto
<1> HIDE DEF n, by
<1> TAKE m \in DOMAIN g.pages
<1>5. m \in 1 .. (n + by)
  BY <1>4
<1>6. CASE m < t
  <2>1. m \in 1 .. (t - 1) /\ m \in 1 .. n
    BY <1>1, <1>2, <1>3, <1>5, <1>6
  <2> QED BY <1>1, <1>4, <2>1
<1>7. CASE m >= t /\ m <= t + by
  <2> DEFINE c == (m - t) + 1
  <2>1. c \in 1 .. (by + 1) /\ (t + c) - 1 = m
    BY <1>2, <1>3, <1>5, <1>7
  <2> HIDE DEF c
  <2>2. g.pages[(t + c) - 1] = qs[c] /\ LayoutIsValid(qs[c])
    BY <1>2, <1>4, <2>1
  <2> QED BY <2>1, <2>2
<1>8. CASE m > t + by
  <2> DEFINE o == m - by
  <2>1. o \in (t + 1) .. n /\ o \in 1 .. n /\ o + by = m
    BY <1>1, <1>2, <1>3, <1>5, <1>8
  <2> HIDE DEF o
  <2>2. g.pages[o + by] = f.pages[o]
    BY <1>4, <2>1
  <2> QED BY <1>1, <2>1, <2>2
<1> QED BY <1>1, <1>2, <1>3, <1>5, <1>6, <1>7, <1>8

LEMMA EmptyFileFacts ==
    ASSUME NEW f \in FileTypes, Len(f.pages) = 0
    PROVE  ActiveRows(f) = 0
<1>1. DOMAIN f.pages = {}
  <2>1. DOMAIN f.pages = 1 .. Len(f.pages)
    BY FileFacts
  <2> QED BY <2>1
<1>2. SlotsOf(f) = {} /\ RidsOf(f) = {}
  BY <1>1 DEF SlotsOf, RidsOf
<1> QED BY <1>2, FS_EmptySet DEF ActiveRows

\* What an insertion into an ordered file writes when it has pages.
LEMMA SplitOfInsertion ==
    ASSUME NEW f, Sound(f), Len(f.pages) # 0, NEW row \in FittingRows
    PROVE  \E on :
             LET t == TargetPage(f, Key(row))
                 p == f.pages[t]
                 chunks == Cut(ItemsWith(p, row), on)
                 qs == PagesFor(chunks)
                 at == Homes(ItemsWith(p, row), on)[Position(p, Key(row))]
             IN /\ IsCut(ItemsWith(p, row), on)
                /\ SequentialWrites(f, row) =
                     SplitWrites(f, t, qs, f.meta.active + 1, f.meta.deleted,
                                 f.meta.pages + (Len(chunks) - 1))
                /\ SequentialRid(f, row) = SlotFrom(t, at)
<1> DEFINE t == TargetPage(f, Key(row))
           p == f.pages[t]
           items == ItemsWith(p, row)
           appending == t = Len(f.pages) /\ Position(p, Key(row)) = Cardinality(Live(p)) + 1
           s == SplitInsertion(f, row)
<1>1. /\ f \in FileTypes /\ \A n \in DOMAIN f.pages : LayoutIsValid(f.pages[n])
  BY SoundFacts
<1>2. t \in DOMAIN f.pages /\ p \in PageTypes /\ LayoutIsValid(p)
  <2>1. t \in DOMAIN f.pages
    BY <1>1, TargetIsAPage
  <2> QED BY <1>1, <2>1, FileFacts
<1>3. items \in Seq(FittingItems) /\ Len(items) # 0
  <2>1. items \in Seq(FittingItems) /\ Len(items) = Len(p.slots) + 1
    BY <1>2, ItemsWithFacts
  <2>2. Len(p.slots) \in Nat
    BY <1>2, PageFacts
  <2> HIDE DEF items
  <2> QED BY <2>1, <2>2
<1>4. PICK on : IsCut(items, on) /\ Partition(items, appending) = Cut(items, on)
  <2> DEFINE b == appending
  <2>1. b \in BOOLEAN
    OBVIOUS
  <2> HIDE DEF b, items
  <2>2. \E on : IsCut(items, on) /\ Partition(items, b) = Cut(items, on)
    BY <1>3, <2>1, PartitionCut
  <2> QED BY <2>2 DEF b
<1> DEFINE chunks == Cut(items, on)
           qs == PagesFor(chunks)
           at == Homes(items, on)[Position(p, Key(row))]
<1>5. s.target = t /\ s.chunks = chunks
  BY <1>4 DEF SplitInsertion
<1>6. Len(chunks) = Len(qs) /\ NewAt(chunks, at)
  <2> HIDE DEF p
  <2>1. p \in PageTypes /\ LayoutIsValid(p) /\ IsCut(ItemsWith(p, row), on)
    BY <1>2, <1>4
  <2> QED BY <2>1, Relocation
<1>7. DOMAIN qs = DOMAIN chunks /\ \A c \in DOMAIN chunks : qs[c] = PageOf(chunks[c])
  BY DEF PagesFor
<1> HIDE DEF chunks, qs, at, s, t
<1>8. SequentialWrites(f, row) =
        SplitWrites(f, t, qs, f.meta.active + 1, f.meta.deleted, f.meta.pages + (Len(chunks) - 1))
  <2>1. [c \in DOMAIN chunks |-> WritePage(t + c - 1, PageOf(chunks[c]))]
          = [c \in DOMAIN qs |-> WritePage(t + c - 1, qs[c])]
    BY <1>7
  <2>2. SequentialWrites(f, row) =
          ShiftSuffix(f, t, Len(chunks) - 1)
            \o [c \in DOMAIN chunks |-> WritePage(t + c - 1, PageOf(chunks[c]))]
            \o <<WriteMeta(f.meta.active + 1, f.meta.deleted, f.meta.pages + (Len(chunks) - 1))>>
    BY <1>5 DEF SequentialWrites, s
  <2> QED BY <1>6, <2>1, <2>2 DEF SplitWrites
<1>9. SequentialRid(f, row) = SlotFrom(t, at)
  <2> DEFINE first == CHOOSE c \in DOMAIN chunks : \E i \in DOMAIN chunks[c] : chunks[c][i].new
  <2> DEFINE From(m, cs) ==
               LET c == CHOOSE c \in DOMAIN cs : \E i \in DOMAIN cs[c] : cs[c][i].new
               IN <<m + c - 1, CHOOSE i \in DOMAIN cs[c] : cs[c][i].new>>
  <2>3. SequentialRid(f, row) = From(s.target, s.chunks)
    BY DEF SequentialRid, s
  <2>4. From(t, chunks) = <<t + first - 1, CHOOSE i \in DOMAIN chunks[first] : chunks[first][i].new>>
    OBVIOUS
  <2>1. SequentialRid(f, row)
          = <<t + first - 1, CHOOSE i \in DOMAIN chunks[first] : chunks[first][i].new>>
    <3> HIDE DEF From, first
    <3> QED BY <1>5, <2>3, <2>4
  <2>2. at[1] = first /\ at[2] = CHOOSE i \in DOMAIN chunks[at[1]] : chunks[at[1]][i].new
    BY <1>6 DEF NewAt
  <2> HIDE DEF first, From
  <2> QED BY <2>1, <2>2 DEF SlotFrom
<1> QED BY <1>4, <1>8, <1>9 DEF t, chunks, qs, at

LEMMA OrderedInsertion ==
    ASSUME NEW f, Sound(f), NEW row \in FittingRows
    PROVE  LET ws == SequentialWrites(f, row)
           IN /\ Stores(f, row, ws) /\ SequentialRid(f, row) \in RidsOf(WriteAll(f, ws))
              /\ RowAt(WriteAll(f, ws), SequentialRid(f, row)) = row
<1> DEFINE ws == SequentialWrites(f, row)
           g == WriteAll(f, ws)
           rid == SequentialRid(f, row)
           n == Len(f.pages)
<1>1. /\ f \in FileTypes /\ n \in Nat /\ DOMAIN f.pages = 1 .. n
      /\ f.meta.active = ActiveRows(f) /\ f.meta.deleted = FreeSlots(f) /\ f.meta.pages = n
      /\ ActiveRows(f) \in Nat /\ FreeSlots(f) \in Nat
  BY SoundFacts, FileFacts
<1>2. CASE n = 0
  <2>1. ActiveRows(f) = 0
    BY <1>1, <1>2, EmptyFileFacts
  <2>2. NextPage(f) = 1 /\ f.meta.active + 1 = 1
    BY <1>1, <1>2, <2>1 DEF NextPage
  <2> DEFINE vs == PageAdded(1, PutRow(EmptyPage, row), 1, f.meta.deleted, 1)
  <2>3. ws = vs
    BY <1>2 DEF SequentialWrites, PageAdded
  <2>4. rid = <<1, 1>>
    BY <1>2 DEF SequentialRid
  <2>5. Stores(f, row, vs) /\ StoresAt(f, row, <<1, 1>>, vs)
    <3>1. LET m == NextPage(f)
              us == PageAdded(m, PutRow(EmptyPage, row), f.meta.active + 1, f.meta.deleted, m)
          IN Stores(f, row, us) /\ StoresAt(f, row, <<m, 1>>, us)
      BY RowOnNewPage
    <3> QED BY <2>2, <3>1
  <2> HIDE DEF vs, ws, rid
  <2>6. rid \in RidsOf(WriteAll(f, ws)) /\ RowAt(WriteAll(f, ws), rid) = row
    BY <2>3, <2>4, <2>5 DEF StoresAt
  <2> QED BY <2>3, <2>5, <2>6 DEF ws, rid
<1>3. CASE n # 0
  <2> DEFINE t == TargetPage(f, Key(row))
             p == f.pages[t]
             items == ItemsWith(p, row)
  <2>1. PICK on :
          LET chunks == Cut(items, on)
              qs == PagesFor(chunks)
              at == Homes(items, on)[Position(p, Key(row))]
          IN /\ IsCut(items, on)
             /\ ws = SplitWrites(f, t, qs, f.meta.active + 1, f.meta.deleted,
                                 f.meta.pages + (Len(chunks) - 1))
             /\ rid = SlotFrom(t, at)
    BY <1>3, SplitOfInsertion
  <2> DEFINE chunks == Cut(items, on)
             qs == PagesFor(chunks)
             at == Homes(items, on)[Position(p, Key(row))]
             a == f.meta.active + 1
             d == f.meta.deleted
             k == f.meta.pages + (Len(chunks) - 1)
             counters == [active |-> a, deleted |-> d, pages |-> k]
  <2>2. t \in DOMAIN f.pages /\ t \in 1 .. n /\ p \in PageTypes /\ LayoutIsValid(p)
    <3>1. t \in 1 .. n /\ t \in DOMAIN f.pages
      BY <1>1, <1>3, TargetIsAPage
    <3>2. p \in PageTypes
      BY <1>1, <3>1, FileFacts
    <3> QED BY <3>1, <3>2, SoundFacts
  <2>3. /\ qs \in Seq(PageTypes) /\ Len(qs) # 0 /\ Len(chunks) = Len(qs)
        /\ \A c \in 1 .. Len(qs) : LayoutIsValid(qs[c])
        /\ at \in PagePlaces(qs) /\ qs[at[1]].slots[at[2]] = row
        /\ \E loc : Relocates(p, qs, at, loc)
    BY <2>1, <2>2, Relocation
  <2>4. ws = SplitWrites(f, t, qs, a, d, k) /\ rid = SlotFrom(t, at)
    BY <2>1
  <2> HIDE DEF ws, rid, t, qs, at, chunks, p, items
  <2>5. a \in Nat /\ d \in Nat /\ k = n + (Len(qs) - 1) /\ a = ActiveRows(f) + 1 /\ d = FreeSlots(f)
    BY <1>1, <2>3
  <2> HIDE DEF a, d, k
  <2>6. /\ SplitResult(f, g, t, qs, counters)
        /\ ActiveRows(g) # ActiveRows(f) =>
             \A h \in FailedWrites(f, ws) : Opens(h) => h = f \/ h = g
    <3>1. a \in Int /\ d \in Int
      BY <2>5
    <3> HIDE DEF counters
    <3> QED BY <2>2, <2>3, <2>4, <2>5, <3>1, SplitDone DEF counters
  <2> HIDE DEF g, counters
  <2>7. /\ SplitInto(f, g, t, qs) /\ Len(g.pages) = n + (Len(qs) - 1)
        /\ g = [pages |-> g.pages, allocated |-> Len(g.pages), meta |-> counters]
        /\ g.pages \in Seq(PageTypes)
    BY <2>6 DEF SplitResult, SplitInto
  <2>8. Len(g.pages) \in Nat /\ Len(g.pages) = k
    BY <2>5, <2>7
  <2>9. g \in FileTypes
    <3>1. counters \in [active : Nat, deleted : Nat, pages : Nat]
      BY <2>5, <2>8 DEF counters
    <3> QED BY <2>7, <2>8, <3>1 DEF FileTypes
  <2>10. rid \in SlotsOf(g) /\ RowAt(g, rid) = row /\ \E h : KeepsRows(f, g, rid, h)
    <3>1. PICK loc : Relocates(p, qs, at, loc)
      BY <2>3
    <3>2. /\ rid \in SlotsOf(g) /\ RowAt(g, rid) = qs[at[1]].slots[at[2]]
          /\ \E h : KeepsRows(f, g, rid, h)
      <4>1. Replaced(f, g, t, qs, at, loc, rid)
        BY <1>1, <2>2, <2>3, <2>4, <2>7, <3>1 DEF Replaced, p
      <4> QED BY ONLY <4>1, SlotsSplit
    <3> QED BY <2>3, <3>2
  <2>11. PICK h : KeepsRows(f, g, rid, h)
    BY <2>10
  <2>12. /\ rid \in RidsOf(g) /\ Contents(g) = Contents(f) (+) SetToBag({row})
         /\ ActiveRows(g) = ActiveRows(f) + 1 /\ FreeSlots(g) = FreeSlots(f)
    BY <1>1, <2>9, <2>10, <2>11, RowsAreNotFree, RowsKept
  <2>13. Sound(g)
    <3> DEFINE ps == g.pages
    <3>1. /\ ps \in Seq(PageTypes) /\ ActiveRows(g) \in Nat /\ FreeSlots(g) \in Nat
          /\ g = [pages |-> ps, allocated |-> Len(ps),
                  meta |-> [active |-> ActiveRows(g), deleted |-> FreeSlots(g), pages |-> Len(ps)]]
      BY <1>1, <2>5, <2>7, <2>8, <2>12 DEF counters
    <3>2. \A m \in DOMAIN ps : LayoutIsValid(ps[m])
      BY <2>2, <2>3, <2>7, SplitLayouts
    <3> HIDE DEF ps
    <3> QED BY <3>1, <3>2, SoundFile
  <2>14. \A e \in FailedWrites(f, ws) : Opens(e) => e = f \/ e = g
    BY <1>1, <2>6, <2>12
  <2>15. Stores(f, row, ws)
    BY <2>12, <2>13, <2>14 DEF Stores, g
  <2> QED BY <2>10, <2>12, <2>15 DEF g, ws, rid
<1> QED BY <1>2, <1>3

-----------------------------------------------------------------------------
(***************************************************************************)
(* Reorganisation: the scan lists every row once, and the file built of it *)
(* holds the same rows.                                                    *)
(***************************************************************************)
ScanOrder(f) == [x \in RidsOf(f) |-> {r \in RidsOf(f) : Precedes(r, x)}]

LEMMA ScanIsOrdered ==
    ASSUME NEW f \in FileTypes
    PROVE  RankOrder(RidsOf(f), ScanOrder(f))
<1> DEFINE A == RidsOf(f)
           below == ScanOrder(f)
<1>1. \A x \in A : x[1] \in Nat /\ x[2] \in Nat /\ x = <<x[1], x[2]>>
  <2> TAKE x \in A
  <2>1. x \in SlotsOf(f)
    BY DEF RidsOf
  <2>2. x = <<x[1], x[2]>> /\ x[1] \in DOMAIN f.pages /\ x[2] \in DOMAIN f.pages[x[1]].slots
    <3>1. x = <<x[1], x[2]>>
      BY <2>1, SlotFacts
    <3>2. <<x[1], x[2]>> \in SlotsOf(f)
      BY <2>1, <3>1
    <3> QED BY <3>1, <3>2, SlotFacts
  <2>3. f.pages[x[1]] \in PageTypes /\ x[1] \in Nat
    BY <2>2, PageNumbers
  <2>4. DOMAIN f.pages[x[1]].slots = 1 .. Len(f.pages[x[1]].slots)
    BY <2>3, PageFacts
  <2> QED BY <2>2, <2>3, <2>4
<1>2. \A x \in A : below[x] = {r \in A : Precedes(r, x)}
  BY DEF ScanOrder
<1> HIDE DEF A, below
<1>3. \A x \in A : Precedes(x, x)
  BY <1>1 DEF Precedes
<1>4. ASSUME NEW x \in A, NEW y \in A, x # y PROVE ~ Precedes(x, y) \/ ~ Precedes(y, x)
  <2>1. x[1] # y[1] \/ x[2] # y[2]
    BY <1>1, <1>4
  <2> QED BY <1>1, <2>1 DEF Precedes
<1>5. ASSUME NEW x \in A, NEW y \in A PROVE Precedes(x, y) \/ Precedes(y, x)
  BY <1>1 DEF Precedes
<1>6. ASSUME NEW x \in A, NEW y \in A, Precedes(x, y) PROVE below[x] \subseteq below[y]
  <2>1. \A r \in A : Precedes(r, x) => Precedes(r, y)
    BY <1>1, <1>6 DEF Precedes
  <2> QED BY <1>2, <2>1
<1>7. \A x, y \in A : x # y => \/ (below[x] \subseteq below[y] /\ y \notin below[x])
                                 \/ (below[y] \subseteq below[x] /\ x \notin below[y])
  BY <1>2, <1>4, <1>5, <1>6
<1>8. \A x \in A : below[x] \subseteq A /\ x \in below[x]
  BY <1>2, <1>3
<1> QED BY <1>7, <1>8 DEF RankOrder, A, below

LEMMA ScanFacts ==
    ASSUME NEW f \in FileTypes
    PROVE  /\ ActiveRows(f) \in Nat /\ DOMAIN Scan(f) = 1 .. ActiveRows(f)
           /\ \E e : /\ Matches(1 .. ActiveRows(f), RidsOf(f), e)
                     /\ \A k \in 1 .. ActiveRows(f) :
                          Scan(f)[k] = <<e[k], RowAt(f, e[k])>> /\ Place(f, e[k]) = k
<1> DEFINE A == RidsOf(f)
           N == ActiveRows(f)
           below == ScanOrder(f)
           e == [k \in 1 .. N |-> CHOOSE s \in A : Cardinality(below[s]) = k]
<1>1. IsFiniteSet(A) /\ RankOrder(A, below) /\ N = Cardinality(A)
  BY FileFacts, ScanIsOrdered DEF ActiveRows
<1>2. \A x \in A : Place(f, x) = Cardinality(below[x])
  BY DEF Place, ScanOrder
<1>3. DOMAIN Scan(f) = 1 .. N
      /\ \A k \in 1 .. N : LET rid == CHOOSE rid \in A : Place(f, rid) = k
                           IN Scan(f)[k] = <<rid, RowAt(f, rid)>>
  BY DEF Scan
<1> HIDE DEF A, below, N
<1>4. e = [k \in 1 .. N |-> CHOOSE s \in A : Cardinality(below[s]) = k]
  OBVIOUS
<1> HIDE DEF e
<1>5. /\ N \in Nat /\ Matches(1 .. N, A, e)
      /\ \A s \in A : Cardinality(below[s]) \in 1 .. N /\ e[Cardinality(below[s])] = s
      /\ \A k \in 1 .. N : e[k] \in A /\ Cardinality(below[e[k]]) = k
  BY <1>1, <1>4, Ranks
<1>6. \A k \in 1 .. N : (CHOOSE rid \in A : Place(f, rid) = k) = e[k]
  <2> TAKE k \in 1 .. N
  <2>1. /\ e[k] \in A /\ Place(f, e[k]) = k
        /\ \A s \in A : Place(f, s) = k => s = e[k]
    BY <1>2, <1>5
  <2> QED BY <2>1
<1>7. \A k \in 1 .. N : Scan(f)[k] = <<e[k], RowAt(f, e[k])>> /\ Place(f, e[k]) = k
  BY <1>2, <1>3, <1>5, <1>6
<1> QED BY <1>3, <1>5, <1>7 DEF A, N

\* h takes each e[k] to d[k].
Carries(B, h, e, d) == \A k \in B : h[e[k]] = d[k]

\* A match and one after it.
LEMMA MatchesCompose ==
    ASSUME NEW A, NEW B, NEW C, NEW d, NEW e, Matches(B, A, e), Matches(B, C, d)
    PROVE  \E h : Matches(A, C, h) /\ Carries(B, h, e, d)
<1> DEFINE h == [x \in A |-> d[CHOOSE k \in B : e[k] = x]]
<1>1. \A x \in A : (CHOOSE k \in B : e[k] = x) \in B /\ e[CHOOSE k \in B : e[k] = x] = x
  BY DEF Matches
<1>2. \A k \in B : e[k] \in A /\ (CHOOSE j \in B : e[j] = e[k]) = k
  BY DEF Matches
<1>3. \A k \in B : h[e[k]] = d[k]
  BY <1>2
<1>4. \A x \in A : \E k \in B : e[k] = x
  BY <1>1
<1>5. DOMAIN h = A /\ h = [x \in A |-> h[x]]
  OBVIOUS
<1> HIDE DEF h
<1>6. h \in [A -> C]
  BY <1>3, <1>4, <1>5 DEF Matches
<1>7. \A x, y \in A : h[x] = h[y] => x = y
  BY <1>3, <1>4 DEF Matches
<1>8. \A z \in C : \E x \in A : h[x] = z
  BY <1>2, <1>3 DEF Matches
<1> QED BY <1>3, <1>6, <1>7, <1>8 DEF Matches, Carries

LEMMA Compaction ==
    ASSUME NEW f, Sound(f)
    PROVE  Sound(Compacted(f)) /\ Contents(Compacted(f)) = Contents(f)
<1> DEFINE N == ActiveRows(f)
           scan == Scan(f)
           items == [i \in DOMAIN scan |-> RowItem(scan[i][2], FALSE)]
           on == FillGreedily(items)
           chunks == Cut(items, on)
           qs == PagesFor(chunks)
           home == Homes(items, on)
           g == Compacted(f)
<1>1. f \in FileTypes /\ N \in Nat /\ DOMAIN scan = 1 .. N
  BY SoundFacts, ScanFacts
<1>2. PICK e : /\ Matches(1 .. N, RidsOf(f), e)
               /\ \A k \in 1 .. N : scan[k] = <<e[k], RowAt(f, e[k])>>
  BY <1>1, ScanFacts
<1>3. \A k \in 1 .. N : e[k] \in RidsOf(f) /\ RowAt(f, e[k]) \in FittingRows
  <2>1. \A k \in 1 .. N : e[k] \in RidsOf(f)
    BY <1>2 DEF Matches
  <2> QED BY <1>1, <2>1, FileFacts
<1>4. \A k \in 1 .. N : scan[k][2] = RowAt(f, e[k])
  BY <1>2
<1>5. g = [pages |-> qs, allocated |-> Len(chunks),
           meta |-> [active |-> N, deleted |-> 0, pages |-> Len(chunks)]]
  BY DEF Compacted, PagesFor
<1> HIDE DEF scan, N
<1>6. /\ DOMAIN items = 1 .. N
      /\ \A k \in 1 .. N : items[k] \in FittingItems /\ items[k].row = RowAt(f, e[k])
  <2>1. \A k \in 1 .. N : items[k] = RowItem(RowAt(f, e[k]), FALSE)
    BY <1>1, <1>4
  <2>2. DOMAIN items = 1 .. N
    BY <1>1
  <2> HIDE DEF items
  <2> QED BY <1>3, <2>1, <2>2, RowItems
<1>7. items \in Seq(FittingItems) /\ Len(items) = N
  <2>1. items = [k \in 1 .. N |-> items[k]]
    BY <1>1
  <2> HIDE DEF items
  <2> QED BY <1>1, <1>6, <2>1
<1> HIDE DEF items
<1>8. IsCut(items, on)
  BY <1>7, GreedyCut
<1> HIDE DEF on
<1>9. /\ qs \in Seq(PageTypes) /\ Len(chunks) = Len(qs)
      /\ \A c \in 1 .. Len(qs) : LayoutIsValid(qs[c])
      /\ Matches(1 .. N, PagePlaces(qs), home)
      /\ \A i \in 1 .. N : qs[home[i][1]].slots[home[i][2]] = items[i].row
  BY <1>7, <1>8, CutPages
<1> HIDE DEF chunks, qs, home
<1>10. g = [pages |-> qs, allocated |-> Len(qs),
            meta |-> [active |-> N, deleted |-> 0, pages |-> Len(qs)]]
  BY <1>5, <1>9
<1> HIDE DEF g
<1>11. g.pages = qs /\ SlotsOf(g) = PagePlaces(qs) /\ \A x : RowAt(g, x) = qs[x[1]].slots[x[2]]
  BY <1>10 DEF SlotsOf, PagePlaces, RowAt
<1>12. Len(qs) \in Nat /\ DOMAIN qs = 1 .. Len(qs)
  BY <1>9
<1>13. g \in FileTypes
  <2>1. [active |-> N, deleted |-> 0, pages |-> Len(qs)] \in [active : Nat, deleted : Nat, pages : Nat]
    BY <1>1, <1>12
  <2> QED BY <1>9, <1>10, <1>12, <2>1 DEF FileTypes
<1>14. \A i \in 1 .. N : home[i] \in SlotsOf(g) /\ RowAt(g, home[i]) = RowAt(f, e[i])
  BY <1>6, <1>9, <1>11 DEF Matches
<1>15. RidsOf(g) = SlotsOf(g)
  <2>1. ASSUME NEW x \in SlotsOf(g) PROVE RowAt(g, x) # Free
    <3>1. PICK i \in 1 .. N : home[i] = x
      BY <1>9, <1>11 DEF Matches
    <3> QED BY <1>3, <1>14, <3>1, RowsAreNotFree
  <2> QED BY <2>1 DEF RidsOf
<1>16. PICK h : Matches(RidsOf(f), RidsOf(g), h) /\ Carries(1 .. N, h, e, home)
  <2>1. Matches(1 .. N, RidsOf(f), e) /\ Matches(1 .. N, RidsOf(g), home)
    BY <1>2, <1>9, <1>11, <1>15
  <2> QED BY ONLY <2>1, MatchesCompose
<1>17. \A x \in RidsOf(f) : RowAt(g, h[x]) = RowAt(f, x)
  <2> TAKE x \in RidsOf(f)
  <2>1. PICK k \in 1 .. N : e[k] = x
    BY <1>2 DEF Matches
  <2> QED BY <1>14, <1>16, <2>1 DEF Carries
<1>18. Contents(g) = Contents(f) /\ ActiveRows(g) = N
  BY <1>1, <1>13, <1>16, <1>17, RowsMoved DEF N
<1>19. FreeSlots(g) = 0
  <2>1. SlotsOf(g) \ RidsOf(g) = {}
    BY <1>15
  <2> QED BY <2>1, FS_EmptySet DEF FreeSlots
<1>20. Sound(g)
  <2>1. /\ ActiveRows(g) \in Nat /\ FreeSlots(g) \in Nat
        /\ g = [pages |-> qs, allocated |-> Len(qs),
                meta |-> [active |-> ActiveRows(g), deleted |-> FreeSlots(g), pages |-> Len(qs)]]
    BY <1>1, <1>10, <1>18, <1>19
  <2>2. \A n \in DOMAIN qs : LayoutIsValid(qs[n])
    BY <1>9, <1>12
  <2> QED BY <1>9, <2>1, <2>2, SoundFile
<1> QED BY <1>18, <1>20 DEF g

-----------------------------------------------------------------------------
(***************************************************************************)
(* The order of the keys in an ordered file, and its binary search.        *)
(***************************************************************************)
KeyAt(f, rid) == Key(RowAt(f, rid))

\* No larger key precedes a smaller one.
InKeyOrder(f) ==
  \A x, y \in RidsOf(f) : Precedes(x, y) => KeyAt(f, x) <= KeyAt(f, y)

\* The parts of an identifier, and its row.
LEMMA RidFacts ==
    ASSUME NEW f \in FileTypes, NEW x \in RidsOf(f)
    PROVE  /\ x = <<x[1], x[2]>> /\ x[1] \in DOMAIN f.pages /\ x[2] \in Live(f.pages[x[1]])
           /\ x[1] \in Nat \ {0} /\ x[1] <= Len(f.pages) /\ x[2] \in Nat \ {0}
           /\ f.pages[x[1]] \in PageTypes /\ RowAt(f, x) = f.pages[x[1]].slots[x[2]]
           /\ RowAt(f, x) \in FittingRows /\ KeyAt(f, x) \in Nat
<1>1. x = <<x[1], x[2]>> /\ x \in RidsOf(f)
  BY RidsArePairs
<1>2. x[1] \in DOMAIN f.pages /\ x[2] \in Live(f.pages[x[1]])
  BY <1>1, SlotFacts
<1>3. f.pages[x[1]] \in PageTypes /\ x[1] \in Nat \ {0} /\ x[1] <= Len(f.pages)
  BY <1>2, PageNumbers
<1>4. x[2] \in Nat \ {0}
  BY <1>2, <1>3, PageFacts
<1>5. RowAt(f, x) \in FittingRows
  BY FileFacts
<1>6. KeyAt(f, x) \in Nat
  BY <1>5 DEF KeyAt, Key, FittingRows
<1> QED BY <1>1, <1>2, <1>3, <1>4, <1>5, <1>6 DEF RowAt

\* The last key up to a page is the largest there.
LEMMA LastKeys ==
    ASSUME NEW f \in FileTypes, InKeyOrder(f), NEW n \in 0 .. Len(f.pages)
    PROVE  LET k == LastKeyUpTo(f, n)
           IN \/ k = NoKey /\ \A x \in RidsOf(f) : x[1] > n
              \/ /\ k \in Nat /\ \E x \in RidsOf(f) : x[1] <= n /\ KeyAt(f, x) = k
                 /\ \A x \in RidsOf(f) : x[1] <= n => KeyAt(f, x) <= k
<1> DEFINE filled == {i \in 1 .. n : Live(f.pages[i]) # {}}
           k == LastKeyUpTo(f, n)
<1>1. /\ Len(f.pages) \in Nat /\ n \in Nat /\ n <= Len(f.pages)
      /\ \A i \in 1 .. n : i \in DOMAIN f.pages
  BY FileFacts
<1>2. \A x \in RidsOf(f) : x[1] <= n => x[1] \in filled
  <2> TAKE x \in RidsOf(f)
  <2> HAVE x[1] <= n
  <2>1. x[1] \in Nat \ {0} /\ x[2] \in Live(f.pages[x[1]])
    BY RidFacts
  <2> QED BY <1>1, <2>1
<1>3. CASE filled = {}
  <2>1. k = NoKey
    BY <1>3 DEF LastKeyUpTo
  <2>2. \A x \in RidsOf(f) : x[1] > n
    BY <1>1, <1>2, <1>3, RidFacts
  <2> QED BY <2>1, <2>2
<1>4. CASE filled # {}
  <2> DEFINE m == Max(filled)
             p == f.pages[m]
             s == Max(Live(p))
  <2>1. m \in filled /\ \A i \in filled : i <= m
    <3>1. filled \in SUBSET Nat /\ n \in Nat /\ \A i \in filled : i <= n
      BY <1>1
    <3> HIDE DEF filled
    <3> QED BY <1>4, <3>1, Maximum
  <2>2. m \in DOMAIN f.pages /\ m \in Nat /\ m <= n /\ Live(p) # {} /\ p \in PageTypes
    <3> HIDE DEF m
    <3>1. m \in DOMAIN f.pages /\ m \in Nat /\ m <= n /\ Live(f.pages[m]) # {}
      BY <1>1, <2>1
    <3> QED BY <3>1, PageNumbers
  <2>3. s \in Live(p) /\ \A j \in Live(p) : j <= s
    <3> HIDE DEF p
    <3>1. Live(p) \in SUBSET Nat /\ IsFiniteSet(Live(p))
      BY <2>2, PageFacts
    <3> QED BY <2>2, <3>1, FiniteMaximum
  <2>4. k = Key(p.slots[s])
    <3>1. k = PageLastKey(p)
      BY <1>4 DEF LastKeyUpTo
    <3> HIDE DEF p
    <3> QED BY <2>2, <3>1 DEF PageLastKey
  <2> DEFINE y == <<m, s>>
  <2> HIDE DEF k, m, s
  <2>5. y \in RidsOf(f) /\ y[1] = m /\ y[2] = s /\ KeyAt(f, y) = k
    BY <2>2, <2>3, <2>4, SlotFacts DEF KeyAt
  <2> HIDE DEF p
  <2> HIDE DEF y
  <2>6. KeyAt(f, y) \in Nat
    BY <2>5, RidFacts
  <2>7. \A x \in RidsOf(f) : x[1] <= n => KeyAt(f, x) <= k
    <3> TAKE x \in RidsOf(f)
    <3> HAVE x[1] <= n
    <3>1. x[1] \in filled /\ x[2] \in Live(f.pages[x[1]]) /\ x[1] \in Nat
      BY <1>2, RidFacts
    <3>2. x[1] <= m
      BY <2>1, <3>1
    <3>3. x[1] = m => x[2] <= s
      BY <2>3, <3>1 DEF p
    <3>4. Precedes(x, y)
      BY <2>2, <2>5, <3>1, <3>2, <3>3 DEF Precedes
    <3> QED BY <2>5, <3>4 DEF InKeyOrder
  <2>8. \E x \in RidsOf(f) : x[1] <= n /\ KeyAt(f, x) = k
    BY <2>2, <2>5
  <2> QED BY <2>5, <2>6, <2>7, <2>8 DEF k
<1> QED BY <1>3, <1>4

\* The rows behind a key: with a larger one, or an equal one too.
Behind(f, key, strict) ==
  {x \in RidsOf(f) : KeyAt(f, x) > key \/ (KeyAt(f, x) = key /\ ~ strict)}

\* A page passes when a row up to it is behind the key.
LEMMA PassingPages ==
    ASSUME NEW f \in FileTypes, InKeyOrder(f), NEW n \in 1 .. Len(f.pages), NEW key \in Nat,
           NEW strict \in BOOLEAN
    PROVE  Passes(f, n, key, strict) <=> \E x \in Behind(f, key, strict) : x[1] <= n
<1> DEFINE k == LastKeyUpTo(f, n)
<1>1. \/ k = NoKey /\ \A x \in RidsOf(f) : x[1] > n
      \/ /\ k \in Nat /\ \E x \in RidsOf(f) : x[1] <= n /\ KeyAt(f, x) = k
         /\ \A x \in RidsOf(f) : x[1] <= n => KeyAt(f, x) <= k
  <2>1. n \in 0 .. Len(f.pages)
    OBVIOUS
  <2> QED BY <2>1, LastKeys
<1>2. Passes(f, n, key, strict) <=> k # NoKey /\ (k > key \/ (k = key /\ ~ strict))
  BY DEF Passes
<1>3. \A x \in RidsOf(f) : KeyAt(f, x) \in Nat /\ x[1] \in Nat
  BY RidFacts
<1>4. n \in Nat
  BY FileFacts
<1>5. \A j \in Nat : j # NoKey
  BY DEF NoKey
<1> HIDE DEF k
<1>6. CASE k = NoKey /\ \A x \in RidsOf(f) : x[1] > n
  BY <1>2, <1>3, <1>4, <1>6 DEF Behind
<1>7. CASE /\ k \in Nat /\ \E x \in RidsOf(f) : x[1] <= n /\ KeyAt(f, x) = k
           /\ \A x \in RidsOf(f) : x[1] <= n => KeyAt(f, x) <= k
  <2>1. ASSUME k > key \/ (k = key /\ ~ strict)
        PROVE  \E x \in Behind(f, key, strict) : x[1] <= n
    BY <1>7, <2>1 DEF Behind
  <2>2. ASSUME NEW x \in Behind(f, key, strict), x[1] <= n
        PROVE  k > key \/ (k = key /\ ~ strict)
    <3>1. x \in RidsOf(f) /\ (KeyAt(f, x) > key \/ (KeyAt(f, x) = key /\ ~ strict))
      BY DEF Behind
    <3>2. KeyAt(f, x) <= k /\ KeyAt(f, x) \in Nat
      BY <1>3, <1>7, <2>2, <3>1
    <3> QED BY <1>7, <3>1, <3>2
  <2> QED BY <1>2, <1>5, <1>7, <2>1, <2>2
<1> QED BY <1>1, <1>6, <1>7

\* The search ends at the first page with a row behind the key.
LEMMA FirstPageFacts ==
    ASSUME NEW f \in FileTypes, InKeyOrder(f), NEW key \in Nat, NEW strict \in BOOLEAN
    PROVE  LET m == FirstPage(f, key, strict)
           IN /\ m \in 1 .. (Len(f.pages) + 1)
              /\ \A x \in Behind(f, key, strict) : m <= x[1]
              /\ m <= Len(f.pages) => \E x \in Behind(f, key, strict) : x[1] <= m
<1> DEFINE m == FirstPage(f, key, strict)
           N == Len(f.pages)
           B == Behind(f, key, strict)
<1>1. N \in Nat
  BY FileFacts
<1>2. \A n \in 1 .. N : Passes(f, n, key, strict) <=> \E x \in B : x[1] <= n
  BY PassingPages
<1>3. \A x \in B : x[1] \in 1 .. N
  <2> TAKE x \in B
  <2>1. x \in RidsOf(f)
    BY DEF Behind
  <2> QED BY <1>1, <2>1, RidFacts
<1>4. m \in 1 .. (N + 1) /\ (PassesOnwards(f, key, strict) => Between(f, key, strict, m, m))
  BY SearchEnds
<1> HIDE DEF m, B, N
<1>5. PassesOnwards(f, key, strict)
  <2> SUFFICES ASSUME NEW i \in 1 .. N, NEW n \in 1 .. N, i <= n, Passes(f, i, key, strict)
               PROVE  Passes(f, n, key, strict)
    BY DEF PassesOnwards, N
  <2>1. PICK x \in B : x[1] <= i
    BY <1>2
  <2>2. x[1] <= n
    BY <1>1, <1>3, <2>1
  <2> QED BY <1>2, <2>2
<1>6. \A n \in 1 .. N : /\ n < m => ~ Passes(f, n, key, strict)
                        /\ n >= m => Passes(f, n, key, strict)
  BY <1>4, <1>5 DEF Between, N
<1>7. \A x \in B : m <= x[1]
  <2> TAKE x \in B
  <2>1. x[1] \in 1 .. N /\ x[1] \in Nat /\ x[1] <= x[1]
    BY <1>1, <1>3
  <2>2. Passes(f, x[1], key, strict)
    BY <1>2, <2>1
  <2> QED BY <1>1, <1>4, <1>6, <2>1, <2>2
<1>8. m <= N => \E x \in B : x[1] <= m
  <2> HAVE m <= N
  <2>1. m \in 1 .. N /\ m >= m
    BY <1>1, <1>4
  <2> QED BY <1>2, <1>6, <2>1
<1> QED BY <1>4, <1>7, <1>8 DEF m, B, N

\* The page for a key has no larger key before it and no other behind it.
LEMMA TargetFacts ==
    ASSUME NEW f \in FileTypes, InKeyOrder(f), Len(f.pages) # 0, NEW key \in Nat
    PROVE  LET t == TargetPage(f, key)
           IN /\ t \in 1 .. Len(f.pages) /\ t \in DOMAIN f.pages
              /\ \A x \in RidsOf(f) : x[1] < t => KeyAt(f, x) <= key
              /\ \A x \in RidsOf(f) : x[1] > t => KeyAt(f, x) > key
<1> DEFINE m == FirstPage(f, key, TRUE)
           N == Len(f.pages)
           t == TargetPage(f, key)
           B == {m, N}
<1>1. N \in Nat /\ t \in 1 .. N /\ t \in DOMAIN f.pages
  BY FileFacts, TargetIsAPage
<1>2. /\ m \in 1 .. (N + 1)
      /\ \A x \in Behind(f, key, TRUE) : m <= x[1]
      /\ m <= N => \E x \in Behind(f, key, TRUE) : x[1] <= m
  BY FirstPageFacts
<1>3. t = Min(B)
  BY DEF TargetPage
<1> HIDE DEF m, t, N
<1>4. t \in B /\ \A x \in B : t <= x
  <2>1. B \in SUBSET Nat /\ B # {}
    BY <1>1, <1>2
  <2> HIDE DEF B
  <2> QED BY <1>3, <2>1, Minimum
<1>5. (t = m \/ t = N) /\ t <= m
  BY <1>4
<1>6. \A x : x \in Behind(f, key, TRUE) <=> x \in RidsOf(f) /\ KeyAt(f, x) > key
  BY DEF Behind
<1>7. \A x \in RidsOf(f) : KeyAt(f, x) \in Nat /\ x[1] \in Nat /\ x[1] <= N
  BY RidFacts DEF N
<1>8. ASSUME NEW x \in RidsOf(f), x[1] < t PROVE KeyAt(f, x) <= key
  <2>1. ~ (m <= x[1])
    BY <1>1, <1>2, <1>5, <1>7, <1>8
  <2>2. ~ (KeyAt(f, x) > key)
    BY <1>2, <1>6, <2>1
  <2> QED BY <1>7, <2>2
<1>9. ASSUME NEW x \in RidsOf(f), x[1] > t PROVE KeyAt(f, x) > key
  <2>1. t = m /\ m <= N
    BY <1>1, <1>5, <1>7, <1>9
  <2>2. PICK y \in RidsOf(f) : KeyAt(f, y) > key /\ y[1] <= m
    BY <1>2, <1>6, <2>1
  <2>3. y[1] < x[1]
    BY <1>1, <1>7, <1>9, <2>1, <2>2
  <2>4. KeyAt(f, y) <= KeyAt(f, x)
    BY <2>3 DEF InKeyOrder, Precedes
  <2> QED BY <1>7, <2>2, <2>4
<1> QED BY <1>1, <1>8, <1>9 DEF t, N

\* The scan lists the rows in the order of pages and slots.
Lists(f, e) ==
  /\ Matches(1 .. ActiveRows(f), RidsOf(f), e)
  /\ \A k \in 1 .. ActiveRows(f) : Scan(f)[k] = <<e[k], RowAt(f, e[k])>>
  /\ \A j, k \in 1 .. ActiveRows(f) : j <= k => Precedes(e[j], e[k])

\* Every file has such a list.
LEMMA ScanLists ==
    ASSUME NEW f \in FileTypes
    PROVE  \E e : Lists(f, e)
<1> DEFINE N == ActiveRows(f)
           A == RidsOf(f)
           below(x) == {r \in A : Precedes(r, x)}
<1>1. PICK e : /\ Matches(1 .. N, A, e)
               /\ \A k \in 1 .. N : Scan(f)[k] = <<e[k], RowAt(f, e[k])>> /\ Place(f, e[k]) = k
  BY ScanFacts
<1>2. N \in Nat /\ IsFiniteSet(A)
  BY ScanFacts, FileFacts
<1>3. \A x \in A : x[1] \in Nat /\ x[2] \in Nat
  BY RidFacts
<1>4. \A k \in 1 .. N : e[k] \in A /\ Cardinality(below(e[k])) = k
  BY <1>1 DEF Matches, Place
<1> HIDE DEF N, A
<1>5. ASSUME NEW j \in 1 .. N, NEW k \in 1 .. N, j <= k, ~ Precedes(e[j], e[k]) PROVE FALSE
  <2> DEFINE x == e[j]
             y == e[k]
  <2>1. x \in A /\ y \in A /\ ~ Precedes(x, y)
    BY <1>4, <1>5
  <2> HIDE DEF x, y
  <2>2. \A r \in A : Precedes(r, y) => Precedes(r, x)
    BY <1>3, <2>1 DEF Precedes
  <2>3. Precedes(x, x)
    BY <1>3, <2>1 DEF Precedes
  <2>4. below(y) \subseteq below(x) /\ below(x) # below(y) /\ below(x) \subseteq A
    BY <2>1, <2>2, <2>3
  <2>5. Cardinality(below(x)) = j /\ Cardinality(below(y)) = k
    BY <1>4 DEF x, y
  <2> HIDE DEF below
  <2>6. IsFiniteSet(below(x))
    BY <1>2, <2>4, FS_Subset
  <2>7. k <= j /\ k # j
    BY <2>4, <2>5, <2>6, FS_Subset
  <2> QED BY <1>2, <1>5, <2>7
<1>6. Lists(f, e)
  BY <1>1, <1>5 DEF Lists, N, A
<1> QED BY <1>6

\* What the scan lists: every row, with its identifier and its key.
LEMMA ScanKeys ==
    ASSUME NEW f \in FileTypes, NEW e, Lists(f, e)
    PROVE  /\ ActiveRows(f) \in Nat /\ DOMAIN Scan(f) = 1 .. ActiveRows(f)
           /\ Len(Scan(f)) = ActiveRows(f)
           /\ \A k \in DOMAIN Scan(f) : /\ e[k] \in RidsOf(f) /\ Scan(f)[k][1] = e[k]
                                        /\ Key(Scan(f)[k][2]) = KeyAt(f, e[k])
           /\ \A x \in RidsOf(f) : \E k \in DOMAIN Scan(f) : e[k] = x
<1> DEFINE N == ActiveRows(f)
           s == Scan(f)
<1>1. N \in Nat /\ DOMAIN s = 1 .. N
  BY ScanFacts
<1>2. \A k \in 1 .. N : e[k] \in RidsOf(f) /\ s[k] = <<e[k], RowAt(f, e[k])>>
  BY DEF Lists, Matches
<1>3. \A x \in RidsOf(f) : \E k \in 1 .. N : e[k] = x
  BY DEF Lists, Matches
<1>4. Len(s) = N
  <2> DEFINE v(k) == LET rid == CHOOSE rid \in RidsOf(f) : Place(f, rid) = k
                     IN <<rid, RowAt(f, rid)>>
  <2>1. s = [k \in 1 .. N |-> v(k)]
    BY DEF Scan
  <2> HIDE DEF s, N, v
  <2> QED BY <1>1, <2>1
<1> HIDE DEF s, N
<1>5. \A k \in 1 .. N : s[k][1] = e[k] /\ Key(s[k][2]) = KeyAt(f, e[k])
  BY <1>2 DEF KeyAt
<1> QED BY <1>1, <1>2, <1>3, <1>4, <1>5 DEF s, N

\* The scan of a file in key order is sorted.
LEMMA ScanIsSorted ==
    ASSUME NEW f \in FileTypes, InKeyOrder(f)
    PROVE  IsOrdered(f)
<1>1. PICK e : Lists(f, e)
  BY ScanLists
<1> DEFINE s == Scan(f)
           N == ActiveRows(f)
<1>2. /\ N \in Nat /\ Len(s) = N
      /\ \A k \in 1 .. N : e[k] \in RidsOf(f) /\ Key(s[k][2]) = KeyAt(f, e[k])
  BY <1>1, ScanKeys
<1>3. \A j, k \in 1 .. N : j <= k => Precedes(e[j], e[k])
  BY <1>1 DEF Lists
<1> HIDE DEF s, N
<1>4. \A i \in 1 .. (N - 1) : Key(s[i][2]) <= Key(s[i + 1][2])
  <2> TAKE i \in 1 .. (N - 1)
  <2>1. i \in 1 .. N /\ i + 1 \in 1 .. N /\ i <= i + 1
    BY <1>2
  <2> QED BY <1>2, <1>3, <2>1 DEF InKeyOrder
<1> QED BY <1>2, <1>4 DEF IsOrdered, s

\* The search finds what the scan has.
LEMMA SearchFinds ==
    ASSUME NEW f \in FileTypes, InKeyOrder(f), NEW key \in Nat
    PROVE  SearchKey(f, key) = EntriesAt(Scan(f), {i \in DOMAIN Scan(f) : Key(Scan(f)[i][2]) = key})
<1>1. PICK e : Lists(f, e)
  BY ScanLists
<1> DEFINE s == Scan(f)
           D == DOMAIN Scan(f)
           m == FirstPage(f, key, FALSE)
           from == {i \in D : s[i][1][1] >= m}
           read == {i \in from : \A j \in from : j <= i => Key(s[j][2]) <= key}
           A == {i \in read : Key(s[i][2]) = key}
           B == {i \in D : Key(s[i][2]) = key}
<1>2. SearchKey(f, key) = EntriesAt(s, A)
  BY DEF SearchKey
<1>3. \A k \in D : e[k] \in RidsOf(f) /\ s[k][1] = e[k] /\ Key(s[k][2]) = KeyAt(f, e[k])
  BY <1>1, ScanKeys
<1>4. \A j, k \in D : j <= k => Precedes(e[j], e[k])
  BY <1>1, ScanKeys DEF Lists
<1>5. \A x \in Behind(f, key, FALSE) : m <= x[1]
  BY FirstPageFacts
<1>9. m \in Nat
  <2>1. m \in 1 .. (Len(f.pages) + 1)
    BY FirstPageFacts
  <2> HIDE DEF m
  <2> QED BY <2>1
<1>10. \A x \in RidsOf(f) : x[1] \in Nat
  BY RidFacts
<1> HIDE DEF s, D, m
<1>6. ASSUME NEW i \in B PROVE i \in A
  <2>1. i \in D /\ KeyAt(f, e[i]) = key
    BY <1>3
  <2>2. e[i] \in Behind(f, key, FALSE)
    BY <1>3, <2>1 DEF Behind
  <2>3. i \in from
    BY <1>3, <1>5, <1>9, <1>10, <2>1, <2>2
  <2>4. \A j \in from : j <= i => Key(s[j][2]) <= key
    BY <1>3, <1>4, <2>1 DEF InKeyOrder
  <2> QED BY <2>3, <2>4
<1>7. \A i \in A : i \in B
  OBVIOUS
<1>8. A = B
  BY <1>6, <1>7
<1> QED BY <1>2, <1>8 DEF s, D

\* The look-up of an equal key finds it on any page.
LEMMA HasKeyFinds ==
    ASSUME NEW f \in FileTypes, InKeyOrder(f), NEW key \in Nat
    PROVE  HasKey(f, key) <=> \E x \in RidsOf(f) : KeyAt(f, x) = key
<1> DEFINE N == Len(f.pages)
           t == TargetPage(f, key)
           k == LastKeyUpTo(f, t - 1)
<1>1. N \in Nat /\ DOMAIN f.pages = 1 .. N
  BY FileFacts
<1>2. HasKey(f, key) <=>
        N > 0 /\ ((\E s \in Live(f.pages[t]) : Key(f.pages[t].slots[s]) = key) \/ k = key)
  BY DEF HasKey
<1>3. \A x \in RidsOf(f) : /\ x[1] \in Nat /\ x[1] \in 1 .. N /\ KeyAt(f, x) \in Nat
                           /\ x[2] \in Live(f.pages[x[1]])
                           /\ KeyAt(f, x) = Key(f.pages[x[1]].slots[x[2]])
  BY RidFacts DEF KeyAt
<1>4. CASE N = 0
  BY <1>1, <1>2, <1>3, <1>4
<1>5. CASE N # 0
  <2>1. /\ t \in 1 .. N /\ t \in DOMAIN f.pages
        /\ \A x \in RidsOf(f) : x[1] < t => KeyAt(f, x) <= key
        /\ \A x \in RidsOf(f) : x[1] > t => KeyAt(f, x) > key
    BY <1>5, TargetFacts
  <2> HIDE DEF t
  <2>2. \/ k = NoKey /\ \A x \in RidsOf(f) : x[1] > t - 1
        \/ /\ k \in Nat /\ \E x \in RidsOf(f) : x[1] <= t - 1 /\ KeyAt(f, x) = k
           /\ \A x \in RidsOf(f) : x[1] <= t - 1 => KeyAt(f, x) <= k
    <3>1. t - 1 \in 0 .. Len(f.pages)
      BY <1>1, <2>1
    <3> QED BY <3>1, LastKeys
  <2> HIDE DEF k, N
  <2>3. ASSUME NEW x \in RidsOf(f), KeyAt(f, x) = key PROVE HasKey(f, key)
    <3>1. x[1] <= t
      BY <1>1, <1>3, <2>1, <2>3
    <3>2. CASE x[1] = t
      BY <1>1, <1>2, <1>3, <1>5, <2>3, <3>2
    <3>3. CASE x[1] < t
      <4>1. x[1] <= t - 1 /\ ~ (x[1] > t - 1)
        BY <1>1, <1>3, <2>1, <3>3
      <4>2. PICK y \in RidsOf(f) : y[1] <= t - 1 /\ KeyAt(f, y) = k /\ key <= k
        BY <2>2, <2>3, <4>1
      <4>3. y[1] < t
        BY <1>1, <1>3, <2>1, <4>2
      <4>4. k <= key /\ k \in Nat
        BY <1>3, <2>1, <4>2, <4>3
      <4> QED BY <1>1, <1>2, <1>5, <4>2, <4>4
    <3> QED BY <1>1, <1>3, <2>1, <3>1, <3>2, <3>3
  <2>4. ASSUME HasKey(f, key) PROVE \E x \in RidsOf(f) : KeyAt(f, x) = key
    <3>1. CASE k = key
      <4>1. k # NoKey
        BY <3>1 DEF NoKey
      <4> QED BY <2>2, <3>1, <4>1
    <3>2. CASE \E s \in Live(f.pages[t]) : Key(f.pages[t].slots[s]) = key
      <4>1. PICK s \in Live(f.pages[t]) : Key(f.pages[t].slots[s]) = key
        BY <3>2
      <4>2. <<t, s>> \in RidsOf(f) /\ KeyAt(f, <<t, s>>) = key
        BY <2>1, <4>1, SlotFacts DEF KeyAt
      <4> QED BY <4>2
    <3> QED BY <1>2, <2>4, <3>1, <3>2
  <2> QED BY <2>3, <2>4
<1> QED BY <1>4, <1>5

\* The rows of a page lie in the order of their keys.
PageInOrder(p) ==
  \A s, t \in Live(p) : s <= t => Key(p.slots[s]) <= Key(p.slots[t])

\* The rows before the position of a key are those up to it.
LEMMA Positions ==
    ASSUME NEW p \in PageTypes, PageInOrder(p), NEW key \in Nat
    PROVE  LET K == Cardinality(Live(p))
           IN /\ \A k \in 1 .. K : k < Position(p, key) <=> Key(PageRows(p)[k]) <= key
              /\ \A j, k \in 1 .. K : j <= k => Key(PageRows(p)[j]) <= Key(PageRows(p)[k])
<1> DEFINE A == Live(p)
           K == Cardinality(A)
           B == {s \in A : Key(p.slots[s]) <= key}
           pos == Position(p, key)
           below(s) == {t \in A : t <= s}
           rows == PageRows(p)
<1>1. /\ K \in Nat
      /\ \A s \in A : Rank(p, s) \in 1 .. K /\ rows[Rank(p, s)] = p.slots[s]
      /\ \A k \in 1 .. K : \E s \in A : Rank(p, s) = k
  BY PageRowFacts
<1>2. A \in SUBSET Nat /\ IsFiniteSet(A) /\ \A s \in A : Key(p.slots[s]) \in Nat
  BY PageFacts DEF FittingRows, Key
<1>3. pos = Cardinality(B) + 1 /\ \A s \in A : Rank(p, s) = Cardinality(below(s))
  BY DEF Position, Rank
<1>4. \A s \in A : IsFiniteSet(below(s)) /\ below(s) \subseteq A
  <2>1. \A s \in A : below(s) \subseteq A
    OBVIOUS
  <2> HIDE DEF below
  <2> QED BY <1>2, <2>1, FS_Subset
<1>5. IsFiniteSet(B) /\ Cardinality(B) \in Nat /\ B \subseteq A
  <2>1. B \subseteq A
    OBVIOUS
  <2> HIDE DEF B
  <2> QED BY <1>2, <2>1, FS_Subset, FS_CardinalityType
<1>6. \A s, t \in A : s <= t => Key(p.slots[s]) <= Key(p.slots[t])
  BY DEF PageInOrder
<1> HIDE DEF A, K, pos, rows
<1>7. ASSUME NEW s \in A, Key(p.slots[s]) <= key PROVE Rank(p, s) < pos
  <2>1. \A t \in below(s) : t \in B
    BY <1>2, <1>6, <1>7
  <2> HIDE DEF B, below
  <2>2. Cardinality(below(s)) <= Cardinality(B)
    BY <1>5, <2>1, FS_Subset
  <2>3. Rank(p, s) \in Nat
    BY <1>1
  <2> QED BY <1>3, <1>5, <2>2, <2>3
<1>8. ASSUME NEW s \in A, ~ (Key(p.slots[s]) <= key) PROVE ~ (Rank(p, s) < pos)
  <2>1. B \subseteq below(s) /\ s \in below(s) /\ s \notin B
    <3>1. \A t \in B : t \in A /\ Key(p.slots[t]) <= key
      OBVIOUS
    <3>2. \A t \in B : t \in below(s)
      BY <1>2, <1>6, <1>8, <3>1
    <3>3. s \in below(s)
      BY <1>2
    <3>4. s \notin B
      BY <1>8
    <3> QED BY <3>2, <3>3, <3>4
  <2> HIDE DEF B, below
  <2>2. Cardinality(B) <= Cardinality(below(s)) /\ Cardinality(B) # Cardinality(below(s))
    BY <1>4, <2>1, FS_Subset
  <2>3. Rank(p, s) \in Nat
    BY <1>1
  <2> QED BY <1>3, <1>5, <2>2, <2>3
<1>9. ASSUME NEW s \in A, NEW t \in A, Rank(p, s) <= Rank(p, t) PROVE s <= t
  <2> SUFFICES ASSUME ~ (s <= t) PROVE FALSE
    OBVIOUS
  <2>1. below(t) \subseteq below(s) /\ s \in below(s) /\ s \notin below(t)
    BY <1>2
  <2> HIDE DEF below
  <2>2. Cardinality(below(t)) <= Cardinality(below(s)) /\ Cardinality(below(t)) # Cardinality(below(s))
    BY <1>4, <2>1, FS_Subset
  <2>3. Rank(p, s) \in Nat /\ Rank(p, t) \in Nat
    BY <1>1
  <2> QED BY <1>3, <1>9, <2>2, <2>3
<1> HIDE DEF B, below
<1>10. \A k \in 1 .. K : k < pos <=> Key(rows[k]) <= key
  <2> TAKE k \in 1 .. K
  <2>1. PICK s \in A : Rank(p, s) = k
    BY <1>1
  <2>2. rows[k] = p.slots[s]
    BY <1>1, <2>1
  <2> QED BY <1>7, <1>8, <2>1, <2>2
<1>11. \A j, k \in 1 .. K : j <= k => Key(rows[j]) <= Key(rows[k])
  <2> TAKE j, k \in 1 .. K
  <2> HAVE j <= k
  <2>1. PICK s \in A : Rank(p, s) = j
    BY <1>1
  <2>2. PICK t \in A : Rank(p, t) = k
    BY <1>1
  <2>3. rows[j] = p.slots[s] /\ rows[k] = p.slots[t]
    BY <1>1, <2>1, <2>2
  <2> QED BY <1>6, <1>9, <2>1, <2>2, <2>3
<1> QED BY <1>10, <1>11 DEF A, K, pos, rows

\* The new row among the others: the items with a row are in key order.
ItemsAreOrdered(items) ==
  \A i, j \in 1 .. Len(items) :
    i <= j /\ items[i].row # Free /\ items[j].row # Free => Key(items[i].row) <= Key(items[j].row)

LEMMA ItemsInOrder ==
    ASSUME NEW p \in PageTypes, LayoutIsValid(p), PageInOrder(p), NEW row \in FittingRows
    PROVE  ItemsAreOrdered(ItemsWith(p, row))
<1> DEFINE K == Cardinality(Live(p))
           N == Len(p.slots) - K
           old == [i \in DOMAIN PageRows(p) |-> RowItem(PageRows(p)[i], FALSE)]
           key == Key(row)
           pos == Position(p, key)
           new == RowItem(row, TRUE)
           t == InsertAt(old, pos, new)
           u == RetainedHoles(p)
           items == ItemsWith(p, row)
           rows == PageRows(p)
<1>1. /\ K \in Nat /\ pos \in 1 .. (K + 1)
      /\ t \in Seq(FittingItems) /\ Len(t) = K + 1 /\ t[pos] = new
      /\ \A j \in 1 .. K : j < pos => t[j] = RowItem(rows[j], FALSE)
      /\ \A j \in 1 .. K : j >= pos => t[j + 1] = RowItem(rows[j], FALSE)
  BY RowsWith
<1>2. u \in Seq(FittingItems) /\ Len(u) = N /\ \A i \in 1 .. N : u[i].row = Free
  <2>1. LayoutIsValid(p)
    OBVIOUS
  <2> QED BY <2>1, RetainedFacts
<1>3. N \in Nat
  BY FreeSlotRanks
<1>4. items = t \o u
  BY DEF ItemsWith
<1>5. \A k \in 1 .. K : rows[k] \in FittingRows
  BY PageRowFacts
<1>6. key \in Nat /\ \A r \in FittingRows : Key(r) \in Nat
  BY DEF FittingRows, Key
<1>7. /\ \A k \in 1 .. K : k < pos <=> Key(rows[k]) <= key
      /\ \A j, k \in 1 .. K : j <= k => Key(rows[j]) <= Key(rows[k])
  <2>1. key \in Nat
    BY <1>6
  <2> HIDE DEF key
  <2> QED BY <2>1, Positions
<1>8. new.row = row /\ \A r \in FittingRows : RowItem(r, FALSE).row = r
  BY RowItems
<1> HIDE DEF t, u, items, new, pos, K, N, rows
<1>9. /\ items \in Seq(FittingItems) /\ Len(items) = Len(t) + Len(u)
      /\ \A i \in 1 .. Len(t) : items[i] = t[i]
      /\ \A i \in 1 .. Len(u) : items[Len(t) + i] = u[i]
  <2>1. /\ t \o u \in Seq(FittingItems) /\ Len(t \o u) = Len(t) + Len(u)
        /\ \A i \in 1 .. Len(t) : (t \o u)[i] = t[i]
        /\ \A i \in 1 .. Len(u) : (t \o u)[Len(t) + i] = u[i]
    <3>1. t \in Seq(FittingItems) /\ u \in Seq(FittingItems)
      BY <1>1, <1>2
    <3> QED BY ONLY <3>1, Concatenated
  <2> QED BY <1>4, <2>1
<1>10. \A i \in 1 .. Len(items) : i \notin 1 .. (K + 1) => items[i].row = Free
  <2> TAKE i \in 1 .. Len(items)
  <2> HAVE i \notin 1 .. (K + 1)
  <2>1. i - (K + 1) \in 1 .. N /\ (K + 1) + (i - (K + 1)) = i
    BY <1>1, <1>2, <1>3, <1>9
  <2> QED BY <1>1, <1>2, <1>9, <2>1
<1> DEFINE k(i) == Key(items[i].row)
<1>11. items[pos].row = row /\ k(pos) = key
  BY <1>1, <1>8, <1>9
<1>12. \A i \in 1 .. (K + 1) : i < pos => i \in 1 .. K /\ k(i) = Key(rows[i]) /\ k(i) <= key
  <2> TAKE i \in 1 .. (K + 1)
  <2> HAVE i < pos
  <2>1. i \in 1 .. K
    BY <1>1
  <2>2. items[i].row = rows[i]
    BY <1>1, <1>5, <1>8, <1>9, <2>1
  <2> QED BY <1>7, <2>1, <2>2
<1>13. \A i \in 1 .. (K + 1) : i > pos =>
         i - 1 \in 1 .. K /\ k(i) = Key(rows[i - 1]) /\ ~ (k(i) <= key) /\ k(i) \in Nat
  <2> TAKE i \in 1 .. (K + 1)
  <2> HAVE i > pos
  <2>1. i - 1 \in 1 .. K /\ i - 1 >= pos /\ (i - 1) + 1 = i /\ ~ (i - 1 < pos)
    BY <1>1
  <2>2. items[i].row = rows[i - 1]
    <3>1. t[(i - 1) + 1] = RowItem(rows[i - 1], FALSE)
      BY <1>1, <2>1
    <3>2. t[i] = RowItem(rows[i - 1], FALSE) /\ items[i] = t[i]
      BY <1>1, <1>9, <2>1, <3>1
    <3> QED BY <1>5, <1>8, <2>1, <3>2
  <2>3. ~ (Key(rows[i - 1]) <= key) /\ Key(rows[i - 1]) \in Nat
    BY <1>5, <1>6, <1>7, <2>1
  <2> QED BY <2>1, <2>2, <2>3
<1> HIDE DEF k, key
<1>14. ASSUME NEW i \in 1 .. (K + 1), NEW j \in 1 .. (K + 1), i <= j PROVE k(i) <= k(j)
  <2>1. CASE j < pos
    <3>1. i < pos
      BY <1>1, <1>14, <2>1
    <3>2. Key(rows[i]) <= Key(rows[j])
      BY <1>7, <1>12, <1>14, <2>1, <3>1
    <3> QED BY <1>12, <2>1, <3>1, <3>2
  <2>2. CASE i > pos
    <3>1. j > pos
      BY <1>1, <1>14, <2>2
    <3>2. i - 1 <= j - 1
      BY <1>1, <1>14
    <3>3. Key(rows[i - 1]) <= Key(rows[j - 1])
      BY <1>7, <1>13, <2>2, <3>1, <3>2
    <3> QED BY <1>13, <2>2, <3>1, <3>3
  <2>3. CASE i <= pos /\ j >= pos
    <3>1. k(i) <= key
      BY <1>1, <1>6, <1>11, <1>12, <2>3
    <3>2. key <= k(j)
      BY <1>1, <1>6, <1>11, <1>13, <2>3
    <3>3. i = pos \/ i < pos
      BY <1>1, <2>3
    <3>4. k(i) \in Nat
      <4>1. CASE i = pos
        BY <1>6, <1>11, <4>1
      <4>2. CASE i < pos
        BY <1>5, <1>6, <1>12, <4>2
      <4> QED BY <3>3, <4>1, <4>2
    <3>5. k(j) \in Nat
      <4>1. CASE j = pos
        BY <1>6, <1>11, <4>1
      <4>2. CASE j > pos
        BY <1>13, <4>2
      <4> QED BY <1>1, <2>3, <4>1, <4>2
    <3> QED BY <1>6, <3>1, <3>2, <3>4, <3>5
  <2> QED BY <1>1, <1>14, <2>1, <2>2, <2>3
<1> SUFFICES ASSUME NEW i \in 1 .. Len(items), NEW j \in 1 .. Len(items), i <= j,
                    items[i].row # Free, items[j].row # Free
             PROVE  Key(items[i].row) <= Key(items[j].row)
  BY DEF ItemsAreOrdered, items
<1> QED BY <1>10, <1>14 DEF k

\* The rows on a sequence of pages are in key order.
PlacesInOrder(qs) ==
  \A x, y \in PagePlaces(qs) :
    LET a == qs[x[1]].slots[x[2]]
        b == qs[y[1]].slots[y[2]]
    IN Precedes(x, y) /\ a # Free /\ b # Free => Key(a) <= Key(b)

\* Items in key order give pages in key order.
LEMMA CutInOrder ==
    ASSUME NEW items \in Seq(FittingItems), NEW on, IsCut(items, on), ItemsAreOrdered(items)
    PROVE  PlacesInOrder(PagesFor(Cut(items, on)))
<1> DEFINE qs == PagesFor(Cut(items, on))
           home == Homes(items, on)
           N == Len(items)
           first(i) == Min(Owned(on, on[i]))
<1>1. /\ N \in Nat /\ on \in [1 .. N -> Nat \ {0}]
      /\ \A i, j \in 1 .. N : i <= j => on[i] <= on[j]
  BY DEF IsCut
<1>2. /\ Matches(1 .. N, PagePlaces(qs), home)
      /\ \A i \in 1 .. N : qs[home[i][1]].slots[home[i][2]] = items[i].row
  BY CutPages
<1>3. \A i \in 1 .. N : home[i] = <<on[i], (i - first(i)) + 1>>
  BY DEF Homes, Home
<1>4. \A i \in 1 .. N : first(i) \in Nat
  <2> TAKE i \in 1 .. N
  <2> DEFINE S == Owned(on, on[i])
  <2>1. i \in S /\ S \in SUBSET Nat
    BY <1>1 DEF Owned
  <2> HIDE DEF S
  <2>2. Min(S) \in S
    BY <2>1, Minimum
  <2> QED BY <2>1, <2>2 DEF S
<1>5. \A i, j \in 1 .. N : on[i] = on[j] => first(i) = first(j)
  OBVIOUS
<1> HIDE DEF home, first, qs, N
<1>6. ASSUME NEW i \in 1 .. N, NEW j \in 1 .. N, Precedes(home[i], home[j]) PROVE i <= j
  <2> SUFFICES ASSUME ~ (i <= j) PROVE FALSE
    OBVIOUS
  <2>1. on[j] <= on[i] /\ on[i] \in Nat /\ on[j] \in Nat
    BY <1>1
  <2>2. on[i] < on[j] \/ (on[i] = on[j] /\ (i - first(i)) + 1 <= (j - first(j)) + 1)
    BY <1>3, <1>6 DEF Precedes
  <2>3. on[i] = on[j] /\ (i - first(i)) + 1 <= (j - first(i)) + 1
    BY <1>5, <2>1, <2>2
  <2>4. first(i) \in Nat
    BY <1>4
  <2> QED BY <1>1, <2>3, <2>4
<1>7. ASSUME NEW x \in PagePlaces(qs), NEW y \in PagePlaces(qs), Precedes(x, y),
             qs[x[1]].slots[x[2]] # Free, qs[y[1]].slots[y[2]] # Free
      PROVE  Key(qs[x[1]].slots[x[2]]) <= Key(qs[y[1]].slots[y[2]])
  <2>1. PICK i \in 1 .. N : home[i] = x
    BY <1>2 DEF Matches
  <2>2. PICK j \in 1 .. N : home[j] = y
    BY <1>2 DEF Matches
  <2>3. i <= j
    BY <1>6, <1>7, <2>1, <2>2
  <2>4. qs[x[1]].slots[x[2]] = items[i].row /\ qs[y[1]].slots[y[2]] = items[j].row
    BY <1>2, <2>1, <2>2
  <2> QED BY <1>7, <2>3, <2>4 DEF ItemsAreOrdered, N
<1> QED BY <1>7 DEF PlacesInOrder, qs

\* Page t of f becomes the pages qs of g, whose rows are its own and the new one.
SplitOf(f, g, t, qs, row) ==
  /\ f \in FileTypes /\ g \in FileTypes /\ t \in DOMAIN f.pages
  /\ qs \in Seq(PageTypes) /\ Len(qs) # 0 /\ SplitInto(f, g, t, qs)
  /\ \A x \in PagePlaces(qs) :
       LET r == qs[x[1]].slots[x[2]]
       IN r = Free \/ r = row \/ \E s \in Live(f.pages[t]) : f.pages[t].slots[s] = r

\* Where a row of g is: before, on or behind the pages qs.
PlaceOn(t, z) == <<(z[1] - t) + 1, z[2]>>
IsBefore(f, g, t, z) == z[1] < t /\ z \in RidsOf(f) /\ KeyAt(g, z) = KeyAt(f, z)
IsOn(g, t, qs, z) ==
  /\ t <= z[1] /\ z[1] <= t + (Len(qs) - 1) /\ PlaceOn(t, z) \in PagePlaces(qs)
  /\ RowAt(g, z) = qs[PlaceOn(t, z)[1]].slots[PlaceOn(t, z)[2]] /\ RowAt(g, z) # Free
IsAfter(f, g, t, qs, z) ==
  LET x == <<z[1] - (Len(qs) - 1), z[2]>>
  IN x[1] > t /\ x \in RidsOf(f) /\ KeyAt(g, z) = KeyAt(f, x)

\* Every row of g is in one of the three.
LEMMA SplitZones ==
    ASSUME NEW f, NEW g, NEW t, NEW qs, NEW row, SplitOf(f, g, t, qs, row), NEW z \in RidsOf(g)
    PROVE  IsBefore(f, g, t, z) \/ IsOn(g, t, qs, z) \/ IsAfter(f, g, t, qs, z)
<1> DEFINE by == Len(qs) - 1
           n == Len(f.pages)
           m == z[1]
           s == z[2]
<1>1. /\ f \in FileTypes /\ g \in FileTypes /\ qs \in Seq(PageTypes) /\ Len(qs) # 0
      /\ t \in DOMAIN f.pages /\ SplitInto(f, g, t, qs)
  BY DEF SplitOf
<1>2. n \in Nat /\ DOMAIN f.pages = 1 .. n /\ by \in Nat /\ t \in 1 .. n /\ DOMAIN qs = 1 .. (by + 1)
  BY <1>1, FileFacts
<1>3. /\ z = <<m, s>> /\ m \in DOMAIN g.pages /\ s \in Live(g.pages[m])
      /\ RowAt(g, z) = g.pages[m].slots[s] /\ RowAt(g, z) # Free
  BY <1>1, RidFacts, RowsAreNotFree
<1>4. /\ DOMAIN g.pages = 1 .. (n + by)
      /\ \A i \in 1 .. (t - 1) : g.pages[i] = f.pages[i]
      /\ \A c \in 1 .. (by + 1) : g.pages[(t + c) - 1] = qs[c]
      /\ \A i \in (t + 1) .. n : g.pages[i + by] = f.pages[i]
  <2>1. Len(qs) = by + 1
    BY <1>1
  <2> QED BY <1>1, <2>1 DEF SplitInto
<1> HIDE DEF by, n, m, s
<1>5. CASE m < t
  <2>1. m \in DOMAIN f.pages /\ g.pages[m] = f.pages[m]
    <3>1. m \in 1 .. (n + by)
      BY <1>3, <1>4
    <3>2. m \in 1 .. (t - 1) /\ m \in 1 .. n
      BY <1>2, <1>5, <3>1
    <3> QED BY <1>2, <1>4, <3>2
  <2>2. z \in RidsOf(f) /\ RowAt(f, z) = f.pages[m].slots[s]
    BY <1>1, <1>3, <2>1, SlotFacts
  <2> QED BY <1>3, <1>5, <2>1, <2>2 DEF IsBefore, KeyAt, m
<1>6. CASE t <= m /\ m <= t + by
  <2> DEFINE c == (m - t) + 1
  <2>1. c \in 1 .. (by + 1) /\ (t + c) - 1 = m
    BY <1>2, <1>3, <1>4, <1>6
  <2> HIDE DEF c
  <2>2. g.pages[m] = qs[c]
    BY <1>4, <2>1
  <2>3. s \in DOMAIN qs[c].slots
    BY <1>3, <2>2 DEF Live
  <2>4. <<c, s>> \in PagePlaces(qs)
    BY <1>2, <2>1, <2>3 DEF PagePlaces
  <2>5. PlaceOn(t, z) = <<c, s>>
    BY DEF PlaceOn, c, m, s
  <2>6. PlaceOn(t, z)[1] = c /\ PlaceOn(t, z)[2] = s
    BY <2>5
  <2> QED BY <1>3, <1>6, <2>2, <2>4, <2>5, <2>6 DEF IsOn, m, by
<1>7. CASE m > t + by
  <2> DEFINE i == m - by
  <2>1. i \in (t + 1) .. n /\ i \in DOMAIN f.pages /\ i + by = m /\ i > t
    BY <1>2, <1>3, <1>4, <1>7
  <2>2. <<z[1] - (Len(qs) - 1), z[2]>> = <<i, s>>
    BY DEF m, by, s
  <2> HIDE DEF i
  <2>3. g.pages[m] = f.pages[i]
    BY <1>4, <2>1
  <2>4. <<i, s>> \in RidsOf(f) /\ RowAt(f, <<i, s>>) = f.pages[i].slots[s]
    BY <1>1, <1>3, <2>1, <2>3, SlotFacts
  <2>5. KeyAt(g, z) = KeyAt(f, <<i, s>>)
    BY <1>3, <2>3, <2>4 DEF KeyAt
  <2> QED BY <2>1, <2>2, <2>4, <2>5 DEF IsAfter
<1> QED BY <1>2, <1>3, <1>4, <1>5, <1>6, <1>7

\* The rows on the pages qs lie between those before and those behind them.
LEMMA SplitBounds ==
    ASSUME NEW f, NEW g, NEW t, NEW qs, NEW row \in FittingRows, SplitOf(f, g, t, qs, row),
           InKeyOrder(f), t = TargetPage(f, Key(row)), NEW z, IsOn(g, t, qs, z)
    PROVE  /\ KeyAt(g, z) \in Nat
           /\ \A x \in RidsOf(f) : /\ x[1] < t => KeyAt(f, x) <= KeyAt(g, z)
                                   /\ x[1] > t => KeyAt(g, z) <= KeyAt(f, x)
<1> DEFINE key == Key(row)
           r == RowAt(g, z)
<1>1. f \in FileTypes /\ t \in DOMAIN f.pages /\ f.pages # <<>>
  BY DEF SplitOf
<1>2. r = row \/ \E s \in Live(f.pages[t]) : f.pages[t].slots[s] = r
  BY DEF SplitOf, IsOn
<1>3. key \in Nat
  BY DEF FittingRows, Key
<1>4. Len(f.pages) # 0 /\ t \in Nat
  BY <1>1, FileFacts
<1>5. /\ \A x \in RidsOf(f) : x[1] < t => KeyAt(f, x) <= key
      /\ \A x \in RidsOf(f) : x[1] > t => KeyAt(f, x) > key
  BY <1>1, <1>3, <1>4, TargetFacts
<1>6. \A x \in RidsOf(f) : KeyAt(f, x) \in Nat /\ x[1] \in Nat
  BY <1>1, RidFacts
<1>7. KeyAt(g, z) = Key(r)
  BY DEF KeyAt
<1> HIDE DEF r, key
<1>8. CASE r = row
  BY <1>3, <1>5, <1>6, <1>7, <1>8 DEF key
<1>9. CASE \E s \in Live(f.pages[t]) : f.pages[t].slots[s] = r
  <2>1. PICK s \in Live(f.pages[t]) : f.pages[t].slots[s] = r
    BY <1>9
  <2> DEFINE y == <<t, s>>
  <2>2. y \in RidsOf(f) /\ y[1] = t /\ KeyAt(f, y) = Key(r)
    BY <1>1, <2>1, SlotFacts DEF KeyAt
  <2> HIDE DEF y
  <2>3. \A x \in RidsOf(f) : /\ x[1] < t => KeyAt(f, x) <= KeyAt(f, y)
                             /\ x[1] > t => KeyAt(f, y) <= KeyAt(f, x)
    BY <1>4, <1>6, <2>2 DEF InKeyOrder, Precedes
  <2> QED BY <1>6, <1>7, <2>2, <2>3
<1> QED BY <1>2, <1>8, <1>9

\* A split keeps the order.
LEMMA SplitInOrder ==
    ASSUME NEW f, NEW g, NEW t, NEW qs, NEW row \in FittingRows, SplitOf(f, g, t, qs, row),
           InKeyOrder(f), t = TargetPage(f, Key(row)), PlacesInOrder(qs)
    PROVE  InKeyOrder(g)
<1> DEFINE by == Len(qs) - 1
           on(z) == PlaceOn(t, z)
           was(z) == <<z[1] - by, z[2]>>
<1>1. /\ f \in FileTypes /\ g \in FileTypes /\ t \in Nat /\ by \in Nat
  <2>1. f \in FileTypes /\ g \in FileTypes /\ t \in DOMAIN f.pages /\ qs \in Seq(PageTypes) /\ Len(qs) # 0
    BY DEF SplitOf
  <2>2. t \in Nat
    BY <2>1, PageNumbers
  <2>3. by \in Nat
    BY <2>1
  <2> QED BY <2>1, <2>2, <2>3
<1>2. \A z \in RidsOf(g) : IsBefore(f, g, t, z) \/ IsOn(g, t, qs, z) \/ IsAfter(f, g, t, qs, z)
  BY SplitZones
<1>3. \A z \in RidsOf(g) : z[1] \in Nat /\ z[2] \in Nat /\ KeyAt(g, z) \in Nat
  BY <1>1, RidFacts
<1>4. \A z : IsOn(g, t, qs, z) =>
        \A x \in RidsOf(f) : /\ x[1] < t => KeyAt(f, x) <= KeyAt(g, z)
                             /\ x[1] > t => KeyAt(g, z) <= KeyAt(f, x)
  BY SplitBounds
<1>5. \A z : IsAfter(f, g, t, qs, z) =>
        was(z)[1] > t /\ was(z) \in RidsOf(f) /\ KeyAt(g, z) = KeyAt(f, was(z)) /\ z[1] - by > t
  BY DEF IsAfter
<1>6. \A z : IsBefore(f, g, t, z) => z[1] < t /\ z \in RidsOf(f) /\ KeyAt(g, z) = KeyAt(f, z)
  BY DEF IsBefore
<1>7. \A z : IsOn(g, t, qs, z) => t <= z[1] /\ z[1] <= t + by
  BY DEF IsOn
<1> SUFFICES ASSUME NEW z \in RidsOf(g), NEW w \in RidsOf(g), Precedes(z, w)
             PROVE  KeyAt(g, z) <= KeyAt(g, w)
  BY DEF InKeyOrder
<1>8. z[1] < w[1] \/ (z[1] = w[1] /\ z[2] <= w[2])
  BY DEF Precedes
<1> HIDE DEF by
<1>9. CASE IsBefore(f, g, t, z) /\ IsBefore(f, g, t, w)
  BY <1>6, <1>9 DEF InKeyOrder
<1>10. CASE IsBefore(f, g, t, z) /\ IsOn(g, t, qs, w)
  BY <1>4, <1>6, <1>10
<1>11. CASE IsBefore(f, g, t, z) /\ IsAfter(f, g, t, qs, w)
  <2> DEFINE x == was(w)
  <2>1. z \in RidsOf(f) /\ z[1] < t /\ KeyAt(g, z) = KeyAt(f, z)
    BY <1>6, <1>11
  <2>2. x[1] > t /\ x \in RidsOf(f) /\ KeyAt(g, w) = KeyAt(f, x) /\ x[1] \in Nat
    BY <1>1, <1>3, <1>5, <1>11, RidFacts
  <2> HIDE DEF x
  <2>3. Precedes(z, x)
    BY <1>1, <1>3, <2>1, <2>2 DEF Precedes
  <2> QED BY <2>1, <2>2, <2>3 DEF InKeyOrder
<1>12. CASE IsOn(g, t, qs, z) /\ IsOn(g, t, qs, w)
  <2> DEFINE a == on(z)
             b == on(w)
  <2>1. /\ a \in PagePlaces(qs) /\ RowAt(g, z) = qs[a[1]].slots[a[2]] /\ RowAt(g, z) # Free
        /\ b \in PagePlaces(qs) /\ RowAt(g, w) = qs[b[1]].slots[b[2]] /\ RowAt(g, w) # Free
    BY <1>12 DEF IsOn
  <2>2. Precedes(a, b)
    <3>1. a[1] = (z[1] - t) + 1 /\ a[2] = z[2] /\ b[1] = (w[1] - t) + 1 /\ b[2] = w[2]
      BY DEF PlaceOn
    <3> HIDE DEF a, b
    <3> QED BY <1>1, <1>3, <1>8, <3>1 DEF Precedes
  <2> HIDE DEF a, b
  <2> QED BY <2>1, <2>2 DEF PlacesInOrder, KeyAt
<1>13. CASE IsOn(g, t, qs, z) /\ IsAfter(f, g, t, qs, w)
  BY <1>4, <1>5, <1>13
<1>14. CASE IsAfter(f, g, t, qs, z) /\ IsAfter(f, g, t, qs, w)
  <2> DEFINE x == was(z)
             y == was(w)
  <2>1. x \in RidsOf(f) /\ KeyAt(g, z) = KeyAt(f, x) /\ y \in RidsOf(f) /\ KeyAt(g, w) = KeyAt(f, y)
    BY <1>5, <1>14
  <2>2. x[1] = z[1] - by /\ x[2] = z[2] /\ y[1] = w[1] - by /\ y[2] = w[2]
    OBVIOUS
  <2> HIDE DEF x, y
  <2>3. Precedes(x, y)
    BY <1>1, <1>3, <1>8, <2>2 DEF Precedes
  <2> QED BY <2>1, <2>3 DEF InKeyOrder
<1>15. ~ (IsOn(g, t, qs, z) /\ IsBefore(f, g, t, w))
  BY <1>1, <1>3, <1>6, <1>7, <1>8
<1>16. IsAfter(f, g, t, qs, z) => z[1] > t + by
  <2> HAVE IsAfter(f, g, t, qs, z)
  <2>1. z[1] - by > t
    BY <1>5
  <2> QED BY <1>1, <1>3, <2>1
<1>17. ~ (IsAfter(f, g, t, qs, z) /\ IsBefore(f, g, t, w))
  BY <1>1, <1>3, <1>6, <1>8, <1>16
<1>18. ~ (IsAfter(f, g, t, qs, z) /\ IsOn(g, t, qs, w))
  BY <1>1, <1>3, <1>7, <1>8, <1>16
<1> QED BY <1>2, <1>9, <1>10, <1>11, <1>12, <1>13, <1>14, <1>15, <1>17, <1>18

\* The pages of an ordered file are in order.
LEMMA PagesInOrder ==
    ASSUME NEW f \in FileTypes, InKeyOrder(f), NEW t \in DOMAIN f.pages
    PROVE  PageInOrder(f.pages[t])
<1> SUFFICES ASSUME NEW r \in Live(f.pages[t]), NEW s \in Live(f.pages[t]), r <= s
             PROVE  Key(f.pages[t].slots[r]) <= Key(f.pages[t].slots[s])
  BY DEF PageInOrder
<1> DEFINE x == <<t, r>>
           y == <<t, s>>
<1>1. x \in RidsOf(f) /\ y \in RidsOf(f)
  BY SlotFacts
<1>2. /\ KeyAt(f, x) = Key(f.pages[t].slots[r]) /\ KeyAt(f, y) = Key(f.pages[t].slots[s])
      /\ x[1] = t /\ x[2] = r /\ y[1] = t /\ y[2] = s
  BY <1>1, SlotFacts DEF KeyAt
<1> HIDE DEF x, y
<1>3. Precedes(x, y)
  BY <1>2 DEF Precedes
<1> QED BY <1>1, <1>2, <1>3 DEF InKeyOrder

\* An insertion into an ordered file keeps the order.
LEMMA OrderedInsertionKeepsOrder ==
    ASSUME NEW f, Sound(f), InKeyOrder(f), NEW row \in FittingRows
    PROVE  InKeyOrder(WriteAll(f, SequentialWrites(f, row)))
<1> DEFINE ws == SequentialWrites(f, row)
           g == WriteAll(f, ws)
           n == Len(f.pages)
<1>1. /\ f \in FileTypes /\ n \in Nat /\ DOMAIN f.pages = 1 .. n
      /\ f.meta.active = ActiveRows(f) /\ f.meta.deleted = FreeSlots(f) /\ f.meta.pages = n
      /\ ActiveRows(f) \in Nat /\ FreeSlots(f) \in Nat
  BY SoundFacts, FileFacts
<1>2. g \in FileTypes
  <2>1. Stores(f, row, ws)
    BY OrderedInsertion
  <2> HIDE DEF ws
  <2>2. Sound(g)
    BY <2>1 DEF Stores
  <2> HIDE DEF g
  <2> QED BY <2>2, SoundFacts
<1>3. ASSUME n = 0 PROVE InKeyOrder(g)
  <2>1. ActiveRows(f) = 0
    BY <1>1, <1>3, EmptyFileFacts
  <2>2. NextPage(f) = 1 /\ f.meta.active + 1 = 1
    BY <1>1, <1>3, <2>1 DEF NextPage
  <2> DEFINE vs == PageAdded(1, PutRow(EmptyPage, row), 1, f.meta.deleted, 1)
  <2>3. ws = vs
    BY <1>3 DEF SequentialWrites, PageAdded
  <2>4. StoresAt(f, row, <<1, 1>>, vs)
    <3>1. LET m == NextPage(f)
              us == PageAdded(m, PutRow(EmptyPage, row), f.meta.active + 1, f.meta.deleted, m)
          IN Stores(f, row, us) /\ StoresAt(f, row, <<m, 1>>, us)
      BY RowOnNewPage
    <3> QED BY <2>2, <3>1
  <2> HIDE DEF vs, ws
  <2>5. RidsOf(f) = {}
    <3>1. DOMAIN f.pages = {}
      BY <1>1, <1>3
    <3> QED BY <3>1 DEF SlotsOf, RidsOf
  <2>6. RidsOf(g) = {<<1, 1>>}
    BY <2>3, <2>4, <2>5 DEF StoresAt
  <2>7. \A x \in RidsOf(g) : KeyAt(g, x) \in Nat
    BY <1>2, RidFacts
  <2> HIDE DEF g
  <2> QED BY <2>6, <2>7 DEF InKeyOrder
<1>4. ASSUME n # 0 PROVE InKeyOrder(g)
  <2> DEFINE t == TargetPage(f, Key(row))
             p == f.pages[t]
             items == ItemsWith(p, row)
  <2>1. PICK on :
          LET chunks == Cut(items, on)
              qs == PagesFor(chunks)
          IN /\ IsCut(items, on)
             /\ ws = SplitWrites(f, t, qs, f.meta.active + 1, f.meta.deleted,
                                 f.meta.pages + (Len(chunks) - 1))
    BY <1>4, SplitOfInsertion
  <2> DEFINE chunks == Cut(items, on)
             qs == PagesFor(chunks)
             at == Homes(items, on)[Position(p, Key(row))]
             a == f.meta.active + 1
             d == f.meta.deleted
             k == f.meta.pages + (Len(chunks) - 1)
             counters == [active |-> a, deleted |-> d, pages |-> k]
  <2>2. t \in DOMAIN f.pages /\ t \in 1 .. n /\ p \in PageTypes /\ LayoutIsValid(p)
    <3>1. t \in 1 .. n /\ t \in DOMAIN f.pages
      BY <1>1, <1>4, TargetIsAPage
    <3>2. p \in PageTypes
      BY <1>1, <3>1, FileFacts
    <3> QED BY <3>1, <3>2, SoundFacts
  <2>3. /\ qs \in Seq(PageTypes) /\ Len(qs) # 0 /\ Len(chunks) = Len(qs)
        /\ \A c \in 1 .. Len(qs) : LayoutIsValid(qs[c])
        /\ qs[at[1]].slots[at[2]] = row
        /\ \E loc : Relocates(p, qs, at, loc)
    BY <2>1, <2>2, Relocation
  <2>4. PlacesInOrder(qs)
    <3>1. PageInOrder(p)
      BY <1>1, <2>2, PagesInOrder
    <3> HIDE DEF p
    <3>2. items \in Seq(FittingItems) /\ ItemsAreOrdered(items)
      BY <2>2, <3>1, ItemsWithFacts, ItemsInOrder
    <3>3. IsCut(items, on)
      BY <2>1 DEF p
    <3> HIDE DEF items
    <3> QED BY <3>2, <3>3, CutInOrder
  <2>5. ws = SplitWrites(f, t, qs, a, d, k)
    BY <2>1
  <2>6. t = TargetPage(f, Key(row))
    OBVIOUS
  <2> HIDE DEF ws, t, qs, at, chunks, p, items
  <2>7. a \in Nat /\ d \in Nat /\ k = n + (Len(qs) - 1) /\ a = ActiveRows(f) + 1 /\ d = FreeSlots(f)
    BY <1>1, <2>3
  <2> HIDE DEF a, d, k
  <2>8. SplitInto(f, g, t, qs)
    <3>1. a \in Int /\ d \in Int
      BY <2>7
    <3> HIDE DEF counters
    <3>2. SplitResult(f, g, t, qs, counters)
      BY <2>2, <2>3, <2>5, <2>7, <3>1, SplitDone DEF counters
    <3> QED BY <3>2 DEF SplitResult
  <2>9. \A x \in PagePlaces(qs) :
          LET r == qs[x[1]].slots[x[2]]
          IN r = Free \/ r = row \/ \E s \in Live(p) : p.slots[s] = r
    <3>1. PICK loc : Relocates(p, qs, at, loc)
      BY <2>3
    <3> TAKE x \in PagePlaces(qs)
    <3>2. CASE x = at
      BY <2>3, <3>2
    <3>3. CASE x # at
      <4>1. PICK s \in DOMAIN p.slots : loc[s] = x
        BY <3>1, <3>3 DEF Relocates, Matches
      <4>2. qs[x[1]].slots[x[2]] = p.slots[s]
        BY <3>1, <4>1 DEF Relocates
      <4>3. p.slots[s] = Free \/ s \in Live(p)
        BY DEF Live
      <4> QED BY <4>2, <4>3
    <3> QED BY <3>2, <3>3
  <2>10. SplitOf(f, g, t, qs, row)
    BY <1>1, <1>2, <2>2, <2>3, <2>8, <2>9 DEF SplitOf, p
  <2> HIDE DEF g
  <2> QED BY <2>4, <2>6, <2>10, SplitInOrder
<1> QED BY <1>3, <1>4

\* A deletion keeps the order.
LEMMA DeletionKeepsOrder ==
    ASSUME NEW f, Sound(f), InKeyOrder(f), NEW rid \in RidsOf(f)
    PROVE  InKeyOrder(WriteAll(f, DeleteWrites(f, rid)))
<1> DEFINE g == WriteAll(f, DeleteWrites(f, rid))
<1>1. /\ RidsOf(g) = RidsOf(f) \ {rid}
      /\ \A x \in RidsOf(g) : RowAt(g, x) = RowAt(f, x)
  BY Deletion
<1> HIDE DEF g
<1>2. \A x \in RidsOf(g) : x \in RidsOf(f) /\ KeyAt(g, x) = KeyAt(f, x)
  BY <1>1 DEF KeyAt
<1>3. InKeyOrder(g)
  BY <1>2 DEF InKeyOrder
<1> QED BY <1>3 DEF g

\* The rewritten file is in order.
LEMMA CompactionKeepsOrder ==
    ASSUME NEW f, Sound(f), InKeyOrder(f)
    PROVE  InKeyOrder(Compacted(f))
<1> DEFINE N == ActiveRows(f)
           scan == Scan(f)
           items == [i \in DOMAIN scan |-> RowItem(scan[i][2], FALSE)]
           on == FillGreedily(items)
           qs == PagesFor(Cut(items, on))
           g == Compacted(f)
<1>1. f \in FileTypes
  BY SoundFacts
<1>2. PICK e : Lists(f, e)
  BY <1>1, ScanLists
<1>3. /\ N \in Nat /\ DOMAIN scan = 1 .. N
      /\ \A k \in 1 .. N : e[k] \in RidsOf(f) /\ scan[k][2] = RowAt(f, e[k])
  <2>1. N \in Nat /\ DOMAIN scan = 1 .. N
    BY <1>1, ScanFacts
  <2>2. \A k \in 1 .. N : e[k] \in RidsOf(f) /\ scan[k] = <<e[k], RowAt(f, e[k])>>
    BY <1>2 DEF Lists, Matches
  <2> HIDE DEF scan, N
  <2> QED BY <2>1, <2>2
<1>4. \A j, k \in 1 .. N : j <= k => Precedes(e[j], e[k])
  BY <1>2 DEF Lists
<1>5. g.pages = qs
  BY DEF Compacted, PagesFor
<1> HIDE DEF scan, N
<1>6. /\ DOMAIN items = 1 .. N
      /\ \A k \in 1 .. N : items[k] \in FittingItems /\ items[k].row = RowAt(f, e[k])
  <2>1. \A k \in 1 .. N : items[k] = RowItem(RowAt(f, e[k]), FALSE) /\ RowAt(f, e[k]) \in FittingRows
    BY <1>1, <1>3, FileFacts
  <2>2. DOMAIN items = 1 .. N
    BY <1>3
  <2> HIDE DEF items
  <2> QED BY <2>1, <2>2, RowItems
<1>7. items \in Seq(FittingItems) /\ Len(items) = N
  <2>1. items = [k \in 1 .. N |-> items[k]]
    BY <1>3
  <2> HIDE DEF items
  <2> QED BY <1>3, <1>6, <2>1
<1> HIDE DEF items
<1>8. IsCut(items, on)
  BY <1>7, GreedyCut
<1> HIDE DEF on
<1>9. ItemsAreOrdered(items)
  <2> SUFFICES ASSUME NEW i \in 1 .. N, NEW j \in 1 .. N, i <= j
               PROVE  Key(items[i].row) <= Key(items[j].row)
    BY <1>7 DEF ItemsAreOrdered
  <2>1. KeyAt(f, e[i]) <= KeyAt(f, e[j])
    BY <1>3, <1>4 DEF InKeyOrder
  <2> QED BY <1>6, <2>1 DEF KeyAt
<1>10. PlacesInOrder(qs)
  BY <1>7, <1>8, <1>9, CutInOrder
<1> HIDE DEF qs, g
<1>11. \A x : x \in RidsOf(g) => /\ x \in PagePlaces(qs) /\ RowAt(g, x) # Free
                                 /\ RowAt(g, x) = qs[x[1]].slots[x[2]]
  BY <1>5 DEF SlotsOf, RidsOf, PagePlaces, RowAt
<1>12. InKeyOrder(g)
  BY <1>10, <1>11 DEF InKeyOrder, PlacesInOrder, KeyAt
<1> QED BY <1>12 DEF g

\* A search that finds nothing: no row has the key.
LEMMA NothingFound ==
    ASSUME NEW f \in FileTypes, InKeyOrder(f), NEW key \in Nat, SearchKey(f, key) = <<>>
    PROVE  \A x \in RidsOf(f) : KeyAt(f, x) # key
<1> DEFINE s == Scan(f)
           I == {i \in DOMAIN s : Key(s[i][2]) = key}
<1>1. PICK e : Lists(f, e)
  BY ScanLists
<1>2. /\ ActiveRows(f) \in Nat /\ DOMAIN s = 1 .. ActiveRows(f)
      /\ \A k \in DOMAIN s : Key(s[k][2]) = KeyAt(f, e[k])
      /\ \A x \in RidsOf(f) : \E k \in DOMAIN s : e[k] = x
  BY <1>1, ScanKeys
<1>3. EntriesAt(s, I) = <<>>
  BY SearchFinds
<1> HIDE DEF s
<1>4. IsFiniteSet(I)
  <2>1. I \subseteq 1 .. ActiveRows(f)
    BY <1>2
  <2>2. IsFiniteSet(1 .. ActiveRows(f))
    BY <1>2, FS_Interval
  <2> HIDE DEF I
  <2> QED BY <2>1, <2>2, FS_Subset
<1>5. Cardinality(I) = 0
  <2> DEFINE c == Cardinality(I)
             v(k) == s[CHOOSE i \in I : Cardinality({j \in I : j <= i}) = k]
  <2>1. EntriesAt(s, I) = [k \in 1 .. c |-> v(k)]
    BY DEF EntriesAt
  <2>2. c \in Nat
    BY <1>4, FS_CardinalityType
  <2> HIDE DEF c, v
  <2>3. DOMAIN EntriesAt(s, I) = 1 .. c
    BY <2>1
  <2>6. 1 .. c = {}
    <3>1. DOMAIN <<>> = {}
      OBVIOUS
    <3> HIDE DEF I
    <3> QED BY <1>3, <2>3, <3>1
  <2>4. 1 \notin 1 .. c
    BY <2>6
  <2>5. c = 0
    BY <2>2, <2>4
  <2> QED BY <2>5 DEF c
<1>6. I = {}
  <2> HIDE DEF I
  <2> QED BY <1>4, <1>5, FS_EmptySet
<1> TAKE x \in RidsOf(f)
<1>7. PICK k \in DOMAIN s : e[k] = x
  BY <1>2
<1> QED BY <1>2, <1>6, <1>7

-----------------------------------------------------------------------------
(***************************************************************************)
(* Unique keys, as a fact about the rows.                                  *)
(***************************************************************************)
UniqueKeys(bag) ==
  \A r1, r2 \in DOMAIN bag : Key(r1) = Key(r2) => r1 = r2 /\ bag[r1] = 1

\* A row whose key is new keeps the keys unique, and so does any deletion.
LEMMA UniqueAdded ==
    ASSUME NEW B, B \in [DOMAIN B -> Nat \ {0}], UniqueKeys(B),
           NEW row, \A r \in DOMAIN B : Key(r) # Key(row)
    PROVE  UniqueKeys(B (+) SetToBag({row}))
<1> DEFINE C == B (+) SetToBag({row})
<1>1. /\ DOMAIN C = DOMAIN B \cup {row} /\ row \notin DOMAIN B
      /\ \A r \in DOMAIN B : r # row => C[r] = B[r]
      /\ row \notin DOMAIN B => C[row] = 1
  BY DEF (+), SetToBag
<1> HIDE DEF C
<1>2. UniqueKeys(C)
  BY <1>1 DEF UniqueKeys
<1> QED BY <1>2 DEF C

LEMMA UniqueTaken ==
    ASSUME NEW B, B \in [DOMAIN B -> Nat \ {0}], UniqueKeys(B), NEW row
    PROVE  UniqueKeys(B (-) SetToBag({row}))
<1> DEFINE C == B (-) SetToBag({row})
           D == [x \in DOMAIN B |-> IF x \in {row} THEN B[x] - 1 ELSE B[x]]
           S == {x \in DOMAIN B : D[x] > 0}
<1>1. C = [x \in {y \in DOMAIN D : D[y] > 0} |-> D[x]]
  BY DEF (-), SetToBag
<1>2. C = [x \in S |-> D[x]]
  BY <1>1
<1>3. \A x \in S : x \in DOMAIN B /\ (x # row => D[x] = B[x]) /\ (x = row => B[x] - 1 > 0)
  OBVIOUS
<1>4. \A x \in DOMAIN B : B[x] \in Nat
  OBVIOUS
<1> HIDE DEF C, D, S
<1>5. UniqueKeys(C)
  <2> SUFFICES ASSUME NEW r1 \in S, NEW r2 \in S, Key(r1) = Key(r2)
               PROVE  r1 = r2 /\ C[r1] = 1
    BY <1>2 DEF UniqueKeys
  <2>1. r1 = r2 /\ B[r1] = 1
    BY <1>3 DEF UniqueKeys
  <2>2. r1 # row
    BY <1>3, <2>1
  <2> QED BY <1>2, <1>3, <2>1, <2>2
<1> QED BY <1>5 DEF C

\* Rows of a file with unique keys are told apart by them.
LEMMA UniqueRids ==
    ASSUME NEW f \in FileTypes, UniqueKeys(Contents(f)),
           NEW x \in RidsOf(f), NEW y \in RidsOf(f), KeyAt(f, x) = KeyAt(f, y)
    PROVE  x = y
<1> DEFINE r == RowAt(f, x)
           H == Holding(f, r)
<1>1. DOMAIN Contents(f) = {RowAt(f, z) : z \in RidsOf(f)}
  BY DEF Contents
<1>2. r \in DOMAIN Contents(f) /\ RowAt(f, y) \in DOMAIN Contents(f)
  BY <1>1
<1>3. RowAt(f, y) = r /\ Contents(f)[r] = 1
  BY <1>2 DEF UniqueKeys, KeyAt
<1>4. Cardinality(H) = 1
  <2>1. Contents(f)[r] = Cardinality(H)
    BY <1>1, <1>2 DEF Contents
  <2> QED BY <1>3, <2>1
<1>5. x \in H /\ y \in H
  BY <1>3 DEF Holding
<1>6. IsFiniteSet(H)
  <2>1. IsFiniteSet(RidsOf(f)) /\ H \subseteq RidsOf(f)
    BY FileFacts DEF Holding
  <2> HIDE DEF H
  <2> QED BY <2>1, FS_Subset
<1> HIDE DEF H
<1>7. PICK z : H = {z}
  BY <1>4, <1>6, FS_Singleton
<1> QED BY <1>5, <1>7

\* So a file has as many keys as rows.
LEMMA KeysCounted ==
    ASSUME NEW f \in FileTypes, UniqueKeys(Contents(f))
    PROVE  Cardinality({KeyAt(f, x) : x \in RidsOf(f)}) = ActiveRows(f)
<1> DEFINE A == RidsOf(f)
           T == {KeyAt(f, x) : x \in A}
           h == [x \in A |-> KeyAt(f, x)]
<1>1. \A x, y \in A : KeyAt(f, x) = KeyAt(f, y) => x = y
  BY UniqueRids
<1>2. IsFiniteSet(A)
  BY FileFacts
<1>3. Matches(A, T, h)
  <2>1. h \in [A -> T]
    OBVIOUS
  <2>2. \A t \in T : \E x \in A : h[x] = t
    OBVIOUS
  <2>3. \A x \in A : h[x] = KeyAt(f, x)
    OBVIOUS
  <2> HIDE DEF A, T, h
  <2> QED BY <1>1, <2>1, <2>2, <2>3 DEF Matches
<1> HIDE DEF A, T, h
<1>4. Cardinality(T) = Cardinality(A)
  BY <1>2, <1>3, MatchCount
<1> QED BY <1>4 DEF A, T, ActiveRows
=============================================================================
