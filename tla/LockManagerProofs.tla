-------------------------- MODULE LockManagerProofs --------------------------
(***************************************************************************)
(* Theorems about LockManager, for every number of transactions and of     *)
(* tables.  A lock table is a triple <<h, w, e>> of holders, pending       *)
(* requests and queue order.  The lemmas of the first part say what one    *)
(* removal and one drain do to any such table; the actions are combinations*)
(* of the two, so the second part only has to put the lemmas together.     *)
(***************************************************************************)
EXTENDS LockManager, TLAPS

Modes == LockModes \union {"none"}

\* The lock table has the right types.
Typed(h, w, e) ==
    /\ h \in [Txns -> [Resources -> Modes]]
    /\ w \in [Txns -> Requests \union {NoRequest}]
    /\ e \in [Txns -> SUBSET Txns]

\* Every queue is a strict total order of the requests for its resource.
Ordered(w, e) ==
    \A t \in Txns :
        /\ w[t] = NoRequest => e[t] = {}
        /\ w[t] # NoRequest =>
             /\ t \notin e[t]
             /\ e[t] \subseteq Queued(w[t].res, w)
             /\ \A u \in e[t] : e[u] \subseteq e[t]
             /\ \A u \in Queued(w[t].res, w) \ {t} : u \in e[t] \/ t \in e[u]

\* Nobody waits for what it already has.
Needed(h, w) ==
    \A t \in Txns : w[t] # NoRequest => h[t][w[t].res] \notin {"X", w[t].mode}

Table(h, w, e) == Typed(h, w, e) /\ Ordered(w, e) /\ Needed(h, w)

Exclusive(h) ==
    \A t, u \in Txns, r \in Resources :
        t # u /\ h[t][r] # "none" => ~Conflicts(h[t][r], h[u][r])

WaitingIn(w) == {t \in Txns : w[t] # NoRequest}

Acyclic(h, w, e) ==
    \A C \in SUBSET WaitingIn(w) :
        C # {} => \E t \in C : Blockers(t, h, w, e) \intersect C = {}

\* Every waiter outside the queues of rs has a reason to wait.
Served(rs, h, w, e) ==
    \A t \in WaitingIn(w) : w[t].res \notin rs => Blockers(t, h, w, e) # {}

-----------------------------------------------------------------------------
(* What a drain does. *)

\* A request served by a drain met no blocker, and neither did those before it.
LEMMA GrantedFacts ==
    ASSUME NEW rs, NEW h, NEW w, NEW e, Table(h, w, e),
           NEW t \in Granted(rs, h, w, e)
    PROVE  /\ t \in Txns /\ w[t] # NoRequest /\ w[t] \in Requests
           /\ w[t].res \in Resources /\ w[t].mode \in LockModes
           /\ h[t][w[t].res] \in Modes \ {"X", w[t].mode}
           /\ GrantMode(h[t][w[t].res], w[t].mode) = w[t].mode
           /\ Blockers(t, h, w, e) = {}
           /\ ~unavailable
           /\ e[t] \subseteq Granted(rs, h, w, e)
<1>1. t \in Txns /\ w[t] # NoRequest /\ ~unavailable /\ w[t].res \in rs
      /\ \A u \in e[t] \union {t} : Blockers(u, h, w, e) = {}
  BY DEF Granted, Grantable
<1>2. w[t] \in Requests
  BY <1>1 DEF Table, Typed
<1>3. w[t].res \in Resources /\ w[t].mode \in LockModes
  BY <1>2 DEF Requests
<1>4. h[t][w[t].res] \in Modes \ {"X", w[t].mode}
  BY <1>1, <1>3 DEF Table, Typed, Needed
<1>5. GrantMode(h[t][w[t].res], w[t].mode) = w[t].mode
  BY <1>3, <1>4 DEF GrantMode, LockModes, Modes
<1>6. e[t] \subseteq Granted(rs, h, w, e)
  <2> SUFFICES ASSUME NEW u \in e[t] PROVE u \in Granted(rs, h, w, e)
    OBVIOUS
  <2>1. u \in Txns /\ w[u] # NoRequest /\ w[u].res = w[t].res /\ e[u] \subseteq e[t]
    BY <1>1 DEF Table, Ordered, Queued
  <2> QED BY <1>1, <2>1 DEF Granted, Grantable
<1> QED BY <1>1, <1>2, <1>3, <1>4, <1>5, <1>6

\* The table after a drain, pointwise.
LEMMA DrainedFacts ==
    ASSUME NEW rs, NEW h, NEW w, NEW e, Table(h, w, e),
           NEW G, G = Granted(rs, h, w, e),
           NEW h2, h2 = DrainedHeld(rs, h, w, e),
           NEW w2, w2 = DrainedWaiting(rs, h, w, e),
           NEW e2, e2 = DrainedEarlier(rs, h, w, e),
           NEW t \in Txns
    PROVE  /\ t \in G => w2[t] = NoRequest /\ e2[t] = {}
           /\ t \notin G => w2[t] = w[t] /\ e2[t] = e[t] \ G /\ h2[t] = h[t]
           /\ \A r \in Resources :
                h2[t][r] = IF t \in G /\ w[t].res = r THEN w[t].mode ELSE h[t][r]
           /\ h2[t] \in [Resources -> Modes]
<1>1. h[t] \in [Resources -> Modes]
  BY DEF Table, Typed
<1>2. CASE t \in G
  <2>1. h2[t] = [h[t] EXCEPT ![w[t].res] = w[t].mode]
    BY <1>2, GrantedFacts DEF DrainedHeld
  <2>2. w[t].res \in Resources /\ w[t].mode \in Modes
    BY <1>2, GrantedFacts DEF Modes
  <2>3. w2[t] = NoRequest /\ e2[t] = {}
    BY <1>2 DEF DrainedWaiting, DrainedEarlier
  <2> QED BY <1>1, <1>2, <2>1, <2>2, <2>3
<1>3. CASE t \notin G
  BY <1>1, <1>3 DEF DrainedHeld, DrainedWaiting, DrainedEarlier
<1> QED BY <1>2, <1>3

\* A drain keeps the table a table.
LEMMA DrainTable ==
    ASSUME NEW rs, NEW h, NEW w, NEW e, Table(h, w, e)
    PROVE  Table(DrainedHeld(rs, h, w, e), DrainedWaiting(rs, h, w, e),
                 DrainedEarlier(rs, h, w, e))
<1> DEFINE G == Granted(rs, h, w, e)
           h2 == DrainedHeld(rs, h, w, e)
           w2 == DrainedWaiting(rs, h, w, e)
           e2 == DrainedEarlier(rs, h, w, e)
<1>0. ASSUME NEW t \in Txns
      PROVE  /\ t \in G => w2[t] = NoRequest /\ e2[t] = {}
             /\ t \notin G => w2[t] = w[t] /\ e2[t] = e[t] \ G /\ h2[t] = h[t]
             /\ h2[t] \in [Resources -> Modes]
  BY DrainedFacts
<1> HIDE DEF G, h2, w2, e2
<1>1. Typed(h2, w2, e2)
  <2>1. h2 \in [Txns -> [Resources -> Modes]]
    BY <1>0 DEF h2, DrainedHeld
  <2>2. w2 \in [Txns -> Requests \union {NoRequest}]
    BY <1>0 DEF w2, DrainedWaiting, Table, Typed
  <2>3. e2 \in [Txns -> SUBSET Txns]
    BY <1>0 DEF e2, DrainedEarlier, Table, Typed
  <2> QED BY <2>1, <2>2, <2>3 DEF Typed
<1>2. Ordered(w2, e2)
  <2> SUFFICES ASSUME NEW t \in Txns
               PROVE  /\ w2[t] = NoRequest => e2[t] = {}
                      /\ w2[t] # NoRequest =>
                           /\ t \notin e2[t]
                           /\ e2[t] \subseteq Queued(w2[t].res, w2)
                           /\ \A u \in e2[t] : e2[u] \subseteq e2[t]
                           /\ \A u \in Queued(w2[t].res, w2) \ {t} :
                                 u \in e2[t] \/ t \in e2[u]
    BY DEF Ordered
  <2>1. CASE w2[t] = NoRequest
    BY <1>0, <2>1 DEF Table, Ordered
  <2>2. CASE w2[t] # NoRequest
    <3>1. t \notin G /\ w2[t] = w[t] /\ e2[t] = e[t] \ G
      BY <1>0, <2>2
    <3>2. t \notin e[t] /\ e[t] \subseteq Queued(w[t].res, w)
      BY <2>2, <3>1 DEF Table, Ordered
    <3>3. e2[t] \subseteq Queued(w2[t].res, w2)
      BY <1>0, <3>1, <3>2 DEF Queued
    <3>4. ASSUME NEW u \in e2[t] PROVE e2[u] \subseteq e2[t]
      BY <1>0, <2>2, <3>1, <3>2, <3>4 DEF Table, Ordered, Queued
    <3>5. ASSUME NEW u \in Queued(w2[t].res, w2) \ {t}
          PROVE  u \in e2[t] \/ t \in e2[u]
      <4>1. u \in Txns /\ u \notin G /\ w2[u] = w[u] /\ e2[u] = e[u] \ G
        BY <1>0, <3>5 DEF Queued
      <4>2. u \in Queued(w[t].res, w) \ {t}
        BY <3>1, <3>5, <4>1 DEF Queued
      <4> QED BY <2>2, <3>1, <4>1, <4>2 DEF Table, Ordered
    <3> QED BY <2>2, <3>1, <3>2, <3>3, <3>4, <3>5
  <2> QED BY <2>1, <2>2
<1>3. Needed(h2, w2)
  BY <1>0 DEF Needed, Table
<1> QED BY <1>1, <1>2, <1>3 DEF Table, h2, w2, e2

\* A drain keeps the holders compatible.
LEMMA DrainExclusive ==
    ASSUME NEW rs, NEW h, NEW w, NEW e, Table(h, w, e), Exclusive(h)
    PROVE  Exclusive(DrainedHeld(rs, h, w, e))
<1> DEFINE G == Granted(rs, h, w, e)
           h2 == DrainedHeld(rs, h, w, e)
<1>0. ASSUME NEW t \in Txns, NEW r \in Resources
      PROVE  h2[t][r] = IF t \in G /\ w[t].res = r THEN w[t].mode ELSE h[t][r]
  BY DrainedFacts
<1>1. ASSUME NEW t \in G
      PROVE  /\ t \in Txns /\ w[t] # NoRequest /\ w[t].mode \in LockModes
             /\ Blockers(t, h, w, e) = {}
  BY GrantedFacts
<1> HIDE DEF G, h2
<1> SUFFICES ASSUME NEW t \in Txns, NEW u \in Txns, NEW r \in Resources,
                    t # u, h2[t][r] # "none"
             PROVE  ~Conflicts(h2[t][r], h2[u][r])
  BY DEF Exclusive, h2
<1>2. CASE t \in G /\ w[t].res = r /\ u \in G /\ w[u].res = r
  <2>1. u \in e[t] \/ t \in e[u]
    BY <1>1, <1>2 DEF Table, Ordered, Queued
  <2> QED BY <1>0, <1>1, <1>2, <2>1 DEF Blockers, Conflicts, LockModes
<1>3. CASE t \in G /\ w[t].res = r /\ ~(u \in G /\ w[u].res = r)
  BY <1>0, <1>1, <1>3 DEF Blockers
<1>4. CASE ~(t \in G /\ w[t].res = r) /\ u \in G /\ w[u].res = r
  BY <1>0, <1>1, <1>4 DEF Blockers, Conflicts, LockModes
<1>5. CASE ~(t \in G /\ w[t].res = r) /\ ~(u \in G /\ w[u].res = r)
  BY <1>0, <1>5 DEF Exclusive
<1> QED BY <1>2, <1>3, <1>4, <1>5

\* A drain gives nobody a new blocker: who is granted was no obstacle before,
\* or was one already as an earlier request.
LEMMA DrainBlockers ==
    ASSUME NEW rs, NEW h, NEW w, NEW e, Table(h, w, e),
           NEW h2, h2 = DrainedHeld(rs, h, w, e),
           NEW w2, w2 = DrainedWaiting(rs, h, w, e),
           NEW e2, e2 = DrainedEarlier(rs, h, w, e),
           NEW t \in Txns, w2[t] # NoRequest
    PROVE  /\ w2[t] = w[t]
           /\ Blockers(t, h2, w2, e2) \subseteq Blockers(t, h, w, e)
<1> DEFINE G == Granted(rs, h, w, e)
<1>0. ASSUME NEW u \in Txns
      PROVE  /\ u \in G => w2[u] = NoRequest /\ e2[u] = {}
             /\ u \notin G => w2[u] = w[u] /\ e2[u] = e[u] \ G /\ h2[u] = h[u]
             /\ \A r \in Resources :
                  h2[u][r] = IF u \in G /\ w[u].res = r THEN w[u].mode ELSE h[u][r]
  BY DrainedFacts
<1>1. ASSUME NEW u \in G
      PROVE  /\ u \in Txns /\ w[u] # NoRequest /\ w[u].mode \in LockModes
             /\ e[u] \subseteq G
  BY GrantedFacts
<1> HIDE DEF G
<1>2. t \notin G /\ w2[t] = w[t] /\ e2[t] = e[t] \ G
  BY <1>0
<1>3. w[t].res \in Resources
  BY <1>2 DEF Table, Typed, Requests
<1>4. ASSUME NEW u \in Blockers(t, h2, w2, e2)
      PROVE  u \in Blockers(t, h, w, e)
  <2>1. u \in Txns \ {t}
    BY <1>4 DEF Blockers
  <2>2. CASE u \in e2[t] /\ Conflicts(w2[t].mode, w2[u].mode)
    BY <1>0, <1>2, <2>1, <2>2 DEF Blockers
  <2>3. CASE Conflicts(w2[t].mode, h2[u][w2[t].res])
    <3>1. CASE u \in G /\ w[u].res = w[t].res
      <4>1. u \in e[t] \/ t \in e[u]
        BY <1>1, <1>2, <2>1, <3>1 DEF Table, Ordered, Queued
      <4>2. u \in e[t]
        BY <1>1, <1>2, <3>1, <4>1
      <4> QED BY <1>0, <1>2, <1>3, <2>1, <2>3, <3>1, <4>2 DEF Blockers
    <3>2. CASE ~(u \in G /\ w[u].res = w[t].res)
      BY <1>0, <1>2, <1>3, <2>1, <2>3, <3>2 DEF Blockers
    <3> QED BY <3>1, <3>2
  <2> QED BY <1>4, <2>2, <2>3 DEF Blockers
<1> QED BY <1>2, <1>4

\* Fewer waiters with fewer blockers make no new cycle.
LEMMA AcyclicShrinks ==
    ASSUME NEW h, NEW w, NEW e, Acyclic(h, w, e),
           NEW h2, NEW w2, NEW e2,
           \A t \in WaitingIn(w2) :
              /\ t \in WaitingIn(w)
              /\ Blockers(t, h2, w2, e2) \subseteq Blockers(t, h, w, e)
    PROVE  Acyclic(h2, w2, e2)
<1> SUFFICES ASSUME NEW C \in SUBSET WaitingIn(w2), C # {}
             PROVE  \E t \in C : Blockers(t, h2, w2, e2) \intersect C = {}
  BY DEF Acyclic
<1>1. C \in SUBSET WaitingIn(w)
  OBVIOUS
<1>2. PICK t \in C : Blockers(t, h, w, e) \intersect C = {}
  BY <1>1 DEF Acyclic
<1> QED BY <1>2

\* After a drain of rs nobody waits in vain.
LEMMA DrainServes ==
    ASSUME NEW rs, NEW h, NEW w, NEW e, Table(h, w, e), Served(rs, h, w, e),
           ~unavailable
    PROVE  Served({}, DrainedHeld(rs, h, w, e), DrainedWaiting(rs, h, w, e),
                  DrainedEarlier(rs, h, w, e))
<1> DEFINE G == Granted(rs, h, w, e)
           h2 == DrainedHeld(rs, h, w, e)
           w2 == DrainedWaiting(rs, h, w, e)
           e2 == DrainedEarlier(rs, h, w, e)
<1>0. ASSUME NEW u \in Txns
      PROVE  /\ u \in G => w2[u] = NoRequest /\ e2[u] = {}
             /\ u \notin G => w2[u] = w[u] /\ e2[u] = e[u] \ G /\ h2[u] = h[u]
             /\ \A r \in Resources :
                  h2[u][r] = IF u \in G /\ w[u].res = r THEN w[u].mode ELSE h[u][r]
  BY DrainedFacts
<1> HIDE DEF G, h2, w2, e2
<1> SUFFICES ASSUME NEW t \in WaitingIn(w2) PROVE Blockers(t, h2, w2, e2) # {}
  BY DEF Served, h2, w2, e2
<1>1. t \in Txns /\ t \notin G /\ w2[t] = w[t] /\ w[t] # NoRequest /\ e2[t] = e[t] \ G
  BY <1>0 DEF WaitingIn
<1>2. w[t].res \in Resources /\ w[t].mode \in LockModes
  BY <1>1 DEF Table, Typed, Requests
<1>3. \E u \in e[t] \union {t} : Blockers(u, h, w, e) # {}
  <2>1. CASE w[t].res \in rs
    BY <1>1, <2>1 DEF G, Granted, Grantable
  <2>2. CASE w[t].res \notin rs
    BY <1>1, <2>2 DEF Served, WaitingIn
  <2> QED BY <2>1, <2>2
\* t's own obstacle, or the one of an earlier request, is an obstacle of t.
<1>4. \E v \in Txns \ {t} :
         \/ Conflicts(w[t].mode, h[v][w[t].res])
         \/ v \in e[t] /\ Conflicts(w[t].mode, w[v].mode)
  <2>1. CASE Blockers(t, h, w, e) # {}
    BY <2>1 DEF Blockers
  <2>2. CASE Blockers(t, h, w, e) = {}
    <3>1. PICK u \in e[t] : Blockers(u, h, w, e) # {}
      BY <1>3, <2>2
    <3>2. /\ u \in Txns /\ u # t /\ w[u] # NoRequest /\ w[u].res = w[t].res
          /\ e[u] \subseteq e[t] /\ t \notin e[t]
      BY <1>1, <3>1 DEF Table, Ordered, Queued
    <3>3. w[u].mode \in LockModes
      BY <3>2 DEF Table, Typed, Requests
    <3>4. CASE Conflicts(w[t].mode, w[u].mode)
      BY <3>1, <3>2, <3>4
    <3>5. CASE ~Conflicts(w[t].mode, w[u].mode)
      <4>1. w[t].mode = "S" /\ w[u].mode = "S"
        BY <1>2, <3>3, <3>5 DEF Conflicts, LockModes
      <4>2. PICK v \in Txns \ {u} :
               \/ Conflicts("S", h[v][w[t].res])
               \/ v \in e[u] /\ Conflicts("S", w[v].mode)
        BY <3>1, <3>2, <4>1 DEF Blockers
      <4>3. v # t
        BY <1>1, <3>2, <4>1, <4>2 DEF Table, Needed, Conflicts
      <4> QED BY <3>2, <4>1, <4>2, <4>3
    <3> QED BY <3>4, <3>5
  <2> QED BY <2>1, <2>2
<1>5. PICK v \in Txns \ {t} :
         \/ Conflicts(w[t].mode, h[v][w[t].res])
         \/ v \in e[t] /\ Conflicts(w[t].mode, w[v].mode)
  BY <1>4
<1>6. CASE Conflicts(w[t].mode, h[v][w[t].res])
  <2>1. h2[v][w[t].res] = IF v \in G /\ w[v].res = w[t].res THEN w[v].mode ELSE h[v][w[t].res]
    BY <1>0, <1>2
  <2>2. CASE v \in G /\ w[v].res = w[t].res
    <3>1. w[v].mode \in LockModes /\ h[v][w[t].res] \in Modes \ {"X"}
      BY <2>2, GrantedFacts DEF G
    <3> QED BY <1>1, <1>2, <1>6, <2>1, <2>2, <3>1 DEF Blockers, Conflicts, Modes, LockModes
  <2>3. CASE ~(v \in G /\ w[v].res = w[t].res)
    BY <1>1, <1>6, <2>1, <2>3 DEF Blockers
  <2> QED BY <2>2, <2>3
<1>7. CASE v \in e[t] /\ Conflicts(w[t].mode, w[v].mode)
  <2>1. w[v].res = w[t].res
    BY <1>1, <1>7 DEF Table, Ordered, Queued
  <2>2. CASE v \in G
    BY <1>0, <1>1, <1>2, <1>7, <2>1, <2>2 DEF Blockers
  <2>3. CASE v \notin G
    BY <1>0, <1>1, <1>7, <2>3 DEF Blockers
  <2> QED BY <2>2, <2>3
<1> QED BY <1>5, <1>6, <1>7

-----------------------------------------------------------------------------
(* The inductive invariant. *)

\* What every lock table satisfies before and after each drain.
Sound(h, w, e) == Table(h, w, e) /\ Exclusive(h) /\ Acyclic(h, w, e)

\* _held, _failed, _retired and the threads in the wait loop.
Booked ==
    /\ registered \subseteq Txns
    /\ retired \subseteq Txns \ registered
    /\ failed \subseteq registered
    /\ blocked \subseteq Txns
    /\ unavailable \in BOOLEAN
    /\ Waiting \subseteq (registered \ failed) \intersect blocked
    /\ \A t \in Txns \ registered : \A r \in Resources : held[t][r] = "none"
    /\ unavailable => Waiting = {}

\* Who holds a table, or waits for one, holds the schema.
Covered ==
    \A t \in Txns :
        \/ \E r \in Tables : held[t][r] # "none"
        \/ waiting[t] # NoRequest /\ waiting[t].res \in Tables
        => held[t][Schema] # "none"

LockIInv ==
    /\ Sound(held, waiting, earlier)
    /\ Booked
    /\ Covered
    /\ ~unavailable => Served({}, held, waiting, earlier)

LEMMA DrainSound ==
    ASSUME NEW rs, NEW h, NEW w, NEW e, Sound(h, w, e), Drain(rs, h, w, e),
           ~unavailable => Served(rs, h, w, e),
           unavailable' = unavailable
    PROVE  /\ Sound(held', waiting', earlier')
           /\ ~unavailable' => Served({}, held', waiting', earlier')
<1>1. Table(held', waiting', earlier')
  BY DrainTable DEF Sound, Drain
<1>2. Exclusive(held')
  BY DrainExclusive DEF Sound, Drain
<1>3. Acyclic(held', waiting', earlier')
  <2>1. \A t \in WaitingIn(waiting') :
           /\ t \in WaitingIn(w)
           /\ Blockers(t, held', waiting', earlier') \subseteq Blockers(t, h, w, e)
    BY DrainBlockers DEF Sound, Drain, WaitingIn
  <2> QED BY <2>1, AcyclicShrinks DEF Sound
<1>4. ~unavailable' => Served({}, held', waiting', earlier')
  BY DrainServes DEF Sound, Drain
<1> QED BY <1>1, <1>2, <1>3, <1>4 DEF Sound

\* Requests leave their queues, and the holders D may lose their locks.
LEMMA RemovalSound ==
    ASSUME Sound(held, waiting, earlier), NEW D \in SUBSET Txns,
           NEW h \in [Txns -> [Resources -> Modes]],
           \A t \in Txns : h[t] = held[t]
                           \/ (t \in D /\ \A r \in Resources : h[t][r] = "none")
    PROVE  Sound(h, NoLongerWaiting(D), NoLongerQueued(D))
<1> DEFINE w == NoLongerWaiting(D)
           e == NoLongerQueued(D)
<1>0. ASSUME NEW t \in Txns
      PROVE  /\ t \in D => w[t] = NoRequest /\ e[t] = {}
             /\ t \notin D => w[t] = waiting[t] /\ e[t] = earlier[t] \ D /\ h[t] = held[t]
  BY DEF NoLongerWaiting, NoLongerQueued
<1>1. Typed(h, w, e)
  BY DEF Sound, Table, Typed, NoLongerWaiting, NoLongerQueued
<1> HIDE DEF w, e
<1>2. Ordered(w, e)
  <2> SUFFICES ASSUME NEW t \in Txns
               PROVE  /\ w[t] = NoRequest => e[t] = {}
                      /\ w[t] # NoRequest =>
                           /\ t \notin e[t]
                           /\ e[t] \subseteq Queued(w[t].res, w)
                           /\ \A u \in e[t] : e[u] \subseteq e[t]
                           /\ \A u \in Queued(w[t].res, w) \ {t} :
                                 u \in e[t] \/ t \in e[u]
    BY DEF Ordered
  <2>1. CASE w[t] = NoRequest
    BY <1>0, <2>1 DEF Sound, Table, Ordered
  <2>2. CASE w[t] # NoRequest
    <3>1. t \notin D /\ w[t] = waiting[t] /\ e[t] = earlier[t] \ D
      BY <1>0, <2>2
    <3>2. t \notin earlier[t] /\ earlier[t] \subseteq Queued(w[t].res, waiting)
      BY <2>2, <3>1 DEF Sound, Table, Ordered
    <3>3. e[t] \subseteq Queued(w[t].res, w)
      BY <1>0, <3>1, <3>2 DEF Queued
    <3>4. ASSUME NEW u \in e[t] PROVE e[u] \subseteq e[t]
      BY <1>0, <2>2, <3>1, <3>2, <3>4 DEF Sound, Table, Ordered, Queued
    <3>5. ASSUME NEW u \in Queued(w[t].res, w) \ {t} PROVE u \in e[t] \/ t \in e[u]
      <4>1. u \in Txns /\ u \notin D /\ w[u] = waiting[u] /\ e[u] = earlier[u] \ D
        BY <1>0, <3>5 DEF Queued
      <4>2. u \in Queued(waiting[t].res, waiting) \ {t}
        BY <3>1, <3>5, <4>1 DEF Queued
      <4> QED BY <2>2, <3>1, <4>1, <4>2 DEF Sound, Table, Ordered
    <3> QED BY <2>2, <3>1, <3>2, <3>3, <3>4, <3>5
  <2> QED BY <2>1, <2>2
<1>3. Needed(h, w)
  BY <1>0 DEF Sound, Table, Needed
<1>4. Exclusive(h)
  <2> SUFFICES ASSUME NEW t \in Txns, NEW u \in Txns, NEW r \in Resources,
                      t # u, h[t][r] # "none"
               PROVE  ~Conflicts(h[t][r], h[u][r])
    BY DEF Exclusive
  <2>1. h[t] = held[t] /\ (h[u] = held[u] \/ h[u][r] = "none")
    OBVIOUS
  <2> QED BY <2>1 DEF Sound, Exclusive, Conflicts
<1>5. Acyclic(h, w, e)
  <2>1. ASSUME NEW t \in WaitingIn(w)
        PROVE  /\ t \in WaitingIn(waiting)
               /\ Blockers(t, h, w, e) \subseteq Blockers(t, held, waiting, earlier)
    <3>1. t \in Txns /\ t \notin D /\ w[t] = waiting[t] /\ e[t] = earlier[t] \ D
          /\ waiting[t] # NoRequest
      BY <1>0, <2>1 DEF WaitingIn
    <3>2. waiting[t].res \in Resources
      BY <3>1 DEF Sound, Table, Typed, Requests
    <3> QED BY <1>0, <3>1, <3>2 DEF WaitingIn, Blockers, Conflicts
  <2> QED BY <2>1, AcyclicShrinks DEF Sound
<1> QED BY <1>1, <1>2, <1>3, <1>4, <1>5 DEF Sound, Table, w, e

\* Waiters in the queues nobody left, on resources nobody released, still wait
\* for somebody.
LEMMA RemovalServed ==
    ASSUME Sound(held, waiting, earlier), Served({}, held, waiting, earlier),
           NEW D \in SUBSET Txns,
           NEW h \in [Txns -> [Resources -> Modes]], NEW rs,
           \A t \in D : waiting[t] # NoRequest => waiting[t].res \in rs,
           \A t \in Txns, r \in Resources : r \notin rs => h[t][r] = held[t][r]
    PROVE  Served(rs, h, NoLongerWaiting(D), NoLongerQueued(D))
<1> DEFINE w == NoLongerWaiting(D)
           e == NoLongerQueued(D)
<1>0. ASSUME NEW t \in Txns
      PROVE  /\ t \in D => w[t] = NoRequest /\ e[t] = {}
             /\ t \notin D => w[t] = waiting[t] /\ e[t] = earlier[t] \ D
  BY DEF NoLongerWaiting, NoLongerQueued
<1> HIDE DEF w, e
<1> SUFFICES ASSUME NEW t \in WaitingIn(w), w[t].res \notin rs
             PROVE  Blockers(t, h, w, e) # {}
  BY DEF Served, w, e
<1>1. t \in Txns /\ t \notin D /\ w[t] = waiting[t] /\ e[t] = earlier[t] \ D
      /\ waiting[t] # NoRequest
  BY <1>0 DEF WaitingIn
<1>2. waiting[t].res \in Resources
  BY <1>1 DEF Sound, Table, Typed, Requests
<1>3. PICK v \in Txns \ {t} :
         \/ Conflicts(waiting[t].mode, held[v][waiting[t].res])
         \/ v \in earlier[t] /\ Conflicts(waiting[t].mode, waiting[v].mode)
  BY <1>1 DEF Served, WaitingIn, Blockers
<1>4. CASE Conflicts(waiting[t].mode, held[v][waiting[t].res])
  BY <1>1, <1>2, <1>4 DEF Blockers
<1>5. CASE v \in earlier[t] /\ Conflicts(waiting[t].mode, waiting[v].mode)
  <2>1. waiting[v] # NoRequest /\ waiting[v].res = waiting[t].res
    BY <1>1, <1>5 DEF Sound, Table, Ordered, Queued
  <2>2. v \notin D
    BY <1>1, <2>1
  <2> QED BY <1>0, <1>1, <1>5, <2>2 DEF Blockers
<1> QED BY <1>3, <1>4, <1>5

-----------------------------------------------------------------------------
(* The steps. *)

LEMMA InitLockIInv == Init => LockIInv
<1> SUFFICES ASSUME Init PROVE LockIInv
  OBVIOUS
<1>1. Table(held, waiting, earlier) /\ Exclusive(held)
  BY DEF Init, Table, Typed, Ordered, Needed, Exclusive, Modes
<1>2. Waiting = {} /\ WaitingIn(waiting) = {}
  BY DEF Init, Waiting, WaitingIn
<1>3. Acyclic(held, waiting, earlier) /\ Served({}, held, waiting, earlier)
  BY <1>2 DEF Acyclic, Served
<1>4. Booked /\ Covered
  BY <1>2 DEF Init, Booked, Covered, Resources
<1> QED BY <1>1, <1>3, <1>4 DEF LockIInv, Sound

\* What the two halves of an invariant-preserving step have in common: after a
\* drain, locks only grew, and only those who waited for them have them.
LEMMA DrainBooking ==
    ASSUME NEW rs, NEW h, NEW w, NEW e, Table(h, w, e), Drain(rs, h, w, e)
    PROVE  /\ WaitingIn(waiting') \subseteq WaitingIn(w)
           /\ \A t \in WaitingIn(waiting') : waiting'[t] = w[t]
           /\ \A t \in Txns, r \in Resources :
                held'[t][r] # h[t][r] =>
                   /\ t \in WaitingIn(w) \ WaitingIn(waiting') /\ ~unavailable
                   /\ w[t].res = r /\ h[t][r] # "X"
                   /\ held'[t][r] = w[t].mode /\ w[t].mode \in LockModes
<1>1. ASSUME NEW t \in Txns
      PROVE  /\ t \in Granted(rs, h, w, e) => waiting'[t] = NoRequest
             /\ t \notin Granted(rs, h, w, e) => waiting'[t] = w[t]
             /\ \A r \in Resources :
                  held'[t][r] = IF t \in Granted(rs, h, w, e) /\ w[t].res = r
                                THEN w[t].mode ELSE h[t][r]
  BY DrainedFacts DEF Drain
<1>2. ASSUME NEW t \in Granted(rs, h, w, e)
      PROVE  /\ w[t] # NoRequest /\ w[t].mode \in LockModes /\ ~unavailable
             /\ h[t][w[t].res] \in Modes \ {"X", w[t].mode}
  BY GrantedFacts
<1> QED BY <1>1, <1>2 DEF WaitingIn

\* Booked and Covered over a step that drains <<h, w, e>>.
LEMMA DrainBooked ==
    ASSUME LockIInv, NEW rs, NEW h, NEW w, NEW e, Sound(h, w, e), Drain(rs, h, w, e),
           ~unavailable => Served(rs, h, w, e),
           unavailable' = unavailable,
           registered' \subseteq Txns,
           retired' \subseteq Txns \ registered',
           failed' \subseteq registered',
           blocked' \subseteq Txns,
           WaitingIn(w) \subseteq Waiting
                                  \intersect (registered' \ failed'),
           WaitingIn(w) \subseteq blocked',
           \A t \in WaitingIn(w) : w[t] = waiting[t] /\ h[t] = held[t],
           \A t \in Txns \ registered' : \A r \in Resources : h[t][r] = "none",
           \A t \in Txns :
              (\E r \in Tables : h[t][r] # "none") => h[t][Schema] # "none"
    PROVE  LockIInv'
<1>1. Table(h, w, e)
  BY DEF Sound
<1>2. /\ WaitingIn(waiting') \subseteq WaitingIn(w)
      /\ \A t \in WaitingIn(waiting') : waiting'[t] = w[t]
      /\ \A t \in Txns, r \in Resources :
            held'[t][r] # h[t][r] =>
               /\ t \in WaitingIn(w)
               /\ w[t].res = r
               /\ held'[t][r] \in LockModes
  BY <1>1, DrainBooking
<1>3. Waiting' = WaitingIn(waiting')
  BY DEF Waiting, WaitingIn
<1>4. Booked'
  <2>1. Waiting' \subseteq (registered' \ failed') \intersect blocked'
    BY <1>2, <1>3
  <2>2. \A t \in Txns \ registered' : \A r \in Resources : held'[t][r] = "none"
    BY <1>2
  <2>3. unavailable' => Waiting' = {}
    BY <1>2, <1>3 DEF LockIInv, Booked
  <2> QED BY <2>1, <2>2, <2>3 DEF LockIInv, Booked
<1>5. Covered'
  <2> SUFFICES ASSUME NEW t \in Txns,
                      \/ \E r \in Tables : held'[t][r] # "none"
                      \/ waiting'[t] # NoRequest /\ waiting'[t].res \in Tables
               PROVE  held'[t][Schema] # "none"
    BY DEF Covered
  <2>0. Schema \in Resources /\ Tables \subseteq Resources
    BY DEF Resources
  <2>1. h[t][Schema] # "none"
    <3>1. CASE \E r \in Tables : h[t][r] # "none"
      BY <3>1
    <3>2. CASE waiting'[t] # NoRequest /\ waiting'[t].res \in Tables
      <4>1. t \in WaitingIn(w) /\ waiting'[t] = waiting[t] /\ h[t] = held[t]
        BY <1>2, <3>2 DEF WaitingIn
      <4> QED BY <3>2, <4>1 DEF LockIInv, Covered
    <3>3. CASE \E r \in Tables : held'[t][r] # "none" /\ held'[t][r] # h[t][r]
      <4>1. t \in WaitingIn(w) /\ w[t].res \in Tables
        BY <1>2, <2>0, <3>3
      <4>2. waiting[t] # NoRequest /\ waiting[t].res \in Tables /\ h[t] = held[t]
        BY <4>1 DEF WaitingIn
      <4> QED BY <4>2 DEF LockIInv, Covered
    <3> QED BY <3>1, <3>2, <3>3
  <2> QED BY <1>2, <2>0, <2>1 DEF LockModes
<1> QED BY <1>4, <1>5, DrainSound DEF LockIInv

LEMMA StepLockIInv == LockIInv /\ [LockNext]_lockVars => LockIInv'
<1> SUFFICES ASSUME LockIInv, [LockNext]_lockVars PROVE LockIInv'
  OBVIOUS
<1>0. /\ Sound(held, waiting, earlier) /\ Table(held, waiting, earlier)
      /\ held \in [Txns -> [Resources -> Modes]]
      /\ Schema \in Resources /\ Tables \subseteq Resources
      /\ Waiting = WaitingIn(waiting)
      /\ ~unavailable => Served({}, held, waiting, earlier)
  BY DEF LockIInv, Sound, Table, Typed, Resources, Waiting, WaitingIn
\* A failed wait: t's request leaves its queue, and the queue is drained.
<1>1. ASSUME NEW t \in Txns, t \in registered \ failed, FailWait(t),
             blocked' \in SUBSET Txns, blocked \ {t} \subseteq blocked',
             UNCHANGED <<registered, retired, unavailable>>
      PROVE  LockIInv'
  <2> DEFINE w == NoLongerWaiting({t})
             e == NoLongerQueued({t})
  <2>1. Sound(held, w, e)
    BY <1>0, RemovalSound
  <2>2. ~unavailable => Served(QueueOf(t), held, w, e)
    BY <1>0, RemovalServed DEF QueueOf
  <2>3. \A u \in WaitingIn(w) : u \in Waiting \ {t} /\ w[u] = waiting[u]
    BY DEF WaitingIn, NoLongerWaiting, Waiting
  <2>4. Drain(QueueOf(t), held, w, e) /\ failed' = failed \union {t}
    BY <1>1 DEF FailWait
  <2> HIDE DEF w, e
  <2>5. /\ registered' \subseteq Txns
        /\ retired' \subseteq Txns \ registered'
        /\ failed' \subseteq registered'
        /\ blocked' \subseteq Txns
        /\ WaitingIn(w) \subseteq Waiting \intersect (registered' \ failed')
        /\ WaitingIn(w) \subseteq blocked'
        /\ \A u \in Txns \ registered' : \A r \in Resources : held[u][r] = "none"
    BY <1>1, <2>3, <2>4 DEF LockIInv, Booked
  <2>6. \A u \in Txns :
           (\E r \in Tables : held[u][r] # "none") => held[u][Schema] # "none"
    BY DEF LockIInv, Covered
  <2> QED BY <1>1, <2>1, <2>2, <2>3, <2>4, <2>5, <2>6, DrainBooked
<1>2. ASSUME NEW t \in Txns, Register(t) PROVE LockIInv'
  <2>1. UNCHANGED <<retired, failed, held, waiting, earlier, blocked, unavailable>>
        /\ registered' = registered \union {t} /\ t \notin retired
    BY <1>2 DEF Register
  <2>2. Sound(held', waiting', earlier')
        /\ (~unavailable' => Served({}, held', waiting', earlier'))
    <3>1. held' = held /\ waiting' = waiting /\ earlier' = earlier
          /\ unavailable' = unavailable
      BY <2>1
    <3> QED BY <1>0, <3>1
  <2>3. Booked' /\ Covered'
    BY <2>1 DEF LockIInv, Booked, Covered, Waiting
  <2> QED BY <2>2, <2>3 DEF LockIInv
<1>3. ASSUME NEW t \in Txns, Timeout(t) PROVE LockIInv'
  <2>1. t \in registered \ failed /\ t \in blocked
    BY <1>3 DEF Timeout, LockIInv, Booked, Waiting
  <2>2. blocked' \in SUBSET Txns
    BY <1>3 DEF Timeout, LockIInv, Booked
  <2> QED BY <1>1, <1>3, <2>1, <2>2 DEF Timeout
<1>4. ASSUME NEW t \in Txns, Cancel(t) PROVE LockIInv'
  <2>1. blocked' \in SUBSET Txns
    BY <1>4 DEF Cancel, LockIInv, Booked
  <2> QED BY <1>1, <1>4, <2>1 DEF Cancel
<1>5. ASSUME NEW t \in Txns, ReturnGranted(t) \/ ReturnFailed(t) PROVE LockIInv'
  <2>1. UNCHANGED <<registered, retired, failed, held, waiting, earlier, unavailable>>
        /\ blocked' = blocked \ {t} /\ waiting[t] = NoRequest
    BY <1>5 DEF ReturnGranted, ReturnFailed
  <2>2. Sound(held', waiting', earlier')
        /\ (~unavailable' => Served({}, held', waiting', earlier'))
    <3>1. held' = held /\ waiting' = waiting /\ earlier' = earlier
          /\ unavailable' = unavailable
      BY <2>1
    <3> QED BY <1>0, <3>1
  <2>3. Booked' /\ Covered'
    BY <2>1 DEF LockIInv, Booked, Covered, Waiting
  <2> QED BY <2>2, <2>3 DEF LockIInv
<1>6. ASSUME NEW t \in Txns, ReleaseAll(t) PROVE LockIInv'
  <2> DEFINE rs == {r \in Resources : held[t][r] # "none"} \union QueueOf(t)
             h  == [held EXCEPT ![t] = [r \in Resources |-> "none"]]
             w  == NoLongerWaiting({t})
             e  == NoLongerQueued({t})
  <2>1. h \in [Txns -> [Resources -> Modes]] /\ h[t] = [r \in Resources |-> "none"]
        /\ \A u \in Txns \ {t} : h[u] = held[u]
    BY <1>0 DEF Modes
  <2>2. \A u \in Txns, r \in Resources : r \notin rs => h[u][r] = held[u][r]
    BY <2>1
  <2>3. \A u \in {t} : waiting[u] # NoRequest => waiting[u].res \in rs
    BY DEF QueueOf
  <2>4. \A u \in WaitingIn(w) : u \in Waiting \ {t} /\ w[u] = waiting[u]
    BY DEF WaitingIn, NoLongerWaiting, Waiting
  <2>5. /\ Drain(rs, h, w, e) /\ registered' = registered \ {t}
        /\ retired' = retired \union {t} /\ failed' = failed \ {t}
        /\ UNCHANGED <<blocked, unavailable>> /\ t \in registered
    BY <1>6 DEF ReleaseAll
  <2> HIDE DEF rs, h
  <2>6. Sound(h, w, e)
    <3>1. \A u \in Txns : h[u] = held[u]
                          \/ (u \in {t} /\ \A r \in Resources : h[u][r] = "none")
      BY <2>1
    <3> QED BY <1>0, <2>1, <3>1, RemovalSound
  <2>7. ~unavailable => Served(rs, h, w, e)
    BY <1>0, <2>1, <2>2, <2>3, RemovalServed
  <2> HIDE DEF w, e
  <2>8. /\ registered' \subseteq Txns
        /\ retired' \subseteq Txns \ registered'
        /\ failed' \subseteq registered'
        /\ blocked' \subseteq Txns
        /\ WaitingIn(w) \subseteq Waiting \intersect (registered' \ failed')
        /\ WaitingIn(w) \subseteq blocked'
        /\ \A u \in WaitingIn(w) : w[u] = waiting[u] /\ h[u] = held[u]
        /\ \A u \in Txns \ registered' : \A r \in Resources : h[u][r] = "none"
    BY <2>1, <2>4, <2>5 DEF LockIInv, Booked, Waiting
  <2>9. \A u \in Txns :
           (\E r \in Tables : h[u][r] # "none") => h[u][Schema] # "none"
    BY <1>0, <2>1 DEF LockIInv, Covered
  <2> QED BY <2>5, <2>6, <2>7, <2>8, <2>9, DrainBooked
<1>7. ASSUME NEW t \in Txns, NEW r \in Resources, NEW m \in LockModes,
             AcquireGranted(t, r, m)
      PROVE  LockIInv'
  <2> DEFINE h == [held EXCEPT ![t][r] = GrantMode(held[t][r], m)]
  <2>1. /\ t \in registered \ failed /\ waiting[t] = NoRequest
        /\ r \in Tables => held[t][Schema] # "none"
        /\ held[t][r] \notin {"X", m}
        /\ RequestBlockers(t, r, m) = {}
        /\ Drain({r}, h, waiting, earlier)
        /\ UNCHANGED <<registered, retired, failed, blocked, unavailable>>
    BY <1>7 DEF AcquireGranted, MayRequest
  <2>2. held[t] \in [Resources -> Modes] /\ GrantMode(held[t][r], m) = m
    BY <1>0, <2>1 DEF GrantMode, Modes, LockModes
  <2>3. /\ h \in [Txns -> [Resources -> Modes]]
        /\ \A u \in Txns, q \in Resources :
              h[u][q] = IF u = t /\ q = r THEN m ELSE held[u][q]
        /\ \A u \in Txns \ {t} : h[u] = held[u]
    BY <1>0, <2>2 DEF Modes
  <2> HIDE DEF h
  <2>4. \A u \in Txns \ {t} : ~Conflicts(m, held[u][r])
    BY <1>0, <2>1 DEF RequestBlockers, Blockers, WithRequest, Table, Typed
  <2>5. \A u \in Txns : waiting[u] # NoRequest /\ waiting[u].res = r
                        => ~Conflicts(m, waiting[u].mode)
    <3> SUFFICES ASSUME NEW u \in Txns, waiting[u] # NoRequest, waiting[u].res = r
                 PROVE  ~Conflicts(m, waiting[u].mode)
      OBVIOUS
    <3>1. u # t /\ u \in WithQueue(t, r)[t]
      BY <1>0, <2>1 DEF WithQueue, Queued, Table, Typed
    <3>2. WithRequest(t, r, m)[t].mode = m /\ WithRequest(t, r, m)[u] = waiting[u]
      BY <1>0, <3>1 DEF WithRequest, Table, Typed
    <3> QED BY <2>1, <3>1, <3>2 DEF RequestBlockers, Blockers
  <2>6. Table(h, waiting, earlier)
    BY <1>0, <2>1, <2>3 DEF Table, Typed, Needed
  <2>7. Exclusive(h)
    <3> SUFFICES ASSUME NEW u \in Txns, NEW v \in Txns, NEW q \in Resources,
                        u # v, h[u][q] # "none"
                 PROVE  ~Conflicts(h[u][q], h[v][q])
      BY DEF Exclusive
    <3> QED BY <1>0, <2>3, <2>4 DEF Sound, Exclusive, Conflicts, LockModes
  <2>8. Acyclic(h, waiting, earlier)
    <3>1. ASSUME NEW u \in WaitingIn(waiting)
          PROVE  Blockers(u, h, waiting, earlier)
                    \subseteq Blockers(u, held, waiting, earlier)
      <4>1. u \in Txns /\ waiting[u] \in Requests
        BY <1>0 DEF WaitingIn, Table, Typed
      <4>2. waiting[u].res \in Resources /\ waiting[u].mode \in LockModes
        BY <4>1 DEF Requests
      <4> QED BY <2>3, <2>5, <4>1, <4>2 DEF WaitingIn, Blockers, Conflicts, LockModes
    <3> QED BY <1>0, <3>1, AcyclicShrinks DEF Sound
  <2>9. ~unavailable => Served({r}, h, waiting, earlier)
    <3> SUFFICES ASSUME ~unavailable, NEW u \in WaitingIn(waiting), waiting[u].res # r
                 PROVE  Blockers(u, h, waiting, earlier) # {}
      BY DEF Served
    <3>1. u \in Txns /\ waiting[u].res \in Resources
      BY <1>0 DEF WaitingIn, Table, Typed, Requests
    <3>2. Blockers(u, held, waiting, earlier) # {}
      BY <1>0 DEF Served
    <3> QED BY <2>3, <3>1, <3>2 DEF Blockers
  <2>10. \A u \in WaitingIn(waiting) : u # t /\ u \in Txns
    BY <2>1 DEF WaitingIn
  <2>11. \A u \in Txns :
           (\E q \in Tables : h[u][q] # "none") => h[u][Schema] # "none"
    <3> SUFFICES ASSUME NEW u \in Txns, NEW q \in Tables, h[u][q] # "none"
                 PROVE  h[u][Schema] # "none"
      OBVIOUS
    <3> QED BY <1>0, <2>1, <2>3 DEF LockIInv, Covered, Resources, LockModes
  <2>12. \A u \in Txns \ registered' : \A q \in Resources : h[u][q] = "none"
    BY <2>1, <2>3 DEF LockIInv, Booked
  <2> QED
    BY <1>0, <2>1, <2>3, <2>6, <2>7, <2>8, <2>9, <2>10, <2>11, <2>12, DrainBooked
       DEF LockIInv, Booked, Sound
<1>8. ASSUME NEW t \in Txns, NEW r \in Resources, NEW m \in LockModes,
             AcquireDeadlock(t, r, m)
      PROVE  LockIInv'
  <2>1. /\ t \in registered \ failed /\ waiting[t] = NoRequest
        /\ Drain({r}, held, waiting, earlier)
        /\ failed' = failed \union {t}
        /\ UNCHANGED <<registered, retired, blocked, unavailable>>
    BY <1>8 DEF AcquireDeadlock, MayRequest
  <2>2. ~unavailable => Served({r}, held, waiting, earlier)
    BY <1>0 DEF Served
  <2>3. \A u \in WaitingIn(waiting) : u # t
    BY <2>1 DEF WaitingIn
  <2>4. \A u \in Txns :
           (\E q \in Tables : held[u][q] # "none") => held[u][Schema] # "none"
    BY DEF LockIInv, Covered
  <2> QED BY <1>0, <2>1, <2>2, <2>3, <2>4, DrainBooked DEF LockIInv, Booked
\* The requester queues up: the only step that adds an edge to the wait-for graph.
<1>9. ASSUME NEW t \in Txns, NEW r \in Resources, NEW m \in LockModes,
             AcquireWait(t, r, m)
      PROVE  LockIInv'
  <2> DEFINE w == WithRequest(t, r, m)
             e == WithQueue(t, r)
  <2>1. /\ t \in registered \ failed /\ waiting[t] = NoRequest /\ ~unavailable
        /\ r \in Tables => held[t][Schema] # "none"
        /\ held[t][r] \notin {"X", m}
        /\ RequestBlockers(t, r, m) # {} /\ ~ClosesCycle(t, w, e)
        /\ waiting' = w /\ earlier' = e /\ blocked' = blocked \union {t}
        /\ UNCHANGED <<registered, retired, failed, held, unavailable>>
    BY <1>9 DEF AcquireWait, MayRequest
  <2>2. /\ w[t] = [res |-> r, mode |-> m] /\ w[t] # NoRequest
        /\ e[t] = Queued(r, waiting) /\ t \notin e[t]
        /\ \A u \in Txns \ {t} : w[u] = waiting[u] /\ e[u] = earlier[u] /\ t \notin e[u]
    BY <1>0, <2>1, NoRequestAssumption
       DEF WithRequest, WithQueue, Table, Typed, Ordered, Queued, Requests
  <2>3. Typed(held, w, e)
    BY <1>0 DEF WithRequest, WithQueue, Table, Typed, Queued, Requests
  <2> HIDE DEF w, e
  <2>4. Ordered(w, e)
    <3> SUFFICES ASSUME NEW u \in Txns
                 PROVE  /\ w[u] = NoRequest => e[u] = {}
                        /\ w[u] # NoRequest =>
                             /\ u \notin e[u]
                             /\ e[u] \subseteq Queued(w[u].res, w)
                             /\ \A v \in e[u] : e[v] \subseteq e[u]
                             /\ \A v \in Queued(w[u].res, w) \ {u} :
                                   v \in e[u] \/ u \in e[v]
      BY DEF Ordered
    <3>1. CASE u = t
      BY <1>0, <2>1, <2>2, <3>1 DEF Table, Ordered, Queued
    <3>2. CASE u # t
      BY <1>0, <2>1, <2>2, <3>2 DEF Table, Ordered, Queued
    <3> QED BY <3>1, <3>2
  <2>5. Needed(held, w)
    BY <1>0, <2>1, <2>2 DEF Table, Needed
  <2>6. \A u \in WaitingIn(waiting) : Blockers(u, held, w, e)
                                         = Blockers(u, held, waiting, earlier)
    <3> SUFFICES ASSUME NEW u \in WaitingIn(waiting)
                 PROVE  Blockers(u, held, w, e) = Blockers(u, held, waiting, earlier)
      OBVIOUS
    <3> QED BY <2>1, <2>2 DEF WaitingIn, Blockers
  <2>7. WaitingIn(w) = WaitingIn(waiting) \union {t}
    BY <2>2 DEF WaitingIn
  <2>8. Acyclic(held, w, e)
    <3> SUFFICES ASSUME NEW C \in SUBSET WaitingIn(w), C # {}
                 PROVE  \E u \in C : Blockers(u, held, w, e) \intersect C = {}
      BY DEF Acyclic
    <3>1. PICK R \in SUBSET Txns :
             /\ Blockers(t, held, w, e) \subseteq R
             /\ \A u \in R : w[u] # NoRequest => Blockers(u, held, w, e) \subseteq R
             /\ t \notin R
      BY <2>1 DEF ClosesCycle
    <3>2. CASE C \intersect R = {} /\ t \in C
      BY <3>1, <3>2
    <3>3. CASE C \intersect R # {}
      <4>1. C \intersect R \in SUBSET WaitingIn(waiting)
        BY <2>7, <3>1
      <4>2. PICK u \in C \intersect R :
               Blockers(u, held, waiting, earlier) \intersect (C \intersect R) = {}
        BY <1>0, <3>3, <4>1 DEF Sound, Acyclic
      <4>3. Blockers(u, held, w, e) \subseteq R
        BY <3>1, <4>1, <4>2 DEF WaitingIn
      <4> QED BY <2>6, <4>1, <4>2, <4>3
    <3>4. CASE t \notin C
      BY <1>0, <2>6, <2>7, <3>4 DEF Sound, Acyclic
    <3> QED BY <3>2, <3>3, <3>4
  <2>9. Served({}, held, w, e)
    BY <1>0, <2>1, <2>6, <2>7 DEF Served, RequestBlockers, w, e
  <2>10. Sound(held', waiting', earlier') /\ Served({}, held', waiting', earlier')
    BY <1>0, <2>1, <2>3, <2>4, <2>5, <2>8, <2>9 DEF Sound, Table
  <2>11. Booked'
    <3>1. Waiting' = Waiting \union {t}
      BY <2>1, <2>7 DEF Waiting, WaitingIn
    <3> QED BY <2>1, <3>1 DEF LockIInv, Booked
  <2>12. Covered'
    BY <2>1, <2>2 DEF LockIInv, Covered
  <2> QED BY <2>10, <2>11, <2>12 DEF LockIInv
<1>10. ASSUME Quarantine PROVE LockIInv'
  <2>1. /\ unavailable' = TRUE /\ failed' = failed \union Waiting
        /\ waiting' = NoLongerWaiting(Waiting) /\ earlier' = NoLongerQueued(Waiting)
        /\ UNCHANGED <<registered, retired, held, blocked>>
    BY <1>10 DEF Quarantine, Waiting
  <2>2. Sound(held', waiting', earlier')
    BY <1>0, <2>1, RemovalSound DEF Waiting
  <2>3. Waiting' = {}
    BY <2>1 DEF Waiting, NoLongerWaiting
  <2>4. Booked' /\ Covered'
    BY <2>1, <2>3 DEF LockIInv, Booked, Covered, Waiting
  <2> QED BY <2>1, <2>2, <2>4 DEF LockIInv
<1>11. CASE UNCHANGED lockVars
  <2>1. UNCHANGED <<registered, retired, failed, held, waiting, earlier, blocked,
                    unavailable>>
    BY <1>11 DEF lockVars
  <2>2. Sound(held', waiting', earlier')
        /\ (~unavailable' => Served({}, held', waiting', earlier'))
    <3>1. held' = held /\ waiting' = waiting /\ earlier' = earlier
          /\ unavailable' = unavailable
      BY <2>1
    <3> QED BY <1>0, <3>1
  <2>3. Booked' /\ Covered'
    BY <2>1 DEF LockIInv, Booked, Covered, Waiting
  <2> QED BY <2>2, <2>3 DEF LockIInv
<1> QED
  BY <1>2, <1>3, <1>4, <1>5, <1>6, <1>7, <1>8, <1>9, <1>10, <1>11 DEF LockNext, Acquire

-----------------------------------------------------------------------------
(* The theorems. *)

\* The inductive invariant holds in every reachable state of the domain.
THEOREM LockInvariant == LockSpec => []LockIInv
  BY InitLockIInv, StepLockIInv, PTL DEF LockSpec

LEMMA LockIInvImplies ==
    LockIInv => /\ TypeOK /\ QueuesAgree /\ HoldersCompatible /\ NoWaitCycle
                /\ SchemaCoversTables /\ (~unavailable => NoLostGrant)
<1> SUFFICES ASSUME LockIInv
             PROVE  /\ TypeOK /\ QueuesAgree /\ HoldersCompatible /\ NoWaitCycle
                    /\ SchemaCoversTables /\ (~unavailable => NoLostGrant)
  OBVIOUS
<1>1. TypeOK
  BY DEF LockIInv, Sound, Table, Typed, Booked, TypeOK, Modes
<1>2. QueuesAgree
  BY DEF LockIInv, Sound, Table, Ordered, Booked, QueuesAgree, Waiting
<1>3. HoldersCompatible
  BY DEF LockIInv, Sound, Exclusive, HoldersCompatible
<1>4. NoWaitCycle
  BY DEF LockIInv, Sound, Acyclic, WaitingIn, NoWaitCycle, Waiting, WaitsFor
<1>5. SchemaCoversTables
  BY DEF LockIInv, Covered, SchemaCoversTables
<1>6. ~unavailable => NoLostGrant
  BY DEF LockIInv, Served, WaitingIn, NoLostGrant, Waiting, WaitsFor
<1> QED BY <1>1, <1>2, <1>3, <1>4, <1>5, <1>6

\* _waiting, _held, _failed and the queues of the entries never disagree.
THEOREM QueuesAlwaysAgree == LockSpec => [](TypeOK /\ QueuesAgree)
  BY LockInvariant, LockIInvImplies, PTL

\* An exclusive lock excludes every other holder.
THEOREM MutualExclusion == LockSpec => []HoldersCompatible
  BY LockInvariant, LockIInvImplies, PTL

\* Choosing the requester that closes a cycle as the victim is enough: no cycle
\* of waiting transactions ever forms.
THEOREM DeadlockFreedom == LockSpec => []NoWaitCycle
  BY LockInvariant, LockIInvImplies, PTL

\* Every waiter has a blocker: no release or failure forgets to serve a queue.
THEOREM NoLostWakeup == LockSpec => []NoLostGrant
<1>1. LockIInv => NoLostGrant
  BY LockIInvImplies DEF QueuesAgree, NoLostGrant
<1> QED BY <1>1, LockInvariant, PTL

\* Table locks are only held under the schema lock.
THEOREM SchemaFirst == LockSpec => []SchemaCoversTables
  BY LockInvariant, LockIInvImplies, PTL

\* A drain serves nobody past a request that stays.
LEMMA DrainFIFO ==
    ASSUME NEW rs, NEW h, NEW w, NEW e, Table(h, w, e), Drain(rs, h, w, e),
           NEW t \in Txns, NEW r \in Resources, held'[t][r] # h[t][r]
    PROVE  /\ ~unavailable /\ w[t] # NoRequest
           /\ \A u \in Queued(r, w) \ {t} : waiting'[u] = NoRequest \/ t \in e[u]
<1>1. t \in Granted(rs, h, w, e) /\ w[t].res = r
  BY DrainedFacts DEF Drain
<1>2. ~unavailable /\ w[t] # NoRequest /\ e[t] \subseteq Granted(rs, h, w, e)
  BY <1>1, GrantedFacts
<1>3. ASSUME NEW u \in Queued(r, w) \ {t} PROVE waiting'[u] = NoRequest \/ t \in e[u]
  <2>1. u \in e[t] \/ t \in e[u]
    BY <1>1, <1>2, <1>3 DEF Table, Ordered, Queued
  <2>2. u \in Granted(rs, h, w, e) => waiting'[u] = NoRequest
    BY <1>3, DrainedFacts DEF Drain, Queued
  <2> QED BY <1>2, <2>1, <2>2
<1> QED BY <1>2, <1>3

\* One step of the property NoOvertaking.
ServedInTurn(t, r) ==
    Strengthened(t, r) =>
        /\ ~unavailable
        /\ \A u \in Queued(r, waiting) \ {t} :
             \/ waiting'[u] = NoRequest
             \/ t \in Waiting /\ t \in earlier[u]
             \/ ~Conflicts(held'[t][r], waiting[u].mode)

LEMMA StepServedInTurn ==
    ASSUME LockIInv, LockNext, NEW t \in Txns, NEW r \in Resources
    PROVE  ServedInTurn(t, r)
<1>0. /\ Sound(held, waiting, earlier) /\ Table(held, waiting, earlier)
      /\ held \in [Txns -> [Resources -> Modes]]
  BY DEF LockIInv, Sound, Table, Typed
<1>1. ASSUME held' = held PROVE ServedInTurn(t, r)
  BY <1>1 DEF ServedInTurn, Strengthened
\* The requests of D leave, then a drain: locks that grow were waited for.
<1>2. ASSUME NEW rs, NEW h \in [Txns -> [Resources -> Modes]], NEW D \in SUBSET Txns,
             \A u \in Txns : h[u] = held[u]
                             \/ (u \in D /\ \A q \in Resources : h[u][q] = "none"),
             Drain(rs, h, NoLongerWaiting(D), NoLongerQueued(D))
      PROVE  ServedInTurn(t, r)
  <2> DEFINE w == NoLongerWaiting(D)
             e == NoLongerQueued(D)
  <2>1. Table(h, w, e)
    BY <1>0, <1>2, RemovalSound DEF Sound
  <2>2. ASSUME NEW u \in Txns
        PROVE  /\ u \in D => w[u] = NoRequest /\ e[u] = {}
               /\ u \notin D => w[u] = waiting[u] /\ e[u] = earlier[u] \ D
    BY DEF NoLongerWaiting, NoLongerQueued
  <2> HIDE DEF w, e
  <2>3. SUFFICES ASSUME Strengthened(t, r)
                 PROVE  /\ ~unavailable
                        /\ \A u \in Queued(r, waiting) \ {t} :
                             \/ waiting'[u] = NoRequest
                             \/ t \in Waiting /\ t \in earlier[u]
    BY DEF ServedInTurn
  <2>4. held'[t][r] # h[t][r]
    BY <1>2, <2>3 DEF Strengthened
  <2>5. /\ ~unavailable /\ w[t] # NoRequest
        /\ \A u \in Queued(r, w) \ {t} : waiting'[u] = NoRequest \/ t \in e[u]
    BY <1>2, <2>1, <2>4, DrainFIFO DEF w, e
  <2>6. ASSUME NEW u \in Queued(r, waiting) \ {t}
        PROVE  waiting'[u] = NoRequest \/ (t \in Waiting /\ t \in earlier[u])
    <3>1. CASE u \in D
      <4>1. u \in Txns /\ u \notin WaitingIn(w)
        BY <2>2, <2>6, <3>1 DEF Queued, WaitingIn
      <4>2. WaitingIn(waiting') \subseteq WaitingIn(w)
        BY <1>2, <2>1, DrainBooking DEF w, e
      <4> QED BY <4>1, <4>2 DEF WaitingIn
    <3>2. CASE u \notin D
      BY <2>2, <2>5, <2>6, <3>2 DEF Queued, Waiting
    <3> QED BY <3>1, <3>2
  <2> QED BY <2>5, <2>6
<1>3. ASSUME NEW x \in Txns, FailWait(x) PROVE ServedInTurn(t, r)
  BY <1>0, <1>2, <1>3 DEF FailWait
<1>4. ASSUME NEW x \in Txns, ReleaseAll(x) PROVE ServedInTurn(t, r)
  <2> DEFINE h == [held EXCEPT ![x] = [q \in Resources |-> "none"]]
  <2>1. h \in [Txns -> [Resources -> Modes]]
        /\ \A u \in Txns : h[u] = held[u]
                           \/ (u \in {x} /\ \A q \in Resources : h[u][q] = "none")
    BY <1>0 DEF Modes
  <2>2. Drain({q \in Resources : held[x][q] # "none"} \union QueueOf(x), h,
              NoLongerWaiting({x}), NoLongerQueued({x}))
    BY <1>4 DEF ReleaseAll
  <2> HIDE DEF h
  <2>3. {x} \in SUBSET Txns
    OBVIOUS
  <2> QED BY <1>2, <2>1, <2>2, <2>3
<1>5. ASSUME NEW x \in Txns, NEW q \in Resources, NEW m \in LockModes,
             AcquireDeadlock(x, q, m)
      PROVE  ServedInTurn(t, r)
  <2>1. Drain({q}, held, waiting, earlier)
    BY <1>5 DEF AcquireDeadlock
  <2>2. Strengthened(t, r) => held'[t][r] # held[t][r]
    BY DEF Strengthened
  <2> QED BY <1>0, <2>1, <2>2, DrainFIFO DEF ServedInTurn, Waiting
<1>6. ASSUME NEW x \in Txns, NEW q \in Resources, NEW m \in LockModes,
             AcquireGranted(x, q, m)
      PROVE  ServedInTurn(t, r)
  <2> DEFINE h == [held EXCEPT ![x][q] = GrantMode(held[x][q], m)]
  <2>1. /\ waiting[x] = NoRequest /\ ~unavailable
        /\ held[x][q] \notin {"X", m}
        /\ RequestBlockers(x, q, m) = {}
        /\ Drain({q}, h, waiting, earlier)
    BY <1>6 DEF AcquireGranted, MayRequest
  <2>2. held[x] \in [Resources -> Modes] /\ GrantMode(held[x][q], m) = m
    BY <1>0, <2>1 DEF GrantMode, Modes, LockModes
  <2>3. /\ h \in [Txns -> [Resources -> Modes]]
        /\ \A u \in Txns, p \in Resources :
              h[u][p] = IF u = x /\ p = q THEN m ELSE held[u][p]
    BY <1>0, <2>2 DEF Modes
  <2> HIDE DEF h
  <2>4. Table(h, waiting, earlier)
    BY <1>0, <2>1, <2>3 DEF Table, Typed, Needed
  <2>5. CASE held'[t][r] # h[t][r]
    BY <2>1, <2>4, <2>5, DrainFIFO DEF ServedInTurn, Waiting
  <2>6. CASE held'[t][r] = h[t][r] /\ ~(t = x /\ r = q)
    BY <2>3, <2>6 DEF ServedInTurn, Strengthened
  <2>7. CASE held'[t][r] = h[t][r] /\ t = x /\ r = q
    <3> SUFFICES ASSUME NEW u \in Queued(q, waiting) \ {x}
                 PROVE  ~Conflicts(m, waiting[u].mode)
      BY <2>1, <2>3, <2>7 DEF ServedInTurn
    <3>1. u \in Txns /\ u \in WithQueue(x, q)[x]
      BY <1>0 DEF WithQueue, Queued, Table, Typed
    <3>2. WithRequest(x, q, m)[x].mode = m /\ WithRequest(x, q, m)[u] = waiting[u]
      BY <1>0, <3>1 DEF WithRequest, Table, Typed
    <3> QED BY <2>1, <3>1, <3>2 DEF RequestBlockers, Blockers
  <2> QED BY <2>5, <2>6, <2>7
<1> QED
  BY <1>1, <1>3, <1>4, <1>5, <1>6
     DEF LockNext, Acquire, Register, Timeout, Cancel, ReturnGranted, ReturnFailed,
         AcquireWait, Quarantine

\* No lock is granted past a conflicting request that asked first, and none at
\* all once the domain is quarantined.
THEOREM FirstComeFirstServed == LockSpec => NoOvertaking
<1>1. LockIInv /\ [LockNext]_lockVars =>
         [\A t \in Txns, r \in Resources :
            Strengthened(t, r) =>
               /\ ~unavailable
               /\ \A u \in Queued(r, waiting) \ {t} :
                    \/ waiting'[u] = NoRequest
                    \/ t \in Waiting /\ t \in earlier[u]
                    \/ ~Conflicts(held'[t][r], waiting[u].mode)]_lockVars
  <2> SUFFICES ASSUME LockIInv, LockNext
               PROVE  \A t \in Txns, r \in Resources : ServedInTurn(t, r)
    BY DEF ServedInTurn
  <2> QED BY StepServedInTurn
<1> QED BY <1>1, LockInvariant, PTL DEF LockSpec, NoOvertaking

\* One step of the property LocksGrowThenGo.
TwoPhase(t) ==
    /\ t \in registered' =>
         \A r \in Resources :
            held'[t][r] = held[t][r] \/ (held[t][r] # "X" /\ Strengthened(t, r))
    /\ t \in retired => /\ t \in retired' /\ t \notin registered'
                        /\ \A r \in Resources : held'[t][r] = "none"

LEMMA StepTwoPhase ==
    ASSUME LockIInv, LockNext, NEW t \in Txns
    PROVE  TwoPhase(t)
<1>0. /\ Sound(held, waiting, earlier) /\ Table(held, waiting, earlier)
      /\ held \in [Txns -> [Resources -> Modes]]
      /\ registered \subseteq Txns /\ retired \subseteq Txns \ registered
      /\ \A u \in Txns \ registered : \A r \in Resources : held[u][r] = "none"
  BY DEF LockIInv, Sound, Table, Typed, Booked
<1>1. ASSUME held' = held, retired' = retired, registered' \intersect retired = {}
      PROVE  TwoPhase(t)
  BY <1>0, <1>1 DEF TwoPhase
\* A drain of a table that differs from the present one in the locks of D only.
<1>2. ASSUME NEW rs, NEW h, NEW w, NEW e, Table(h, w, e), Drain(rs, h, w, e),
             WaitingIn(w) \subseteq Waiting,
             NEW D \in SUBSET Txns, \A u \in Txns \ D : h[u] = held[u],
             D \intersect registered' = {}, t \notin D,
             retired \subseteq retired', registered' \subseteq registered
      PROVE  TwoPhase(t)
  <2>1. \A r \in Resources :
           held'[t][r] # h[t][r] =>
              /\ t \in WaitingIn(w) /\ h[t][r] # "X" /\ held'[t][r] \in LockModes
    BY <1>2, DrainBooking
  <2>2. t \in WaitingIn(w) => t \in registered
    BY <1>2 DEF LockIInv, Booked
  <2> QED BY <1>0, <1>2, <2>1, <2>2 DEF TwoPhase, Strengthened, LockModes
<1>3. ASSUME NEW x \in Txns, FailWait(x), UNCHANGED <<registered, retired>>
      PROVE  TwoPhase(t)
  <2>1. Table(held, NoLongerWaiting({x}), NoLongerQueued({x}))
    BY <1>0, RemovalSound DEF Sound
  <2>2. WaitingIn(NoLongerWaiting({x})) \subseteq Waiting
    BY DEF WaitingIn, NoLongerWaiting, Waiting
  <2>3. Drain(QueueOf(x), held, NoLongerWaiting({x}), NoLongerQueued({x}))
    BY <1>3 DEF FailWait
  <2>4. {} \in SUBSET Txns /\ {} \intersect registered' = {} /\ t \notin {}
    OBVIOUS
  <2> QED BY <1>2, <1>3, <2>1, <2>2, <2>3, <2>4
<1>4. ASSUME NEW x \in Txns, ReleaseAll(x) PROVE TwoPhase(t)
  <2> DEFINE h  == [held EXCEPT ![x] = [q \in Resources |-> "none"]]
             rs == {q \in Resources : held[x][q] # "none"} \union QueueOf(x)
             w  == NoLongerWaiting({x})
             e  == NoLongerQueued({x})
  <2>1. /\ h \in [Txns -> [Resources -> Modes]]
        /\ \A u \in Txns \ {x} : h[u] = held[u]
        /\ \A q \in Resources : h[x][q] = "none"
    BY <1>0 DEF Modes
  <2>2. /\ Drain(rs, h, w, e) /\ x \in registered
        /\ registered' = registered \ {x} /\ retired' = retired \union {x}
    BY <1>4 DEF ReleaseAll
  <2>3. WaitingIn(w) \subseteq Waiting \ {x}
    BY DEF WaitingIn, NoLongerWaiting, Waiting
  <2> HIDE DEF h, rs
  <2>4. Sound(h, w, e)
    <3>1. \A u \in Txns : h[u] = held[u]
                          \/ (u \in {x} /\ \A q \in Resources : h[u][q] = "none")
      BY <2>1
    <3> QED BY <1>0, <2>1, <3>1, RemovalSound
  <2>5. Table(h, w, e)
    BY <2>4 DEF Sound
  <2> HIDE DEF w, e
  <2>6. CASE t = x
    BY <1>0, <2>2, <2>6 DEF TwoPhase
  <2>7. CASE t # x
    <3>1. {x} \in SUBSET Txns /\ {x} \intersect registered' = {} /\ t \notin {x}
      BY <2>2, <2>7
    <3>2. retired \subseteq retired' /\ registered' \subseteq registered
      BY <2>2
    <3> QED BY <1>2, <2>1, <2>2, <2>3, <2>5, <3>1, <3>2
  <2> QED BY <2>6, <2>7
<1>5. ASSUME NEW x \in Txns, NEW q \in Resources, NEW m \in LockModes,
             AcquireDeadlock(x, q, m)
      PROVE  TwoPhase(t)
  <2>1. Drain({q}, held, waiting, earlier) /\ UNCHANGED <<registered, retired>>
    BY <1>5 DEF AcquireDeadlock
  <2>2. {} \in SUBSET Txns /\ {} \intersect registered' = {} /\ t \notin {}
    OBVIOUS
  <2>3. WaitingIn(waiting) \subseteq Waiting
    BY DEF WaitingIn, Waiting
  <2> QED BY <1>0, <1>2, <2>1, <2>2, <2>3
<1>6. ASSUME NEW x \in Txns, NEW q \in Resources, NEW m \in LockModes,
             AcquireGranted(x, q, m)
      PROVE  TwoPhase(t)
  <2> DEFINE h == [held EXCEPT ![x][q] = GrantMode(held[x][q], m)]
  <2>1. /\ waiting[x] = NoRequest /\ x \in registered
        /\ held[x][q] \notin {"X", m}
        /\ Drain({q}, h, waiting, earlier)
        /\ UNCHANGED <<registered, retired>>
    BY <1>6 DEF AcquireGranted, MayRequest
  <2>2. held[x] \in [Resources -> Modes] /\ GrantMode(held[x][q], m) = m
    BY <1>0, <2>1 DEF GrantMode, Modes, LockModes
  <2>3. /\ h \in [Txns -> [Resources -> Modes]]
        /\ \A u \in Txns, p \in Resources :
              h[u][p] = IF u = x /\ p = q THEN m ELSE held[u][p]
    BY <1>0, <2>2 DEF Modes
  <2> HIDE DEF h
  <2>4. Table(h, waiting, earlier)
    BY <1>0, <2>1, <2>3 DEF Table, Typed, Needed
  <2>5. \A r \in Resources :
           held'[t][r] # h[t][r] =>
              /\ t \in WaitingIn(waiting) /\ h[t][r] # "X" /\ held'[t][r] \in LockModes
    BY <2>1, <2>4, DrainBooking
  <2>6. t = x => t \notin WaitingIn(waiting)
    BY <2>1 DEF WaitingIn
  <2>7. t \in WaitingIn(waiting) => t \in registered
    BY DEF LockIInv, Booked, Waiting, WaitingIn
  <2> QED BY <1>0, <2>1, <2>3, <2>5, <2>6, <2>7 DEF TwoPhase, Strengthened, LockModes
<1> QED
  BY <1>0, <1>1, <1>3, <1>4, <1>5, <1>6
     DEF LockNext, Acquire, Register, Timeout, Cancel, ReturnGranted, ReturnFailed,
         AcquireWait, Quarantine

\* Strict two-phase locking, for every transaction.
THEOREM StrictTwoPhaseLocking == LockSpec => LocksGrowThenGo
<1>1. LockIInv /\ [LockNext]_lockVars =>
         [\A t \in Txns :
            /\ t \in registered' =>
                 \A r \in Resources :
                    held'[t][r] = held[t][r] \/ (held[t][r] # "X" /\ Strengthened(t, r))
            /\ t \in retired => /\ t \in retired' /\ t \notin registered'
                                /\ \A r \in Resources : held'[t][r] = "none"]_lockVars
  <2> SUFFICES ASSUME LockIInv, LockNext PROVE \A t \in Txns : TwoPhase(t)
    BY DEF TwoPhase
  <2> QED BY StepTwoPhase
<1> QED BY <1>1, LockInvariant, PTL DEF LockSpec, LocksGrowThenGo

\* What a step may do to a request: nothing, or it answers it, with the lock or
\* because its transaction failed or ended or the domain was quarantined.
Answered(t) ==
    /\ waiting[t] # NoRequest =>
         \/ waiting'[t] = waiting[t]
         \/ /\ waiting'[t] = NoRequest
            /\ \/ held'[t][waiting[t].res] = waiting[t].mode
               \/ t \notin registered' \/ t \in failed' \/ unavailable'
    /\ waiting[t] = NoRequest /\ waiting'[t] # NoRequest => t \in blocked' \ blocked
    /\ t \in failed \intersect registered' => t \in failed'
    /\ unavailable => unavailable'

LEMMA StepAnswered ==
    ASSUME LockIInv, LockNext, NEW t \in Txns
    PROVE  Answered(t)
<1>0. /\ Table(held, waiting, earlier)
      /\ held \in [Txns -> [Resources -> Modes]]
      /\ waiting \in [Txns -> Requests \union {NoRequest}]
      /\ \A u \in Txns : waiting[u] # NoRequest =>
            waiting[u].res \in Resources /\ u \in blocked /\ ~unavailable
  BY DEF LockIInv, Sound, Table, Typed, Booked, Waiting, Requests
\* Some requests are dropped, then a drain.
<1>1. ASSUME NEW rs, NEW h, NEW w, NEW e, Table(h, w, e), Drain(rs, h, w, e),
             w[t] = waiting[t]
             \/ (w[t] = NoRequest /\ (t \notin registered' \/ t \in failed')),
             t \in failed \intersect registered' => t \in failed',
             unavailable => unavailable'
      PROVE  Answered(t)
  <2>1. /\ waiting'[t] = NoRequest \/ waiting'[t] = w[t]
        /\ waiting'[t] # w[t] /\ w[t].res \in Resources =>
              held'[t][w[t].res] = w[t].mode
    BY <1>1, DrainedFacts DEF Drain
  <2> QED BY <1>0, <1>1, <2>1 DEF Answered
<1>2. ASSUME NEW x \in Txns, FailWait(x),
             UNCHANGED <<registered, retired, unavailable>>
      PROVE  Answered(t)
  <2>1. Table(held, NoLongerWaiting({x}), NoLongerQueued({x}))
    BY <1>0, RemovalSound DEF LockIInv, Sound
  <2>2. /\ NoLongerWaiting({x})[t] = waiting[t]
           \/ (NoLongerWaiting({x})[t] = NoRequest /\ t \in failed')
        /\ Drain(QueueOf(x), held, NoLongerWaiting({x}), NoLongerQueued({x}))
        /\ failed \subseteq failed'
    BY <1>2 DEF FailWait, NoLongerWaiting
  <2> QED BY <1>1, <1>2, <2>1, <2>2
<1>3. ASSUME NEW x \in Txns, ReleaseAll(x) PROVE Answered(t)
  <2> DEFINE h  == [held EXCEPT ![x] = [q \in Resources |-> "none"]]
             rs == {q \in Resources : held[x][q] # "none"} \union QueueOf(x)
  <2>1. h \in [Txns -> [Resources -> Modes]]
        /\ \A u \in Txns : h[u] = held[u]
                           \/ (u \in {x} /\ \A q \in Resources : h[u][q] = "none")
    BY <1>0 DEF Modes
  <2>2. /\ Drain(rs, h, NoLongerWaiting({x}), NoLongerQueued({x}))
        /\ registered' = registered \ {x} /\ failed' = failed \ {x}
        /\ unavailable' = unavailable
    BY <1>3 DEF ReleaseAll
  <2>3. NoLongerWaiting({x})[t] = waiting[t]
        \/ (NoLongerWaiting({x})[t] = NoRequest /\ t = x)
    BY DEF NoLongerWaiting
  <2> HIDE DEF h, rs
  <2>4. Table(h, NoLongerWaiting({x}), NoLongerQueued({x}))
    BY <2>1, RemovalSound DEF LockIInv, Sound
  <2> QED BY <1>1, <2>2, <2>3, <2>4
<1>4. ASSUME NEW x \in Txns, NEW q \in Resources, NEW m \in LockModes,
             AcquireDeadlock(x, q, m)
      PROVE  Answered(t)
  <2>1. /\ Drain({q}, held, waiting, earlier) /\ failed \subseteq failed'
        /\ UNCHANGED <<registered, unavailable>>
    BY <1>4 DEF AcquireDeadlock
  <2> QED BY <1>0, <1>1, <2>1
<1>5. ASSUME NEW x \in Txns, NEW q \in Resources, NEW m \in LockModes,
             AcquireGranted(x, q, m)
      PROVE  Answered(t)
  <2> DEFINE h == [held EXCEPT ![x][q] = GrantMode(held[x][q], m)]
  <2>1. /\ waiting[x] = NoRequest
        /\ held[x][q] \notin {"X", m}
        /\ Drain({q}, h, waiting, earlier)
        /\ UNCHANGED <<registered, failed, unavailable>>
    BY <1>5 DEF AcquireGranted, MayRequest
  <2>2. held[x] \in [Resources -> Modes] /\ GrantMode(held[x][q], m) = m
    BY <1>0, <2>1 DEF GrantMode, Modes, LockModes
  <2>3. /\ h \in [Txns -> [Resources -> Modes]]
        /\ \A u \in Txns, p \in Resources :
              h[u][p] = IF u = x /\ p = q THEN m ELSE held[u][p]
    BY <1>0, <2>2 DEF Modes
  <2> HIDE DEF h
  <2>4. Table(h, waiting, earlier)
    BY <1>0, <2>1, <2>3 DEF Table, Typed, Needed
  <2> QED BY <1>1, <2>1, <2>4
<1>6. ASSUME NEW x \in Txns, NEW q \in Resources, NEW m \in LockModes,
             AcquireWait(x, q, m)
      PROVE  Answered(t)
  BY <1>0, <1>6 DEF AcquireWait, MayRequest, WithRequest, Answered
<1>7. ASSUME Quarantine PROVE Answered(t)
  BY <1>0, <1>7 DEF Quarantine, NoLongerWaiting, Answered
<1> QED
  BY <1>2, <1>3, <1>4, <1>5, <1>6, <1>7
     DEF LockNext, Acquire, Register, Timeout, Cancel, ReturnGranted, ReturnFailed,
         Answered

\* After acquire granted its lock at once, the requester has it.
LEMMA GrantedHolds ==
    ASSUME LockIInv, NEW t \in Txns, NEW r \in Resources, NEW m \in LockModes,
           AcquireGranted(t, r, m)
    PROVE  held'[t][r] = m
<1> DEFINE h == [held EXCEPT ![t][r] = GrantMode(held[t][r], m)]
<1>0. Table(held, waiting, earlier) /\ held \in [Txns -> [Resources -> Modes]]
  BY DEF LockIInv, Sound, Table, Typed
<1>1. /\ waiting[t] = NoRequest
      /\ held[t][r] \notin {"X", m}
      /\ Drain({r}, h, waiting, earlier)
  BY DEF AcquireGranted, MayRequest
<1>2. held[t] \in [Resources -> Modes] /\ GrantMode(held[t][r], m) = m
  BY <1>0, <1>1 DEF GrantMode, Modes, LockModes
<1>3. /\ h \in [Txns -> [Resources -> Modes]]
      /\ \A u \in Txns, p \in Resources :
            h[u][p] = IF u = t /\ p = r THEN m ELSE held[u][p]
  BY <1>0, <1>2 DEF Modes
<1> HIDE DEF h
<1>4. Table(h, waiting, earlier)
  BY <1>0, <1>1, <1>3 DEF Table, Typed, Needed
<1>5. t \notin Granted({r}, h, waiting, earlier)
  BY <1>1, <1>4, GrantedFacts
<1> QED BY <1>1, <1>3, <1>4, <1>5, DrainedFacts DEF Drain
=============================================================================
