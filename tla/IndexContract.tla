---------------------------- MODULE IndexContract ----------------------------
(***************************************************************************)
(* What every index promises (engine/indexes/base.py): a set of            *)
(* associations of a key with a row identifier.  Adding an association     *)
(* that is there is a no-op, a unique index refuses a second row for a     *)
(* key, and removing an association that is not there is an error that     *)
(* leaves the index unchanged.  The page formats, splits and merges of the *)
(* concrete indexes are invisible here.                                    *)
(***************************************************************************)
CONSTANTS Keys,    \* the key values a column may have
          Rids     \* the row identifiers a storage may return

VARIABLES entries, \* the associations, a set of <<key, rid>>
          unique,  \* the index refuses duplicate keys
          outcome, \* the last call and its verdict
          crowded  \* the associations a bounded structure has no room for

contractVars == <<entries, unique, outcome>>

NoTwoRowsShareAKey(es) == \A e, f \in es : e[1] = f[1] => e = f

\* An index is built over the rows its table has.
Init ==
  /\ entries \in SUBSET (Keys \X Rids)
  /\ unique \in BOOLEAN
  /\ unique => NoTwoRowsShareAKey(entries)
  /\ outcome = <<>>

\* Another row already has the key in a unique index.
KeyIsTaken(k, r) == unique /\ \E s \in Rids \ {r} : <<k, s>> \in entries

\* Add an association, or refuse it and change nothing.  A hash index also
\* refuses what it has no room for.
Insert(k, r) ==
  \/ /\ ~KeyIsTaken(k, r)
     /\ entries' = entries \cup {<<k, r>>}
     /\ outcome' = <<"insert", k, r, "done">>
  \/ /\ KeyIsTaken(k, r)
     /\ outcome' = <<"insert", k, r, "duplicate">>
     /\ UNCHANGED entries
  \/ /\ <<k, r>> \in crowded \ entries
     /\ ~KeyIsTaken(k, r)
     /\ outcome' = <<"insert", k, r, "full">>
     /\ UNCHANGED entries

\* Remove one association and no other.
Delete(k, r) ==
  \/ /\ <<k, r>> \in entries
     /\ entries' = entries \ {<<k, r>>}
     /\ outcome' = <<"delete", k, r, "done">>
  \/ /\ <<k, r>> \notin entries
     /\ outcome' = <<"delete", k, r, "unknown">>
     /\ UNCHANGED entries

\* Rebuild the file: the same associations.
Rebuild == UNCHANGED entries /\ outcome' = <<>>

Next ==
  /\ \/ \E k \in Keys, r \in Rids : Insert(k, r) \/ Delete(k, r)
     \/ Rebuild
  /\ UNCHANGED unique

Spec == Init /\ [][Next]_contractVars
=============================================================================
