---------------------------- MODULE MCSchemaChange ----------------------------
(* Small instances of SchemaChange for TLC. *)
EXTENDS SchemaChange, TLC

\* Creators are interchangeable, and so are users, names and identities.
Symmetry == Permutations(Creators) \union Permutations(Users) \union
            Permutations(Names) \union Permutations(Ids)
=============================================================================
