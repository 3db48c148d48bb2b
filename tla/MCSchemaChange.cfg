\* Two CREATEs, a statement that may keep its locks for ever, and a prepare call; two
\* names, so that both CREATEs want one or each its own; two identities, one of which
\* may be undone and made again.  No symmetry: it is unsound for liveness.
SPECIFICATION FairSpec
CONSTANTS
    Creators = {c1, c2}
    Users = {u}
    Listers = {l}
    Names = {n1, n2}
    Ids = {i1, i2}
    Nobody = Nobody
    NoName = NoName
    NoId = NoId
INVARIANTS ManifestFindsFiles CommittedStays SchemaIsWhole
           UsersLockWhatTheyUse NothingLeftBehind
PROPERTIES EverybodyGetsThrough
