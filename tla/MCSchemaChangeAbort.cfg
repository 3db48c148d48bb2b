\* The instance of MCSchemaChange.cfg with a second statement.
SPECIFICATION Spec
CONSTANTS
    Creators = {c1, c2}
    Users = {u1, u2}
    Listers = {l}
    Names = {n1, n2}
    Ids = {i1, i2}
    Nobody = Nobody
    NoName = NoName
    NoId = NoId
SYMMETRY Symmetry
INVARIANT AbortedCreateIsUndone
