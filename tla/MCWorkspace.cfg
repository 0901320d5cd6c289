CONSTANTS
    Users = {u1, u2}
    Requests = {r1, r2}
    Old = Old
    None = None
    KB0 = KB0
    Doc0 = Doc0
    Names = {n1}
SPECIFICATION Spec
SYMMETRY Symmetry
INVARIANTS
    SomeAdmin
    ForcedChange
    AvatarsMatchFiles
    PermissionsAsAsked
    DocumentsBelong
    UniqueNames
CHECK_DEADLOCK FALSE
