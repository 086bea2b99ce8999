SPECIFICATION FairSpec
CONSTANTS
    d1 = d1
    d2 = d2
    a = a
    b = b
    adm = adm
    Resources = {r1, r2}
    Names = {d1, d2}
    Owners = {a, b}
    Admin = adm
    Superuser = FALSE
    InitialRoles = {b}
    Scenarios <- MCScenarios
    Kinds = {"create", "update", "delete"}
    MaxRuns = 2
    Absent = Absent
    Nobody = Nobody
CHECK_DEADLOCK FALSE
INVARIANTS
    OnlyBorrowed
    OwnerHeld
PROPERTIES
    OperationsReturn
