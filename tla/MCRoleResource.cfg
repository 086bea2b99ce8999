SPECIFICATION FairSpec
CONSTANTS
    bob = bob
    admins = admins
    a = a
    b = b
    c = c
    p = p
    q = q
    Resources = {bob, admins}
    Names = {a, b, c}
    Passwords = {p, q}
    Scenarios <- MCScenarios
    MaxEdits = 1
    MaxDrifts = 1
    MaxFailures = 1
    Absent = Absent
    Untouched = Untouched
    Nobody = Nobody
INVARIANTS
    TypeOK
    StatesNameOwnRoles
    RevokeFindsRoles
    PasswordInForce
PROPERTIES
    Converges
