SPECIFICATION FairSpec
CONSTANTS
    r1 = r1
    r2 = r2
    x = x
    y = y
    m = m
    n = n
    t1 = t1
    t2 = t2
    t3 = t3
    c = c
    d = d
    e = e
    S = S
    U = U
    Resources = {r1, r2}
    Roles = {x, y, m, n}
    Public = public
    Members <- MCMembers
    Database = db
    Objects <- MCObjects
    TypeOf <- MCTypeOf
    TableOf <- MCTableOf
    Later = {t3}
    Privileges = {S, U}
    Targets <- MCTargets
    Configs <- MCConfigs
    MaxEdits = 1
    MaxDrifts = 1
    MaxFailures = 1
    Absent = Absent
    Nobody = Nobody
INVARIANTS
    NoConcurrentUpdates
PROPERTIES
    NoPrivilegeGap
    Converges
