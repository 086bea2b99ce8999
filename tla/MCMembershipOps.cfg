SPECIFICATION OpsSpec
CONSTANTS
    adm = adm
    a = a
    b = b
    h = h
    g = g
    d = d
    Roles <- MCRoles
    Admin = adm
    Sessions <- MCAll
    HelperOps = {h}
    GrantRoleOps = {g}
    LoanOps = {d}
    RoleLists <- MCRoleLists
    SuperuserSets <- MCNoSuperusers
    InitialMembers <- MCInitialMembers
    ManagedPairs <- MCManagedPairs
    InitialManaged <- MCInitialManaged
INVARIANTS
    NoStrayMembership
