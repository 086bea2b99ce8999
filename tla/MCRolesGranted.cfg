SPECIFICATION FairSpec
CONSTANTS
    adm = adm
    a = a
    b = b
    Roles <- MCRoles
    Admin = adm
    Sessions = {s1, s2}
    RoleLists <- MCRoleLists
    SuperuserSets <- MCSuperuserSets
    InitialMembers <- MCInitialMembers
INVARIANTS
    IInv
    NeededRolesHeld
    RestoreNeverRefused
PROPERTIES
    MembershipsKept
    OperationsReturn
