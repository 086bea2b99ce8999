SPECIFICATION FairSpec
CONSTANTS
    m = m
    n = n
    me = me
    alice = alice
    bob = bob
    option = option
    one = one
    two = two
    table = table
    other = other
    Names = {m, n}
    Roles = {me, alice, bob}
    Public = Public
    Me = me
    Versions = {1, 2}
    Newest = 2
    DefaultSchema = DefaultSchema
    OptionNames = {option}
    OptionValues = {one, two}
    Tables = {table, other}
    Scenarios <- MCScenarios
    MaxDrifts = 1
    MaxFailures = 1
    Absent = Absent
    Unset = Unset
INVARIANTS
    TypeOK
    Applied
    PoliciesInForce
    Tracked
PROPERTIES
    SlotKept
    Converges
