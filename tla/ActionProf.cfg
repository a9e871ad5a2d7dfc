SPECIFICATION Spec
CONSTANTS
    p1 = p1
    a = a
    g1 = g1
    g2 = g2
    b = b
    Member = {1, 2}
    Group = {g1, g2}
    Port = {p1}
    Action = {a, b}
    MaxWeight = 2
    max_group_size = 2
    Failing = {"member_create", "member_modify", "member_delete", "group_create", "group_delete", "group_add_member", "group_remove_member", "group_set_members", "activate"}
    MaxFailures = 1
    MaxOps = 5
SYMMETRY Symmetry
CHECK_DEADLOCK FALSE
INVARIANTS TargetMatches CopiesAreCounted EnforcerFollows
