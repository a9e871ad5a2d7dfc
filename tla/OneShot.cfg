CONSTANTS
    Key = {k1, k2}
    MemberId = {id}
    MemberH = {m1, m2, m3, m4}
    GroupH = {g1, g2, g3}
    Port = {p}
    Down = {p}
    MaxActions = 2
    MaxWeight = 2
    max_group_size = 2
    Refuses = {"in_entry"}
    Failing = {"member_create", "group_create", "group_add_member", "group_set_members", "deactivate", "entry", "member_delete", "group_delete"}
    MaxFailures = 1
    MaxOps = 3
SYMMETRY Symmetry
SPECIFICATION Spec
INVARIANTS EntriesForward NothingDangles ReadWriteSymmetry
