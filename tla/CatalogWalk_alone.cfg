SPECIFICATION WalkSpec
CONSTANTS
    a = a  b = b  c = c
    f1 = f1  f2 = f2  f3 = f3
    c1 = c1  c2 = c2
    x = x
    run1 = run1  run2 = run2
    Files = {f1}
    Cataloged = {f1}
    Paths = {a, b}
    Contents = {x}
    Callers = {c1}
    Verbs = {"soft_delete", "restore", "rename", "purge_on_disk", "edit_content", "edit_metadata"}
    Targets <- AnyTarget
    Retention = 0
    MaxTime = 0
    MaxWrites = 2
    Faults = {"db", "disk", "reread", "stuck", "crash"}
    Refreshes <- OneRefresh
    Indexes <- Nothing
INVARIANTS
    WalkTypeOK
    RefreshHeals
    HashDescribesBytes
PROPERTIES
    OwnerEditsStand
    NoFileLost
CHECK_DEADLOCK FALSE
