SPECIFICATION RequestsSpec

CONSTANTS
    Explored = {"templates"}
    Requests = {r1, r2, r3}
    r1 = r1
    r2 = r2
    r3 = r3
    Keys = {k1, k2}
    k1 = k1
    k2 = k2
    Templates = {t1}
    t1 = t1
    NoKey = NoKey
    NoTemplate = NoTemplate
    NoJob = NoJob
    Saves = {s1, s2, s3}
    s1 = s1
    s2 = s2
    s3 = s3
    ConfigKeys <- SettingKeys
    Groups <- SettingGroups
    NoSave = NoSave
    Unset = Unset
    MaxFaults = 2
    Calls = {a1, a2, a3, a4}
    a1 = a1
    a2 = a2
    a3 = a3
    a4 = a4
    Slots = 2
    Contents = {c1, c2}
    c1 = c1
    c2 = c2
    Editors = {e1, e2}
    e1 = e1
    e2 = e2
    Deleters = {d1}
    d1 = d1
    Generations = {g1, g2}
    g1 = g1
    g2 = g2
    NoContent = NoContent
    MaxVersion = 3
    Profiles = {p1, p2}
    p1 = p1
    p2 = p2
    Updates = {u1, u2}
    u1 = u1
    u2 = u2
    Names = {n1, n2}
    n1 = n1
    n2 = n2
    Absent = Absent
    Gone = Gone
    Drafts <- SomeDrafts
    Patches <- SomePatches

INVARIANTS
    VersionNamesContent

CHECK_DEADLOCK FALSE
