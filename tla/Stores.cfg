SPECIFICATION StoresSpec
CONSTANTS
    Users = {u1, u2}
    Colls = {x, y}
    CollFiles = {f}
    Marks = {b}
    RetentionDays = 0
    MaxDay = 1
    w = w
    r = r
    video = video
    comic = comic
    Viewers = {v1, v2}
    Lists = {w, r}
    ListFiles = {video, comic}
    ListKind <- KindOfList
    FileKind <- KindOfFile
    Previews = {t1, t2}
    MaxVersion = 2
    Requests = {q1, q2}
    Kids = {k1, k2}
    Secrets = {s1}
    Presented <- PresentedTokens
    MaxAge = 3
    MinRefetch = 2
    FetchTimeout = 1
INVARIANTS
    StoresTypeOK
    LinksResolve
    ProgressRowsLive
    NeverOlderThanRow
PROPERTIES
    PurgeAwaitsRetention
    ForwardUnlessRaced
    AcceptedKeyIsCurrent
    PublishedKeyRefusedBriefly
    KeysAreLearnt
CHECK_DEADLOCK FALSE
