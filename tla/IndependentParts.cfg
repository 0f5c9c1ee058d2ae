SPECIFICATION PartsSpec
CONSTANTS
    Objects = {x1, x2, x3}
    Values = {a, b}
    Errors = {e}
    Moved = Moved
    Items = {x1, x2, x3}
    Entries = {entry1, entry2}
    Holders = {h1, h2}
    NoItem = NoItem
    Threads = {t1, t2}
    Counts = {{0}, {1, 15}}
    Smalls = {{0, 2}, {1}}
    Pointers = {{2, 47}, {4}}
    Width = 5
    SocketsV4 = {s1, s2}
    SocketsV6 = {s6}
    Ports = {8080}
    Ephemeral = {49153, 49408}
INVARIANTS TagTells TestsExact ConnectReachesListener
PROPERTIES ImplementsVariant ImplementsContents ImplementsFields
SYMMETRY Things
CHECK_DEADLOCK FALSE
