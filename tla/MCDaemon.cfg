CONSTANTS
    t1 = t1
    t2 = t2
    p1 = p1
    p2 = p2
    p3 = p3
    cli = cli
    setup = setup
    Daemons = {p1, p2, p3}
    Manual = {cli}
    Managed = {setup}
    NoProcess = NoProcess
    NoSocket = NoSocket
    Absent = Absent
    Unparsable = Unparsable
    SameFile = SameFile
    Refused = Refused
    Wrong = Wrong
    Threads = {t1, t2}
    Callers <- MCCallers
    Contents <- MCContents
    Initial <- MCInitial
    Invalid = Invalid
    Nobody = Nobody
    Nothing = Nothing
    MaxTurn = 1
    MaxWrites = 2
    MaxConnections = 2
    MaxInbox = 2
SPECIFICATION MCSpec
INVARIANTS TurnKeepsPolicy ReloadConverges SocketReachesServer RepositoryOnlyTightens
CHECK_DEADLOCK FALSE
