\* Up to four calls, one failure or crash.
CONSTANTS
    seed = seed
    root = root
    create1 = create1
    create2 = create2
    create3 = create3
    delete1 = delete1
    delete2 = delete2
    delete3 = delete3
    change1 = change1
    change2 = change2
    change3 = change3
    change4 = change4
    login1 = login1
    login2 = login2
    login3 = login3
    Calls <- MCCalls
    Request <- MCRequest
    Admins <- MCAdmins
    MaxSessions = 1
    MaxFaults = 1
    Width = 4
SPECIFICATION MCSpec
CHECK_DEADLOCK FALSE
INVARIANTS
    TableFollowsLog
    SessionsAreBounded
PROPERTIES
    DecisionsHoldWhenStored
    OnlyFailuresMoveCounts
    ProjectorsCatchUp
