SPECIFICATION FairSpec
CONSTANTS
    flow = flow
    first = first
    second = second
    NoExec = NoExec
    watcher = watcher
    follower = follower
    Conns <- MCConns
    Ids <- MCIds
    Topics <- MCTopics
    Kinds <- MCKinds
    MaxHistory = 1
    MaxQueue = 1
    MaxSubscribers = 2
    MaxEvents = 2
    MaxSubs <- MCMaxSubs
INVARIANTS TypeOK InOrderNoGap ServedByTask NoLeftovers
PROPERTIES QueuesDrain
CHECK_DEADLOCK FALSE
