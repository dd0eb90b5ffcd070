SPECIFICATION FairSpec
CONSTANTS
    x1 = x1
    x2 = x2
    x3 = x3
    y1 = y1
    xavier = xavier
    yann = yann
    translate = translate
    summarize = summarize
    NoConn = NoConn
    Conns <- MCConns
    Agents = {xavier, yann}
    Capabilities = {translate, summarize}
    AgentOf <- MCAgentOf
    SchemasOf <- MCSchemasOf
INVARIANTS TypeOK FollowsRegistration OfflineOnlyInCleanup
PROPERTIES DirectoryKept OnlyOwnEnd SilentAgentsGo ClosedConnsGo
CHECK_DEADLOCK FALSE
