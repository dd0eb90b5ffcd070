SPECIFICATION FairSpec
CONSTANTS
    urgent = urgent
    early = early
    foreign = foreign
    ours = ours
    theirs = theirs
    NoTask = NoTask
    NoTenant = NoTenant
    Workers = {w1, w2}
    Tasks <- MCTasks
    Tenants <- MCTenants
    TenantOf <- MCTenantOf
    Priority <- MCPriority
    CreatedAt <- MCCreatedAt
    MaxRetries = 1
    MaxSize = 2
    Filter = ours
INVARIANTS TypeOK NoLostTask OneWorkerPerTask ViewsAgree
PROPERTIES OrphansOnlyByStopTimeout EndedStaysEnded NoOvertaking LifecycleKept
    PendingIsServed StopReturns
CHECK_DEADLOCK FALSE
