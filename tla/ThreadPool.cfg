SPECIFICATION Spec
CONSTANTS
    owner = owner
    user = user
    NumThreads = 2
    MaxJobs = 3
    MaxBatch = 2
    Clients <- MCClients
    Owner = owner
    Waiters <- MCWaiters
INVARIANTS TypeOK NoLostWakeup StopDrains ReadJobsRun
PROPERTIES Refines Progress
