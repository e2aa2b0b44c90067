SPECIFICATION FairSpec
CONSTANTS
    s1 = s1
    r1 = r1
    r2 = r2
    r3 = r3
    ann = ann
    bob = bob
    http = http
    worker = worker
    c1 = c1
    c2 = c2
    Submissions = {s1}
    RequestIds = {r1, r2, r3}
    Actors = {ann, bob}
    Threads = {http, worker}
    Connections = {c1, c2}
    Conn <- Own
    Owner <- MCOwner
    Calls <- LifecycleCalls
    Dispatches <- HandedOver
    NoTx = NoTx
    NoCall = NoCall
INVARIANTS
    TypeOK
    LogReplaysToState
    AppliedAreLogged
    RequestAppliedOnce
    OutcomesAreOfTheLog
    OutcomesHaveJobs
PROPERTIES
    CallsReturn
    ImplementsLedger
