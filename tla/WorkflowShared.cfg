SPECIFICATION Spec
CONSTANTS
    s1 = s1
    r1 = r1
    r2 = r2
    r3 = r3
    ann = ann
    bob = bob
    http = http
    worker = worker
    c1 = c1
    c2 = c2
    Submissions = {s1}
    RequestIds = {r1, r2, r3}
    Actors = {ann, bob}
    Threads = {http, worker}
    Connections = {c1, c2}
    Conn <- Shared
    Owner <- MCOwner
    Calls <- UploadCalls
    Dispatches <- NothingHandedOver
    NoTx = NoTx
    NoCall = NoCall
INVARIANTS
    AppliedAreLogged
