\* The two KMEs of the lab, one SAE client, one crash.  A KME whose scanner
\* died with its lock held may stop the system.
SPECIFICATION FairSpec
CHECK_DEADLOCK FALSE
CONSTANTS
    a = a
    b = b
    Kmes = {a, b}
    Saes = {s}
    OtherKmes <- Mutual
    NoId = NoId
    Free = Free
    NoKme = NoKme
    MaxCrashes = 1
INVARIANTS
    TypeOK
    LockInv
    HandlersSeeWholeScan
PROPERTIES
    ImplementsDomain
    SaeServed
    PeersRediscovered
    LostPeerForgotten
