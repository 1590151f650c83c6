SPECIFICATION FairHistorySpec
CONSTANTS
    Accounts = {a1, a2}
    Calls = {c1, c2}
    Jobs <- SharedJobs
    One = 1
    AccountRate = 1
    IpRate = 1
    FileRate = 1
    AccountBurst = 2
    IpBurst = 2
    FileBurst = 1
    Reserve = 1
    BaseBackoff = 1
    MaxBackoff = 2
    RetryAfters = {0, 2, 3}
    Max429Retries = 1
    NoJob = NoJob
INVARIANTS
    BulkLeavesReserve
PROPERTIES
    NothingLeavesInSilence
    ImplementsRateContract
    SomeoneDeparts
