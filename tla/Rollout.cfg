SPECIFICATION FairSpec
CONSTANTS
    Environments = {e1}
    Features = {f1}
    Hashes = {h1, h2}
    Blocked = Blocked
    NotInstalled = NotInstalled
    Loop = Loop
    Requests = {r1}
    Plans <- AllPlans
    MaxFaults = 2
    MaxChanges = 2
    MaxDeploys = 6
INVARIANTS
    RowsMatchInstruction
    DeployedIsEarned
    SingleFlight
    InSyncIsInstalled
PROPERTIES
    InProgressSettles
    ChangeIsShipped
    Converges
