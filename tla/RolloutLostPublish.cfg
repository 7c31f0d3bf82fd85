SPECIFICATION FairSpec
CONSTANTS
    Environments = {e1}
    Features = {f1}
    Hashes = {h1, h2}
    Blocked = Blocked
    NotInstalled = NotInstalled
    Loop = Loop
    Requests = {}
    Plans <- LostPublish
    MaxFaults = 1
    MaxChanges = 0
    MaxDeploys = 3
PROPERTIES
    DesiredIsReached
