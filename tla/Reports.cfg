SPECIFICATION Spec
CONSTANTS
    Names = {"a", "b"}
    Slots = {1, 2}
    Beats = {1, 2}
    MaxChanges = 2
    MaxFaults = 1
PROPERTIES
    InventoryRepairs
    HealthFollowsPod
CHECK_DEADLOCK FALSE
