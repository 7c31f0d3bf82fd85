SPECIFICATION Spec
CONSTANTS
    up = up
    un = un
    self = self
    Instructions = {up, un, self}
    Names = {"app", "old", "naisd"}
    Lines <- MCLines
    Kind <- MCKind
    Name <- MCName
    Tick <- MCTick
    Place <- MCPlace
    Uuid <- MCUuid
    Faults <- AllFaults
    MaxFaults = 1
INVARIANTS
    InProgressIsExact
    
    
PROPERTIES
    InstructionsSettle
CHECK_DEADLOCK FALSE
