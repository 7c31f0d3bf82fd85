SPECIFICATION Spec
CONSTANTS
  EmptyValue = EmptyValue
  NoRow = NoRow
  NoTemplate = NoTemplate
  NoValueText = NoValueText
  Null = Null
  Nil = Nil
  Redacted = Redacted
  Charts <- MCCharts
  InitEnvironments <- MCEnvironments
  InitAssigned <- MCAssigned
  Operations <- MCOperations
  Requests = {r1, r2, r3}
  MaxFaults = 1
INVARIANTS
  OneActive
  EveryLossIsExplained
  WinnersAgree
PROPERTY
  RequestsEnd
