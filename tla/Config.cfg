SPECIFICATION Spec
CONSTANTS
  EmptyValue = EmptyValue
  NoRow = NoRow
  NoTemplate = NoTemplate
  NoValueText = NoValueText
  Null = Null
  Nil = Nil
  Redacted = Redacted
  Charts <- MCCharts
  InitEnvironments <- MCEnvironments
  InitAssigned <- MCAssigned
  InitConfig <- MCInitConfig
  Values <- MCValues
  Forms <- MCForms
  Provisions <- MCProvisions
  Requests = {r1, r2, r3}
  MaxFaults = 1
INVARIANTS
  
  DisabledHasReason
  
