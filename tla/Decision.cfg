SPECIFICATION Spec
CONSTANTS
  EmptyValue = EmptyValue
  NoRow = NoRow
  NoTemplate = NoTemplate
  NoValueText = NoValueText
  Null = Null
  Nil = Nil
  Redacted = Redacted
  Charts <- MCCharts
  Assignable <- MCAssignable
  LabelSets <- MCLabelSets
  Configs <- MCSizes
  InitEnvironments <- MCEnvironments
  InitValues <- MCValues
  InitEnvConfig <- MCOverride
  InitGlobalConfig <- MCGlobalConfig
  InitAssigned <- MCAssigned
  Touched <- MCTouched
  Outcomes = {"deployed", "failed"}
  Changes = {"assign", "deactivate", "config", "disable", "health", "labels", "db"}
  MaxChanges = 2
INVARIANTS
  DependencyFirst
  DecisionLogIsTransitions
  
  OneLateDeploy
  RecentDeploysAreExact
  PreviewIsWhatIsDeployed
PROPERTY
  DecisionsBecomeTrue
