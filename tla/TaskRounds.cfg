SPECIFICATION Spec
CONSTANTS
  Tool = {"skill", "focus_app", "snapshot"}
  Capability = {"skill", "focus_app"}
  Declared <- MCDeclared
  Registered = {"snapshot"}
  Acts = {}
  Reads = {"snapshot"}
  NoTool = "no tool"
  GuiAction = {"skill"}
  Command = {"focus_app"}
  FocusFirst <- MCFocusFirst
  ObserveFirst <- MCObserveFirst
  MaxContext = 4
  MinSession = 2
  TailLength = 1
  MaxFailures = 2
  Plans <- MCPlans
  Result <- MCResult
  SummaryFacts <- MCSummaryFacts
  MaxTurns = 3
  MaxRetries = 1
  MaxTasks = 2
  MaxCrashes = 1
INVARIANTS RoundTypeOK ExhaustionAgrees ExhaustedLeftAlone FactsDurable
PROPERTY TaskEnds
\* An engine to which no task is given waits.
CHECK_DEADLOCK FALSE
