SPECIFICATION Spec
CONSTANTS
  Tasks <- MCTasks
  Queries = {"browser", "text"}
  Bodies <- MCBodies
  Replies <- MCReplies
  Result <- MCResult
  MaxTurns = 3
  MaxTasks = 2
INVARIANTS OfferedRevealed CallsPrepared VerifiedNamesWindow
\* An engine to which no task is given waits.
CHECK_DEADLOCK FALSE
