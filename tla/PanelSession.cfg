SPECIFICATION FairSpec
CONSTANTS
    Client = {c1, c2, c3}
    FirstClient = {c1}
    c1 = c1
    c2 = c2
    c3 = c3
    MaxRuns = 2
    Texts = {{"browser", "page", "tidy", "reply", "send", "codex", "chat"},
             {"browser", "document", "desktop", "deliver"},
             {"browser", "content", "codex", "submit"}}
INVARIANTS
    AtMostOneRun
    PromptReachesRun
    IdleSessionStartable
    StopFindsRun
PROPERTIES
    RunsSettle
\* The user may do nothing at all.
CHECK_DEADLOCK FALSE
