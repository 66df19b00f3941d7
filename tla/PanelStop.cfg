SPECIFICATION Spec
CONSTANTS
    Client = {c1}
    FirstClient = {}
    c1 = c1
    MaxRuns = 1
    Texts = {{"browser", "page", "tidy", "reply", "send", "codex", "chat"},
             {"browser", "document", "desktop", "deliver"},
             {"browser", "content", "codex", "submit"}}
PROPERTIES
    StoppedRunGoesNoFurther
CHECK_DEADLOCK FALSE
