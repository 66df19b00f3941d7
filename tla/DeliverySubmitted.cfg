SPECIFICATION RunSpec
CONSTANTS
  Chain = {"editor_stage_and_deliver", "editor_chat_stage_and_deliver"}
  Attempts = 1
  Many = 2
  Strays = FALSE
INVARIANT SubmitActionTaken
CHECK_DEADLOCK FALSE
