SPECIFICATION ExecSpec
CONSTANTS
  Chain = {"observe", "inspect_tree", "search_text", "transfer_text", "act_verify", "click_element_by_name", "type_element_by_name", "route_capture_transfer", "editor_chat_template", "file_browser_chat_route_deliver_verify", "file_browser_template", "multi_window_route_execute", "multi_window_template", "file_send_to_chat_window", "extract_post_template", "form_submit_template"}
  Attempts = 1
  Many = 2
  Strays = FALSE
  Executor = {"executor"}
  Panel = {"panel"}
  Runner = "executor"
  Crashing = {"executor", "panel"}
  MaxChildren = 3
  Candidates = 2
  Restarts = 1
INVARIANTS ExecutorTypeOK OnlyTargetsWritten StagesInOrder SuccessWasSeen RepeatsOnlyInDoubt EnterOnlyWhenAsked ChildrenAccountedFor
PROPERTY ExecutorEnds
\* executors end, and a panel with nothing to restart waits
CHECK_DEADLOCK FALSE
