----------------------------- MODULE Catalogue -----------------------------
(***************************************************************************)
(* The built-in capabilities of BuiltinCapabilities.ts and the tools of the *)
(* registry, as the catalogue, the searches and the routing plan see them:  *)
(* what a record is called, its route, risk, retry policy and fallbacks,    *)
(* the inputs its schema requires, and how many of its texts mention each   *)
(* of the words the tasks and queries of the model are made of.  The texts  *)
(* themselves are left out.  "open_notepad", "type_text" and                *)
(* "read_package_json" stand for a whole task, "qingli" and "jieguo" for    *)
(* the Chinese words for cleaning up and results.                           *)
(***************************************************************************)
EXTENDS Integers, Sequences

\* normalizeRetryPolicy of the catalogue keeps no retryOn: what is retried at all is
\* retried on a transient failure.
OneTry   == [retryable |-> FALSE, max |-> 1, on |-> {}]
TwoTries == [retryable |-> TRUE, max |-> 2, on |-> {}]

\* InMemoryCapabilityCatalog.  texts: name, title, description, route, tags and hints;
\* examples: the tasks of its examples.  No definition is marked "core".
Item(name, route, risk, retry, required, texts, examples, fallbacks) ==
    [name |-> name, route |-> route, risk |-> risk, retry |-> retry, required |-> required,
     texts |-> texts, examples |-> examples, fallbacks |-> fallbacks]

\* A tool of the registry that runs no capability.
RegistryTool(name, availability, risk, required, texts) ==
    [name |-> name, availability |-> availability, risk |-> risk, required |-> required,
     texts |-> texts]

\* Texts that mention none of the words.
None == [w \in {} |-> 0]

TwoWindows == {"primaryWindowTitle", "secondaryWindowTitle"}

----------------------------------------------------------------------------
\* createBuiltinCapabilities, in its order.
DesktopObserve ==
    Item("skill.desktop.observe", "tool", "low", OneTry, {}, None, None,
         {"windows.snapshot", "windows.screenshot"})
InspectTree ==
    Item("command.workspace.inspect_tree", "cli", "low", TwoTries, {}, None, None,
         {"workspace.glob"})
SearchText ==
    Item("command.workspace.search_text", "cli", "low", TwoTries, {"query"}, [text |-> 6],
         None, {"workspace.grep"})
ReadText ==
    Item("command.workspace.read_text", "cli", "low", TwoTries, {"path"},
         [open |-> 1, text |-> 5, read |-> 6],
         [read |-> 1, package |-> 1, json |-> 1, read_package_json |-> 1],
         {"workspace.read_text"})
AppOpenOrFocus ==
    Item("command.app.open_or_focus", "tool", "medium", OneTry, {"appName"}, [open |-> 4],
         [open |-> 1, notepad |-> 1, open_notepad |-> 1, read |-> 1],
         {"windows.focus_window", "windows.app"})
DesktopCaptureAndLocate ==
    Item("command.desktop.capture_and_locate", "tool", "low", OneTry, {}, None, None,
         {"skill.desktop.observe", "windows.snapshot", "windows.screenshot"})
ClipboardReadWrite ==
    Item("command.clipboard.read_write", "tool", "medium", OneTry, {"mode"},
         [text |-> 1, read |-> 4], None, {"windows.clipboard"})
BrowserInspectDom ==
    Item("command.browser.inspect_dom", "tool", "low", OneTry, {}, [browser |-> 6],
         [browser |-> 1], {"windows.snapshot", "skill.desktop.observe"})
BrowserExtractThenTransfer ==
    Item("skill.browser.extract_then_transfer", "tool", "high", OneTry,
         {"targetWindowTitle"}, [browser |-> 6, text |-> 2],
         [notepad |-> 1, browser |-> 1, text |-> 1], {"command.browser.inspect_dom",
          "skill.cross_app.transfer_text"})
BrowserClickElementByName ==
    Item("skill.browser.click_element_by_name", "tool", "high", OneTry, {"name"},
         [browser |-> 6], [browser |-> 1], {"command.browser.inspect_dom",
          "windows.click_element_by_name"})
FileReadTransformTransfer ==
    Item("skill.file_read_transform_transfer", "cli", "high", OneTry,
         {"path", "targetWindowTitle"}, [text |-> 1, read |-> 5],
         [notepad |-> 1, read |-> 1], {"command.workspace.read_text",
          "skill.cross_app.open_observe_act_verify"})
BrowserToEditorCaptureVerify ==
    Item("skill.browser_to_editor.capture_verify", "tool", "high", OneTry, {"appName"},
         [open |-> 1, browser |-> 6, text |-> 1],
         [notepad |-> 1, browser |-> 1, text |-> 1], {"command.browser.inspect_dom",
          "skill.cross_app.open_observe_act_verify"})
BrowserRouteCaptureTransfer ==
    Item("skill.browser.route_capture_transfer", "tool", "high", OneTry,
         TwoWindows \cup {"routeQuery"}, [browser |-> 6, text |-> 1],
         [browser |-> 1, text |-> 1], {"command.browser.inspect_dom",
          "skill.app.switch_collect_compare", "skill.cross_app.open_observe_act_verify"})
BrowserEditorStageAndDeliver ==
    Item("skill.browser.editor_stage_and_deliver", "tool", "high", OneTry,
         {"editorAppName", "finalAppName"}, [deliver |-> 6, browser |-> 6, text |-> 1],
         [notepad |-> 1, deliver |-> 1, browser |-> 1],
         {"skill.browser_to_editor.capture_verify",
          "skill.cross_app.open_observe_act_verify"})
BrowserEditorChatStageAndDeliver ==
    Item("skill.browser.editor_chat_stage_and_deliver", "tool", "high", OneTry,
         {"editorAppName", "chatAppName"}, [deliver |-> 6, browser |-> 6, text |-> 1],
         [notepad |-> 1, deliver |-> 1, browser |-> 1],
         {"skill.browser.editor_stage_and_deliver",
          "skill.cross_app.open_observe_act_verify"})
BrowserEditorChatStageAndDeliverVerify ==
    Item("skill.browser.editor_chat_stage_and_deliver_verify", "tool", "high", OneTry,
         {"editorAppName", "chatAppName"}, [deliver |-> 6, browser |-> 6, text |-> 1],
         [notepad |-> 1, deliver |-> 1, browser |-> 1],
         {"skill.browser.editor_chat_stage_and_deliver",
          "skill.browser.editor_stage_and_deliver",
          "skill.cross_app.open_observe_act_verify"})
FileBrowserChatRouteDeliver ==
    Item("skill.file.browser_chat_route_deliver", "cli", "high", OneTry,
         {"path", "chatAppName"}, [deliver |-> 6, browser |-> 6, text |-> 1, read |-> 1],
         [deliver |-> 1, browser |-> 1, text |-> 1, read |-> 1],
         {"command.workspace.read_text", "command.browser.inspect_dom",
          "skill.cross_app.open_observe_act_verify"})
FileBrowserChatRouteDeliverVerify ==
    Item("skill.file.browser_chat_route_deliver_verify", "cli", "high", OneTry,
         {"path", "chatAppName"}, [deliver |-> 6, browser |-> 6, text |-> 1, read |-> 1],
         [deliver |-> 1, browser |-> 1, text |-> 1, read |-> 1],
         {"skill.file.browser_chat_route_deliver",
          "skill.cross_app.open_observe_act_verify"})
FileBrowserRouteDeliver ==
    Item("skill.file.browser_route_deliver", "cli", "high", OneTry,
         {"path", "primaryWindowTitle", "secondaryWindowTitle"},
         [deliver |-> 6, browser |-> 6, text |-> 1, read |-> 1],
         [deliver |-> 1, browser |-> 1, read |-> 1], {"command.workspace.read_text",
          "command.browser.inspect_dom", "skill.app.switch_collect_compare",
          "skill.cross_app.open_observe_act_verify"})
FileBrowserRouteDeliverVerify ==
    Item("skill.file.browser_route_deliver_verify", "cli", "high", OneTry,
         {"path", "primaryWindowTitle", "secondaryWindowTitle"},
         [deliver |-> 6, browser |-> 6, text |-> 1, read |-> 1],
         [deliver |-> 1, browser |-> 1, text |-> 1, read |-> 1],
         {"skill.file.browser_route_deliver", "skill.app.switch_collect_compare",
          "skill.cross_app.open_observe_act_verify"})
AppSwitchCollectCompare ==
    Item("skill.app.switch_collect_compare", "tool", "medium", OneTry, TwoWindows, None,
         None, {"windows.app", "windows.focus_window", "skill.desktop.observe"})
MultiWindowObserveRouteExecute ==
    Item("skill.multi_window.observe_route_execute", "tool", "high", OneTry,
         TwoWindows \cup {"routeQuery"}, None, None, {"skill.app.switch_collect_compare",
          "skill.cross_app.open_observe_act_verify", "windows.app",
          "windows.focus_window", "skill.desktop.observe"})
MultiWindowObserveRouteDeliverVerify ==
    Item("skill.multi_window.observe_route_deliver_verify", "tool", "high", OneTry,
         TwoWindows \cup {"routeQuery", "targetAppName"}, [deliver |-> 6],
         [deliver |-> 1], {"skill.app.switch_collect_compare",
          "skill.cross_app.open_observe_act_verify", "windows.app",
          "windows.focus_window", "skill.desktop.observe"})
CrossAppTransferText ==
    Item("skill.cross_app.transfer_text", "tool", "high", OneTry,
         {"text", "targetWindowTitle"}, [text |-> 5, type |-> 3], [text |-> 1],
         {"command.app.open_or_focus", "command.clipboard.read_write", "windows.shortcut",
          "windows.type"})
FileSendToChatWindow ==
    Item("skill.file.send_to_chat_window", "tool", "high", OneTry,
         {"path", "targetWindowTitle"}, None, None, {"windows.filesystem",
          "command.app.open_or_focus", "windows.click_element_by_name",
          "windows.type_element_by_name", "windows.shortcut"})
CrossAppOpenObserveActVerify ==
    Item("skill.cross_app.open_observe_act_verify", "tool", "high", OneTry, {"appName"},
         [open |-> 5], [open |-> 1, notepad |-> 1, open_notepad |-> 1, text |-> 1],
         {"command.app.open_or_focus", "command.desktop.capture_and_locate",
          "skill.cross_app.transfer_text", "skill.desktop.observe"})
BrowserEditorChatTemplate ==
    Item("skill.browser.editor_chat_template", "tool", "high", OneTry,
         {"editorAppName", "chatAppName"}, [deliver |-> 2, browser |-> 6],
         [notepad |-> 1, deliver |-> 1, browser |-> 1],
         {"skill.browser.editor_chat_stage_and_deliver_verify",
          "skill.browser.editor_chat_stage_and_deliver"})
FileBrowserDesktopTemplate ==
    Item("skill.file.browser_desktop_template", "cli", "high", OneTry,
         {"path", "primaryWindowTitle", "secondaryWindowTitle"},
         [deliver |-> 2, browser |-> 6, text |-> 1, read |-> 1],
         [deliver |-> 1, browser |-> 1, text |-> 1, read |-> 1],
         {"skill.file.browser_route_deliver_verify", "skill.file.browser_route_deliver"})
MultiWindowRouteDeliverTemplate ==
    Item("skill.multi_window.observe_route_deliver_template", "tool", "high", OneTry,
         TwoWindows \cup {"routeQuery", "targetAppName"}, [deliver |-> 6, package |-> 1],
         [notepad |-> 1, deliver |-> 1],
         {"skill.multi_window.observe_route_deliver_verify",
          "skill.multi_window.observe_route_execute"})
BrowserEditorChatReplyTemplate ==
    Item("skill.browser.editor_chat_reply_template", "tool", "high", OneTry,
         {"editorAppName", "chatAppName"}, [deliver |-> 1, browser |-> 6],
         [deliver |-> 1, browser |-> 1, text |-> 1],
         {"skill.browser.editor_chat_stage_and_deliver_verify",
          "skill.browser.editor_chat_stage_and_deliver"})
BrowserDocDesktopDeliverTemplate ==
    Item("skill.browser.doc_desktop_deliver_template", "tool", "high", OneTry,
         {"editorAppName", "finalAppName"}, [deliver |-> 5, browser |-> 6],
         [deliver |-> 1, browser |-> 1], {"skill.browser.editor_stage_and_deliver",
          "skill.browser_to_editor.capture_verify"})
BrowserTypeElementByName ==
    Item("skill.browser.type_element_by_name", "tool", "high", OneTry, {"name", "text"},
         [browser |-> 6, text |-> 1, type |-> 6, type_text |-> 1],
         [browser |-> 1, type |-> 1], {"windows.type_element_by_name"})
FileBrowserFormSubmitTemplate ==
    Item("skill.file.browser_form_submit_template", "cli", "high", OneTry,
         {"path", "browserWindowTitle"}, [browser |-> 6, read |-> 1],
         [browser |-> 1, read |-> 1], {"skill.file_read_transform_transfer",
          "skill.cross_app.open_observe_act_verify"})
MultiWindowCompareSummarizeDeliverTemplate ==
    Item("skill.multi_window.compare_summarize_deliver_template", "tool", "high", OneTry,
         TwoWindows \cup {"routeQuery", "targetAppName"}, [deliver |-> 6],
         [deliver |-> 1], {"skill.multi_window.observe_route_deliver_verify",
          "skill.app.switch_collect_compare"})
BrowserExtractTransformPostTemplate ==
    Item("skill.browser.extract_transform_post_template", "tool", "high", OneTry,
         {"targetWindowTitle"}, [browser |-> 6], [browser |-> 1, text |-> 1],
         {"skill.browser.extract_then_transfer", "skill.cross_app.transfer_text"})

----------------------------------------------------------------------------
\* createWindowsMcpTools, createWorkspaceTools, createResultPointerTools, and the tools
\* createCliApp adds.
WindowsScreenshot ==
    RegistryTool("windows.screenshot", "core", "low", {}, None)
WindowsSnapshot ==
    RegistryTool("windows.snapshot", "core", "low", {}, None)
WindowsFocusWindow ==
    RegistryTool("windows.focus_window", "core", "medium", {"windowTitle"}, None)
WindowsClick ==
    RegistryTool("windows.click", "core", "high", {"x", "y"}, None)
WindowsClickLabel ==
    RegistryTool("windows.click_label", "discoverable", "high", {"label"}, None)
WindowsDoubleClickLabel ==
    RegistryTool("windows.double_click_label", "discoverable", "high", {"label"}, None)
WindowsType ==
    RegistryTool("windows.type", "core", "high", {"text"},
           [text |-> 2, type |-> 3, type_text |-> 1])
WindowsTypeLabel ==
    RegistryTool("windows.type_label", "discoverable", "high", {"label", "text"},
         [text |-> 1, type |-> 3, type_text |-> 1])
WindowsFindElementByName ==
    RegistryTool("windows.find_element_by_name", "discoverable", "low", {"name"}, None)
WindowsClickElementByName ==
    RegistryTool("windows.click_element_by_name", "discoverable", "high", {"name"}, None)
WindowsDoubleClickElementByName ==
    RegistryTool("windows.double_click_element_by_name", "discoverable", "high", {"name"}, None)
WindowsTypeElementByName ==
    RegistryTool("windows.type_element_by_name", "discoverable", "high", {"name", "text"},
           [type |-> 3])
WindowsShortcut ==
    RegistryTool("windows.shortcut", "core", "high", {"shortcut"}, None)
WindowsScroll ==
    RegistryTool("windows.scroll", "discoverable", "medium", {"direction"}, None)
WindowsMoveOrDrag ==
    RegistryTool("windows.move_or_drag", "discoverable", "high", {"x", "y"}, None)
WindowsWait ==
    RegistryTool("windows.wait", "core", "low", {"durationSeconds"}, None)
WindowsClipboard ==
    RegistryTool("windows.clipboard", "core", "medium", {"mode"}, [read |-> 1])
WindowsApp ==
    RegistryTool("windows.app", "discoverable", "medium", {"mode"}, None)
WindowsShell ==
    RegistryTool("windows.shell", "discoverable", "high", {"command"}, None)
WindowsFilesystem ==
    RegistryTool("windows.filesystem", "discoverable", "high", {"mode"}, None)
WindowsProcess ==
    RegistryTool("windows.process", "discoverable", "high", {"mode"}, None)
WindowsNotification ==
    RegistryTool("windows.notification", "discoverable", "medium", {"title", "message"}, None)
WorkspaceGlob ==
    RegistryTool("workspace.glob", "core", "low", {"pattern"}, None)
WorkspaceReadText ==
    RegistryTool("workspace.read_text", "core", "low", {"path"}, [text |-> 3, read |-> 3])
WorkspaceGrep ==
    RegistryTool("workspace.grep", "core", "low", {"query"}, [text |-> 2])
WorkspaceWriteText ==
    RegistryTool("workspace.write_text", "discoverable", "high", {"path", "content"},
           [text |-> 2])
WorkspaceReplaceText ==
    RegistryTool("workspace.replace_text", "discoverable", "high", {"path", "search", "replace"},
         [text |-> 3])
ArtifactsReadResult ==
    RegistryTool("artifacts.read_result", "core", "low", {"pointer"},
           [read |-> 1, jieguo |-> 2])
ArtifactsGcResults ==
    RegistryTool("artifacts.gc_results", "core", "medium", {}, [qingli |-> 2, jieguo |-> 1])
Echo ==
    RegistryTool("echo", "core", "low", {"text"}, [text |-> 2])
ToolsSearch ==
    RegistryTool("tools.search", "core", "low", {"query"}, None)
CapabilitiesSearch ==
    RegistryTool("capabilities.search", "core", "low", {"query"}, None)

----------------------------------------------------------------------------
ItemList ==
    <<DesktopObserve, InspectTree, SearchText, ReadText, AppOpenOrFocus,
      DesktopCaptureAndLocate, ClipboardReadWrite, BrowserInspectDom,
      BrowserExtractThenTransfer, BrowserClickElementByName, FileReadTransformTransfer,
      BrowserToEditorCaptureVerify, BrowserRouteCaptureTransfer,
      BrowserEditorStageAndDeliver, BrowserEditorChatStageAndDeliver,
      BrowserEditorChatStageAndDeliverVerify, FileBrowserChatRouteDeliver,
      FileBrowserChatRouteDeliverVerify, FileBrowserRouteDeliver,
      FileBrowserRouteDeliverVerify, AppSwitchCollectCompare,
      MultiWindowObserveRouteExecute, MultiWindowObserveRouteDeliverVerify,
      CrossAppTransferText, FileSendToChatWindow, CrossAppOpenObserveActVerify,
      BrowserEditorChatTemplate, FileBrowserDesktopTemplate,
      MultiWindowRouteDeliverTemplate, BrowserEditorChatReplyTemplate,
      BrowserDocDesktopDeliverTemplate, BrowserTypeElementByName,
      FileBrowserFormSubmitTemplate, MultiWindowCompareSummarizeDeliverTemplate,
      BrowserExtractTransformPostTemplate>>

\* In the order of their names, which breaks ties of the plan and of capability search.
ByName ==
    <<ArtifactsGcResults, ArtifactsReadResult, CapabilitiesSearch, AppOpenOrFocus,
      BrowserInspectDom, ClipboardReadWrite, DesktopCaptureAndLocate, InspectTree,
      ReadText, SearchText, Echo, AppSwitchCollectCompare, BrowserToEditorCaptureVerify,
      BrowserClickElementByName, BrowserDocDesktopDeliverTemplate,
      BrowserEditorChatReplyTemplate, BrowserEditorChatStageAndDeliver,
      BrowserEditorChatStageAndDeliverVerify, BrowserEditorChatTemplate,
      BrowserEditorStageAndDeliver, BrowserExtractThenTransfer,
      BrowserExtractTransformPostTemplate, BrowserRouteCaptureTransfer,
      BrowserTypeElementByName, CrossAppOpenObserveActVerify, CrossAppTransferText,
      DesktopObserve, FileReadTransformTransfer, FileBrowserChatRouteDeliver,
      FileBrowserChatRouteDeliverVerify, FileBrowserDesktopTemplate,
      FileBrowserFormSubmitTemplate, FileBrowserRouteDeliver,
      FileBrowserRouteDeliverVerify, FileSendToChatWindow,
      MultiWindowCompareSummarizeDeliverTemplate, MultiWindowRouteDeliverTemplate,
      MultiWindowObserveRouteDeliverVerify, MultiWindowObserveRouteExecute, ToolsSearch,
      WindowsApp, WindowsClick, WindowsClickElementByName, WindowsClickLabel,
      WindowsClipboard, WindowsDoubleClickElementByName, WindowsDoubleClickLabel,
      WindowsFilesystem, WindowsFindElementByName, WindowsFocusWindow,
      WindowsMoveOrDrag, WindowsNotification, WindowsProcess, WindowsScreenshot,
      WindowsScroll, WindowsShell, WindowsShortcut, WindowsSnapshot, WindowsType,
      WindowsTypeElementByName, WindowsTypeLabel, WindowsWait, WorkspaceGlob,
      WorkspaceGrep, WorkspaceReadText, WorkspaceReplaceText, WorkspaceWriteText>>

\* The tools that are not "core", in the order of their registration, which breaks ties
\* of the tool search.
Discoverable ==
    <<WorkspaceWriteText, WorkspaceReplaceText, WindowsClickLabel,
      WindowsDoubleClickLabel, WindowsTypeLabel, WindowsFindElementByName,
      WindowsClickElementByName, WindowsDoubleClickElementByName,
      WindowsTypeElementByName, WindowsScroll, WindowsMoveOrDrag, WindowsApp,
      WindowsShell, WindowsFilesystem, WindowsProcess, WindowsNotification>>

Listed(s) == {s[i] : i \in DOMAIN s}
Names(records) == {r.name : r \in records}
Items == Listed(ItemList)
CapabilityNames == Names(Items)
ToolNames == Names(Listed(ByName) \ Items)
Record == [n \in CapabilityNames \cup ToolNames |-> CHOOSE r \in Listed(ByName) : r.name = n]
Rank == [n \in DOMAIN Record |-> CHOOSE i \in DOMAIN ByName : ByName[i].name = n]

\* Every fallback that a capability names is registered, and no two records share a name.
ASSUME CatalogueAssumption ==
    /\ \A item \in Items : item.fallbacks \subseteq DOMAIN Record \ {item.name}
    /\ \A i, j \in DOMAIN ByName : ByName[i].name = ByName[j].name => i = j
=============================================================================
