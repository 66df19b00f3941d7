-------------------------- MODULE CapabilityChains --------------------------
(***************************************************************************)
(* The built-in capabilities of BuiltinCapabilities.ts: what each of them   *)
(* calls, in which order, and which answer decides what comes next.         *)
(*                                                                          *)
(* Left out: windows.wait (its result is ignored everywhere), the texts of  *)
(* summaries and evidence, and recoveryUsed, chainState and failureClass,   *)
(* which no branch of these capabilities reads.                             *)
(***************************************************************************)
EXTENDS WindowsTools

----------------------------------------------------------------------------
\* Observing.

\* The snapshot in a result, read back chunk by chunk when the result was stored;
\* "no" is the throw that ends the capability which asked for it.
Resolve ==
    [start |-> Seen("is_pointer", "it", "chunk", "parse"),
     chunk |-> Need("read_result", "it", "more", "no"),
     more  |-> Seen("has_more", "it", "next", "parse"),
     next  |-> Seen("another_try", "it", "chunk", "no"),
     parse |-> Relay("parsed", "it")]

\* skill.desktop.observe.  A snapshot that is not sufficient is not tried again
\* as a screenshot.
DesktopObserve ==
    [start  |-> Need("snapshot", "it", "judge", "shot"),
     judge  |-> Call("resolve", "it", "no", "judgeOther", "judgeSeen", "no"),
     judgeOther |-> Seen("sufficient", "it", "ok", "no"),
     judgeSeen  |-> Seen("sufficient", "it", "yes", "no"),
     shot   |-> Need("screenshot", "it", "read", "no"),
     read   |-> Relay("resolve", "it")]

\* command.desktop.capture_and_locate
CaptureAndLocate == [start |-> Seen("observe", "it", "yes", "no")]

\* command.browser.inspect_dom: "yes" is a page with text in it.
InspectDom ==
    [start |-> Need("snapshot", "it", "judge", "look"),
     judge |-> Call("resolve", "it", "no", "judgePlain", "judgeText", "no"),
     judgePlain |-> Seen("sufficient", "it", "ok", "no"),
     judgeText  |-> Seen("sufficient", "it", "yes", "no"),
     look  |-> Relay("observe", "it")]

\* command.workspace.inspect_tree, search_text and read_text: one call of the
\* command line adapter.
InspectTree == [start |-> Relay("command_line", "it")]
SearchText  == [start |-> Relay("command_line", "it")]
ReadText    == [start |-> Relay("command_line", "it")]

----------------------------------------------------------------------------
\* Windows and the clipboard.

\* command.app.open_or_focus: focus the window, else launch the application,
\* a known one through the shell first.  The shell launch that is not seen
\* afterwards is followed by a second launch.
FocusOrShell ==
    [start   |-> Need("focus_window", "it", "check", "known"),
     known   |-> Seen("known_app", "it", "shell", "launch"),
     shell   |-> Need("shell_launch", "it", "refocus", "launch"),
     refocus |-> Then("focus_window", "it", "recheck"),
     recheck |-> Call("window_available", "it", "no", "launch", "yes", "no")]

LaunchApplication ==
    [launch  |-> Need("app_launch", "it", "check", "no"),
     check   |-> Seen("window_available", "it", "yes", "no")]

OpenOrFocus == FocusOrShell ++ LaunchApplication

WindowAvailable ==
    [start |-> Need("snapshot", "it", "match", "ok"),
     match |-> Relay("resolve", "it")]

\* command.clipboard.read_write with mode set.  "ok" stands for its failure
\* CLIPBOARD_WRITE_VERIFICATION_FAILED: written, but not read back.
ClipboardReadWrite ==
    [start |-> Need("set_clipboard", "it", "back", "no"),
     back  |-> Seen("read_clipboard", "it", "yes", "ok")]

\* The windows a capability compares: focus, observe, and once more after
\* refocusing when the observation points at the focus.
CollectFocused ==
    [start   |-> Need("focus_window", "it", "look", "switch"),
     switch  |-> Need("app_switch", "it", "look", "no"),
     look    |-> Seen("observe", "it", "yes", "retry")]

CollectRefocused ==
    [retry   |-> Seen("recoverable", "it", "refocus", "no"),
     refocus |-> Need("open_or_focus", "it", "again", "no"),
     again   |-> Seen("observe", "it", "yes", "no")]

CollectWindow == CollectFocused ++ CollectRefocused

\* skill.app.switch_collect_compare.  The listing is not looked at.
SwitchCollectCompare ==
    [start  |-> Then("app_list", "it", "first"),
     first  |-> Seen("collect_window", "primary", "second", "no"),
     second |-> Seen("collect_window", "secondary", "yes", "no")]

----------------------------------------------------------------------------
\* skill.cross_app.transfer_text: focus the target, paste; if that cannot be
\* done, type into a named field; if that is not confirmed, type.  A paste the
\* observation does not confirm ends the transfer; a typing it does not confirm
\* goes on to the next way of typing.

\* A browser target gets the address bar and always Enter; Enter's
\* own result is not looked at.  A clipboard that was written but not read back
\* is pasted all the same.
FocusAndCopy ==
    [start   |-> Need("open_or_focus", "it", "which", "no"),
     which   |-> Seen("is_browser", "it", "copy", "copyChecked"),
     copy    |-> Need("set_clipboard", "it", "address", "edit"),
     copyChecked |-> Need("clipboard_read_write", "it", "paste", "edit"),
     address |-> Then("address_bar", "it", "paste")]

PasteAndConfirm ==
    [paste   |-> Need("paste", "it", "submit", "edit"),
     submit  |-> Seen("submits", "it", "enter", "confirm"),
     enter   |-> Then("press_enter", "it", "confirm"),
     confirm |-> Seen("observe", "it", "yes", "no")]

\* Mutants: focusing is not required; the last observation is not looked at.
BrokenFocusing ==
    [start   |-> Then("open_or_focus", "it", "which")] ++ FocusAndCopy ++ PasteAndConfirm

BrokenConfirmation ==
    [confirm |-> Then("observe", "it", "yes")] ++ FocusAndCopy ++ PasteAndConfirm

TransferByPaste == FocusAndCopy ++ PasteAndConfirm

\* Mutant: the search for a field goes on after a confirmed typing.
BrokenTransferByLabel ==
    [edit         |-> Seen("find_element", "it", "typeEdit", "title"),
     typeEdit     |-> Then("type_label", "it", "title"),
     title        |-> Seen("find_element", "it", "typeTitle", "type"),
     typeTitle    |-> Need("type_label", "it", "confirmTitle", "type"),
     confirmTitle |-> Then("observe", "it", "type")]

TransferToEdit ==
    [edit         |-> Seen("find_element", "it", "typeEdit", "title"),
     typeEdit     |-> Need("type_label", "it", "confirmEdit", "title"),
     confirmEdit  |-> Seen("observe", "it", "yes", "title")]

TransferToTitle ==
    [title        |-> Seen("find_element", "it", "typeTitle", "type"),
     typeTitle    |-> Need("type_label", "it", "confirmTitle", "type"),
     confirmTitle |-> Seen("observe", "it", "yes", "type")]

TransferByLabel == TransferToEdit ++ TransferToTitle

TransferByTyping ==
    [type        |-> Need("type", "it", "confirmType", "no"),
     confirmType |-> Seen("observe", "it", "yes", "no")]

TransferText == TransferByPaste ++ TransferByLabel ++ TransferByTyping

----------------------------------------------------------------------------
\* skill.cross_app.open_observe_act_verify: the step every delivery ends with.
\* It passes no pressEnter on to the transfer, whatever its caller gave it.
OpenObserveAct ==
    [start   |-> Need("open_or_focus", "it", "locate", "no"),
     locate  |-> Need("capture_and_locate", "it", "given", "no"),
     given   |-> Seen("has_text", "it", "act", "verify"),
     act     |-> Need("transfer_text", "it", "verify", "no")]

ActVerify ==
    [verify  |-> Seen("observe", "it", "yes", "retry"),
     retry   |-> Seen("recoverable", "it", "refocus", "no"),
     refocus |-> Need("open_or_focus", "it", "givenAgain", "no")]

ActAgain ==
    [givenAgain |-> Seen("has_text", "it", "actAgain", "verifyAgain"),
     actAgain |-> Need("transfer_text", "it", "verifyAgain", "no"),
     verifyAgain |-> Seen("observe", "it", "yes", "no")]

OpenObserveActVerify == OpenObserveAct ++ ActVerify ++ ActAgain

----------------------------------------------------------------------------
\* Browser chains.  No step of theirs brings the browser to the front: the
\* page read is the one of the window in front.

ExtractThenTransfer ==
    [start   |-> Seen("inspect_dom", "browser", "deliver", "no"),
     deliver |-> Seen("transfer_and_submit", "it", "yes", "no")]

ClickElementByName ==
    [start  |-> Need("open_or_focus", "it", "click", "switch"),
     switch |-> Need("app_switch", "it", "click", "no"),
     click  |-> Need("click_element", "it", "yes", "no")]

TypeElementByName == [start |-> Need("type_element", "it", "yes", "no")]

BrowserToEditor ==
    [start |-> Seen("inspect_dom", "browser", "stage", "no"),
     stage |-> Seen("act_verify", "it", "yes", "no")]

CaptureAndCompare ==
    [start   |-> Seen("inspect_dom", "browser", "compare", "no"),
     compare |-> Need("switch_collect_compare", "it", "route", "no")]

DeliverToRoute ==
    [route   |-> Then("select_route", "it", "deliver"),
     deliver |-> Seen("act_verify", "selected", "yes", "no")]

RouteCaptureTransfer == CaptureAndCompare ++ DeliverToRoute

\* Mutant: delivers whatever came of the staging.
BrokenEditorStageAndDeliver ==
    [start   |-> Then("browser_to_editor", "editor", "deliver"),
     deliver |-> Seen("act_verify", "it", "yes", "no")]

EditorStageAndDeliver ==
    [start   |-> Seen("browser_to_editor", "editor", "deliver", "no"),
     deliver |-> Seen("act_verify", "it", "yes", "no")]

EditorChatStageAndDeliver ==
    [start |-> Seen("editor_stage_and_deliver", "it", "yes", "no")]

EditorChatStageAndDeliverVerify ==
    [start |-> Seen("editor_chat_stage_and_deliver", "it", "yes", "no")]

----------------------------------------------------------------------------
\* File chains.

\* "yes" of a reading is text that is left after the transform.
FileReadTransformTransfer ==
    [start   |-> Call("read_workspace_text", "it", "command", "no", "deliver", "no"),
     command |-> Seen("read_text", "it", "deliver", "no"),
     deliver |-> Seen("act_verify", "it", "yes", "no")]

\* The route of these two is a routeQuery of the input or else text of the page.
ReadAndInspect ==
    [start   |-> Seen("read_text", "it", "inspect", "no"),
     inspect |-> Call("inspect_dom", "browser", "no", "basis", "deliver", "no")]

DeliverOnBasis ==
    [basis   |-> Seen("has_query", "it", "deliver", "no"),
     deliver |-> Seen("act_verify", "it", "yes", "no")]

FileBrowserChatRouteDeliver == ReadAndInspect ++ DeliverOnBasis

FileBrowserChatRouteDeliverVerify ==
    [start |-> Seen("file_browser_chat_route_deliver", "it", "yes", "no")]

FileBrowserRouteBasis ==
    [start   |-> Seen("read_text", "it", "inspect", "no"),
     inspect |-> Call("inspect_dom", "browser", "no", "basis", "compare", "no"),
     basis   |-> Seen("has_query", "it", "compare", "no")]

FileBrowserRouteTarget ==
    [compare |-> Need("switch_collect_compare", "it", "route", "no"),
     route   |-> Then("select_route", "it", "deliver"),
     deliver |-> Seen("act_verify", "selected", "yes", "no")]

FileBrowserRouteDeliver == FileBrowserRouteBasis ++ FileBrowserRouteTarget

FileBrowserRouteDeliverVerify ==
    [start |-> Seen("file_browser_route_deliver", "it", "yes", "no")]

----------------------------------------------------------------------------
\* Two windows compared, and the one that fits the route acted on.

MultiWindowCollect ==
    [start  |-> Need("app_list", "it", "first", "no"),
     first  |-> Seen("collect_window", "primary", "second", "no"),
     second |-> Seen("collect_window", "secondary", "route", "no"),
     route  |-> Then("select_route", "it", "act")]

\* Acts once more after refocusing when the failed action points at the focus.
MultiWindowAct ==
    [act      |-> Seen("act_verify", "selected", "yes", "retry"),
     retry    |-> Seen("recoverable", "it", "refocus", "no"),
     refocus  |-> Need("open_or_focus", "selected", "actAgain", "no"),
     actAgain |-> Seen("act_verify", "selected", "yes", "no")]

MultiWindowRouteExecute == MultiWindowCollect ++ MultiWindowAct

CollectBoth ==
    [start   |-> Then("app_list", "it", "first"),
     first   |-> Seen("collect_window", "primary", "second", "no"),
     second  |-> Seen("collect_window", "secondary", "route", "no")]

DeliverToSelected ==
    [route   |-> Then("select_route", "it", "deliver"),
     deliver |-> Seen("act_verify", "selected", "yes", "no")]

MultiWindowRouteDeliverVerify == CollectBoth ++ DeliverToSelected

----------------------------------------------------------------------------
\* command.file.send_to_chat_window: attach a file to a chat through the file
\* dialog, and send it when asked to.  When the path cannot be typed the file is
\* picked as in the explorer; what was picked is reported without a look at it.

SendToChatChecked ==
    [start   |-> Seen("is_chat", "it", "info", "no"),
     info    |-> Need("file_info", "it", "focus", "no")]

SendToChatAttach ==
    [focus   |-> Need("open_or_focus", "it", "attach", "no"),
     attach  |-> Need("click_named", "it", "path", "no"),
     path    |-> Need("type_path_named", "it", "open", "pick")]

SendToChatPicked ==
    [pick    |-> Need("explorer_select", "it", "sendPicked", "no"),
     sendPicked  |-> Seen("asked_to_send", "it", "enterPicked", "yes"),
     enterPicked |-> Then("press_enter", "it", "yes")]

SendToChatSend ==
    [open    |-> Need("open_named", "it", "send", "no"),
     send    |-> Seen("asked_to_send", "it", "enter", "confirm"),
     enter   |-> Need("press_enter", "it", "confirm", "no")]

SendToChatConfirm == [confirm |-> Seen("observe", "it", "yes", "no")]

FileSendToChatWindow ==
    SendToChatChecked ++ SendToChatAttach ++ SendToChatPicked ++ SendToChatSend
      ++ SendToChatConfirm

\* The first of the names that works.
ClickNamed ==
    [start |-> Need("click_element", "it", "yes", "more"),
     more  |-> Seen("another_try", "it", "start", "no")]

TypePathNamed ==
    [start |-> Need("type_path", "it", "yes", "more"),
     more  |-> Seen("another_try", "it", "start", "no")]

OpenNamed ==
    [start |-> Need("open_file", "it", "yes", "more"),
     more  |-> Seen("another_try", "it", "start", "no")]

\* The Enter that opens the picked file may fail: the click on it was ok.
ExplorerSelect ==
    [start   |-> Need("type_path_named", "it", "pick", "tree"),
     pick    |-> Need("click_element", "it", "confirm", "no"),
     confirm |-> Then("open_file", "it", "yes"),
     tree    |-> Seen("explorer_tree", "it", "yes", "no")]

ExplorerTree ==
    [start   |-> Seen("on_a_drive", "it", "drive", "no"),
     drive   |-> Need("click_element", "it", "folder", "no"),
     folder  |-> Seen("another_folder", "it", "enter", "file"),
     enter   |-> Need("click_element", "it", "count", "no"),
     count   |-> Seen("another_try", "it", "folder", "file"),
     file    |-> Need("click_element", "it", "confirm", "no"),
     confirm |-> Then("open_file", "it", "yes")]

----------------------------------------------------------------------------
\* The templates: one nested chain each, and for the form a recovery of its own.

Verified(chain) == [start |-> Seen(chain, "it", "yes", "no")]

EditorChatTemplate      == Verified("editor_chat_stage_and_deliver_verify")
FileBrowserTemplate     == Verified("file_browser_route_deliver_verify")
MultiWindowTemplate     == Verified("multi_window_route_deliver_verify")
EditorChatReplyTemplate == Verified("editor_chat_stage_and_deliver_verify")
DocDeliverTemplate      == Verified("editor_stage_and_deliver")
CompareDeliverTemplate  == Verified("multi_window_route_deliver_verify")
ExtractPostTemplate     == Verified("extract_then_transfer")

FormSubmitTemplate ==
    [start   |-> Seen("file_read_transform_transfer", "it", "yes", "text"),
     text    |-> Seen("text_was_read", "it", "recover", "no"),
     recover |-> Relay("form_submit_recovery", "it")]

\* For one field name after the other: click the field, transfer the text.
FormSubmitRecovery ==
    [start   |-> Need("click_element_by_name", "it", "deliver", "more"),
     deliver |-> Seen("transfer_if_asked", "it", "yes", "more"),
     more    |-> Seen("another_try", "it", "start", "no")]
----------------------------------------------------------------------------

Capability ==
    [observe |-> DesktopObserve, capture_and_locate |-> CaptureAndLocate,
     inspect_dom |-> InspectDom, resolve |-> Resolve,
     inspect_tree |-> InspectTree, search_text |-> SearchText, read_text |-> ReadText,
     open_or_focus |-> OpenOrFocus, window_available |-> WindowAvailable,
     clipboard_read_write |-> ClipboardReadWrite, collect_window |-> CollectWindow,
     switch_collect_compare |-> SwitchCollectCompare,
     transfer_text |-> TransferText, transfer_and_submit |-> TransferText,
     transfer_if_asked |-> TransferText,
     act_verify |-> OpenObserveActVerify,
     extract_then_transfer |-> ExtractThenTransfer,
     click_element_by_name |-> ClickElementByName,
     type_element_by_name |-> TypeElementByName,
     browser_to_editor |-> BrowserToEditor,
     route_capture_transfer |-> RouteCaptureTransfer,
     editor_stage_and_deliver |-> EditorStageAndDeliver,
     editor_chat_stage_and_deliver |-> EditorChatStageAndDeliver,
     editor_chat_stage_and_deliver_verify |-> EditorChatStageAndDeliverVerify,
     file_read_transform_transfer |-> FileReadTransformTransfer,
     file_browser_chat_route_deliver |-> FileBrowserChatRouteDeliver,
     file_browser_chat_route_deliver_verify |-> FileBrowserChatRouteDeliverVerify,
     file_browser_route_deliver |-> FileBrowserRouteDeliver,
     file_browser_route_deliver_verify |-> FileBrowserRouteDeliverVerify,
     multi_window_route_execute |-> MultiWindowRouteExecute,
     multi_window_route_deliver_verify |-> MultiWindowRouteDeliverVerify,
     file_send_to_chat_window |-> FileSendToChatWindow,
     click_named |-> ClickNamed, type_path_named |-> TypePathNamed, open_named |-> OpenNamed,
     explorer_select |-> ExplorerSelect, explorer_tree |-> ExplorerTree,
     form_submit_recovery |-> FormSubmitRecovery,
     editor_chat_template |-> EditorChatTemplate,
     file_browser_template |-> FileBrowserTemplate,
     multi_window_template |-> MultiWindowTemplate,
     editor_chat_reply_template |-> EditorChatReplyTemplate,
     doc_deliver_template |-> DocDeliverTemplate,
     compare_deliver_template |-> CompareDeliverTemplate,
     extract_post_template |-> ExtractPostTemplate,
     form_submit_template |-> FormSubmitTemplate]

\* Parts of capabilities: functions of the file that are called with what the capability
\* was given, and the transfer with the other ways of giving pressEnter.
Part == {"resolve", "window_available", "collect_window", "transfer_and_submit",
         "transfer_if_asked", "click_named", "type_path_named", "open_named",
         "explorer_select", "explorer_tree", "form_submit_recovery"}

\* The capabilities that are registered, and may be called by the model.
Registered == DOMAIN Capability \ Part

Program == Capability ++ WindowsTool
=============================================================================
