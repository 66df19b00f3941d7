---------------------------- MODULE WindowsTools ----------------------------
(***************************************************************************)
(* The windows.* tools: WindowsTools.ts and the adapter below them,         *)
(* WindowsMcpAdapter.ts, which turns one tool call into several calls of    *)
(* the desktop server.  Calls with a capital are calls of the server; the   *)
(* texts it returns are parsed into the answers (see CallPrograms).         *)
(***************************************************************************)
EXTENDS CallPrograms

\* One call of the server, its result reported as it is: screenshot, shortcut,
\* clipboard, shell, filesystem, app list.
Direct(call) == [start |-> Relay(call, "it")]

\* tryReliableSnapshot: "no" when the snapshot throws or is not reliable.
ReliableSnapshot == [start |-> Relay("Snapshot", "it")]

\* windows.snapshot fails on a snapshot that is not reliable.
SnapshotTool == [start |-> Relay("Snapshot", "it")]

\* withOptionalVerification: an action is reported ok when the server says so,
\* unless both snapshots around it were had and the second shows no anchor.
WithVerification(action) ==
    [start   |-> Then("reliable_snapshot", "it", "act"),
     act     |-> Call(action, "it", "afterFailure", "after", "after", "no"),
     after   |-> Then("reliable_snapshot", "it", "judge"),
     judge   |-> Seen("transition_shown", "it", "yes", "no"),
     afterFailure |-> Then("reliable_snapshot", "it", "no")]

ClickLabel == WithVerification("Click")
TypeLabel  == WithVerification("TypeOver")
AppLaunch  == WithVerification("AppLaunch")
AppSwitch  == WithVerification("AppSwitch")

\* focusWindow: switch to the title and then to its aliases, each followed by a
\* snapshot that has to list the window; then click the element of that name.
FocusWindow ==
    [start    |-> Then("reliable_snapshot", "it", "switch"),
     switch   |-> Call("AppSwitch", "it", "notSwitched", "verify", "verify", "no"),
     verify   |-> Seen("reliable_snapshot", "it", "yes", "alias"),
     notSwitched |-> Then("reliable_snapshot", "it", "alias"),
     alias    |-> Seen("another_try", "it", "switch", "element"),
     element  |-> Need("element_shown", "it", "click", "no"),
     click    |-> Call("Click", "it", "notClicked", "verifyClick", "verifyClick", "no"),
     verifyClick |-> Seen("reliable_snapshot", "it", "yes", "no"),
     notClicked  |-> Then("reliable_snapshot", "it", "no")]

\* type: into the field a reliable snapshot shows, not into the one with the
\* focus; without a reliable snapshot afterwards it fails, typed or not.
TypeText(typing) ==
    [start |-> Need("reliable_snapshot", "it", "field", "no"),
     field |-> Need("element_shown", "it", "type", "no"),
     type  |-> Call(typing, "it", "afterFailure", "after", "after", "no"),
     after |-> Need("reliable_snapshot", "it", "judge", "no"),
     judge |-> Seen("transition_shown", "it", "yes", "no"),
     afterFailure |-> Then("reliable_snapshot", "it", "no")]

\* windows.find_element_by_name: "ok" is an element with coordinates only.
FindElement ==
    [start |-> Call("Snapshot", "it", "find", "find", "find", "no"),
     find  |-> Relay("element_shown", "it")]

\* verifyNamedElementAction: the action was ok and a snapshot after it is reliable.
ClickElement ==
    [start |-> Call("Snapshot", "it", "find", "find", "find", "no"),
     find  |-> Need("element_shown", "it", "click", "no"),
     click |-> Need("click_label", "it", "after", "no"),
     after |-> Need("Snapshot", "it", "judge", "no"),
     judge |-> Seen("transition_shown", "it", "yes", "no")]

\* An element without a label is clicked, and the text goes to "a stable field".
TypeElement(labelled, stable) ==
    [start |-> Call("Snapshot", "it", "find", "find", "find", "no"),
     find  |-> Call("element_shown", "it", "no", "click", "type", "no"),
     type  |-> Need(labelled, "it", "after", "no"),
     click |-> Need("click_label", "it", "there", "no"),
     there |-> Need(stable, "it", "after", "no"),
     after |-> Need("Snapshot", "it", "judge", "no"),
     judge |-> Seen("transition_shown", "it", "yes", "no")]

----------------------------------------------------------------------------

WindowsTool ==
    [snapshot |-> SnapshotTool, reliable_snapshot |-> ReliableSnapshot,
     screenshot |-> Direct("Screenshot"),
     focus_window |-> FocusWindow, app_launch |-> AppLaunch, app_switch |-> AppSwitch,
     app_list |-> Direct("AppList"), shell_launch |-> Direct("ShellLaunch"),
     set_clipboard |-> Direct("ClipboardSet"), read_clipboard |-> Direct("ClipboardGet"),
     address_bar |-> Direct("AddressBar"), paste |-> Direct("Paste"),
     press_enter |-> Direct("Enter"), file_info |-> Direct("FileInfo"),
     click_label |-> ClickLabel, type_label |-> TypeLabel, type |-> TypeText("Type"),
     find_element |-> FindElement, click_element |-> ClickElement,
     type_element |-> TypeElement("type_label", "type"),
     type_path_label |-> WithVerification("TypePath"),
     type_path_stable |-> TypeText("TypePath"),
     type_path |-> TypeElement("type_path_label", "type_path_stable")]
=============================================================================
