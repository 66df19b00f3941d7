--------------------------- MODULE RunInvariants ---------------------------
(***************************************************************************)
(* What is known at each label of the programs of CapabilityRuns: the       *)
(* annotation of the tools and capabilities on which the proofs of the      *)
(* runs' properties rest.                                                   *)
(*                                                                          *)
(* A table says at which labels of which programs an assertion is made; the *)
(* labels "no", "ok", "yes" are the answers a program ends with.  Most      *)
(* assertions hold of every frame at such a label (...At).  Those that a    *)
(* program called meanwhile may change hold of the innermost frame and of   *)
(* the frames that wait for a program that puts in no text (Settled).       *)
(***************************************************************************)
EXTENDS CapabilityExecutor

\* Sets of programs.
Transfer == {"transfer_text", "transfer_and_submit", "transfer_if_asked"}

\* The four that choose a route, and the capability that stages a text in the editor.
Router == {"route_capture_transfer", "file_browser_route_deliver",
           "multi_window_route_execute", "multi_window_route_deliver_verify"}
Stager == "editor_stage_and_deliver"

\* A chain whose target is not the window its text is put into first.
Outer == Routed \cup Staged

\* The other programs that put text into a window or press Enter.
Inserter ==
    {"paste", "press_enter", "type_label", "type", "type_element", "act_verify",
     "browser_to_editor", "extract_then_transfer", "extract_post_template",
     "type_element_by_name", "file_send_to_chat_window", "open_named", "explorer_select",
     "explorer_tree", "file_read_transform_transfer", "file_browser_chat_route_deliver",
     "file_browser_chat_route_deliver_verify", "form_submit_template",
     "form_submit_recovery"} \cup Transfer

Writing == Outer \cup Inserter

\* Every step of these is about the window they were called for.
Inner == (DOMAIN Program) \ (Outer \cup
            {"switch_collect_compare", "extract_then_transfer", "extract_post_template",
             "browser_to_editor", "file_browser_chat_route_deliver",
             "file_browser_chat_route_deliver_verify"})

\* Only capabilities of these submit with Enter unasked.
Submitter == Submitting \cup {"transfer_and_submit"}

\* Primitive calls that bring a window to the front, and that put something into one.
Focusing == {"AppSwitch", "AppLaunch", "ShellLaunch", "Click", "Type", "TypeOver"}
Inserting == {"Paste", "Type", "TypeOver", "open_file"}
Entering == {"Enter", "TypeOver"}

Answered == {"ok", "yes"}

----------------------------------------------------------------------------
\* The frames of the stack.

Name(i) == stack[i].name
At(i) == stack[i].at
Callee(i) == Program[Name(i)][At(i)].call

\* Every frame but the innermost waits for the one above it.
Linked ==
    \A i \in 1..Len(stack) - 1 :
        At(i + 1) \in DOMAIN Program[Name(i + 1)] /\ Callee(i + 1) = Name(i)

\* Programs that only programs of the same set call: the chain is one of the set.
CalledFromWithin == {Outer, Writing, Routed, Staged, FromFile, Submitter}

Nested ==
    \A S \in CalledFromWithin : \A i, j \in DOMAIN stack :
        i <= j /\ Name(i) \in S => Name(j) \in S

\* A routed or staged chain has one program that chooses the windows.
Core == Router \cup {Stager}
OneCore ==
    /\ \A i, j \in DOMAIN stack : i < j /\ Name(j) \in Core => Name(i) \notin Outer
    /\ input.chain \in Staged =>
          \A i \in DOMAIN stack : Name(i) \in Inserter =>
             \E j \in DOMAIN stack : i < j /\ Name(j) = Stager

\* What Inner programs call is about the same window.
SameWindow ==
    \A i, j \in DOMAIN stack :
        i <= j /\ Name(j) \in Inner => Name(i) \in Inner /\ stack[i].it = stack[j].it

\* The window that text is put into now.
Staging == \E i \in DOMAIN stack : Name(i) = Stager /\ At(i) = "start"
Aim == IF input.chain \in Routed THEN selected
       ELSE IF Staging THEN "editor" ELSE input.window

Aimed ==
    \A i \in DOMAIN stack :
        /\ Name(i) \in Inserter => stack[i].it = Aim
        /\ Name(i) \in Outer => stack[i].it = input.window

\* Labels after the route has been chosen.
RoutedAt(name, label) ==
    name \in Router /\ label \in {"deliver", "act", "retry", "refocus", "actAgain"}

Selected == \A i \in DOMAIN stack : RoutedAt(Name(i), At(i)) => selected # "none"

Untouched(w) == copies[w] = 0 /\ enters[w] = 0
Clean == \A w \in Place : Untouched(w)

\* The stack starts with the capability of the input, and the desktop as it is found.
Started ==
    /\ stack # <<>> =>
          /\ result = "none" /\ input.chain \in Chain
          /\ Name(Len(stack)) = input.chain /\ stack[Len(stack)].it = input.window
    /\ input.chain \in Chain => input.window \in Named(input.chain)
    /\ input.chain \in Chain =>
          input.text \/ input.chain \in {"act_verify", "multi_window_route_execute"}
    /\ stack = <<>> /\ result = "none" => Clean
    /\ \A i \in DOMAIN stack : At(i) # "thrown"

Label == (UNION {DOMAIN Program[name] : name \in DOMAIN Program}) \cup Answer
FrameSet == [name : DOMAIN Program, at : Label, it : Window, left : 0..Attempts]

Structure == /\ RunTypeOK /\ stack \in Seq(FrameSet)
             /\ Linked /\ Nested /\ OneCore /\ SameWindow /\ Aimed /\ Selected /\ Started

----------------------------------------------------------------------------
\* The window of the frame is in front.
FrontAt(name, label) ==
    \/ name \in {"app_switch", "app_launch", "click_label", "type_label", "type"}
       /\ label \in {"after", "judge"} \cup Answered
    \/ name = "shell_launch" /\ label \in Answered
    \/ name = "focus_window" /\ label \in {"verify", "verifyClick"} \cup Answered
    \/ name = "open_or_focus" /\ label \in {"check", "refocus", "recheck"} \cup Answered
    \/ name \in Transfer /\ label \in {"which", "copy", "copyChecked", "address", "paste",
                                       "submit", "enter"}
    \/ name \in {"paste", "press_enter"} /\ label = "start"
    \/ name = "file_send_to_chat_window"
       /\ label \in {"attach", "path", "pick", "sendPicked", "enterPicked", "open", "send", "enter"}
    \/ name = "open_named" /\ label \in {"start", "more"}
    \/ name = "explorer_select" /\ label \in {"start", "pick", "confirm", "tree"}
    \/ name = "explorer_tree"
       /\ label \in {"start", "drive", "folder", "enter", "count", "file", "confirm"}

InFront == \A i \in DOMAIN stack : FrontAt(Name(i), At(i)) => front = stack[i].it

\* A frame whose assertions the frames above it leave alone.
Settled(i) == i = 1 \/ Callee(i) \notin Writing

\* Nothing has been put anywhere yet.
CleanAt(name, label) ==
    \/ name \in Outer /\ label = "start"
    \/ name = "route_capture_transfer" /\ label \in {"compare", "route"}
    \/ name = "file_browser_route_deliver" /\ label \in {"inspect", "basis", "compare", "route"}
    \/ name \in {"multi_window_route_execute", "multi_window_route_deliver_verify"}
       /\ label \in {"first", "second", "route"}

CleanBefore == \A i \in DOMAIN stack : Settled(i) /\ CleanAt(Name(i), At(i)) => Clean

----------------------------------------------------------------------------
\* Enter may be pressed in a window.
MayEnter(w) == input.enter \/ w = "browser" \/ (w = "chat" /\ input.chain \in Submitting)

MayEnterAt(name, label) ==
    \/ name \in Transfer /\ label = "enter"
    \/ name = "press_enter" /\ label = "start"
    \/ name = "file_send_to_chat_window" /\ label \in {"enterPicked", "enter"}

Asked == \A i \in DOMAIN stack : MayEnterAt(Name(i), At(i)) => MayEnter(stack[i].it)

----------------------------------------------------------------------------
\* A text may be put into a window: it has none, or what became of it is in doubt.
FreshEnter(w) == w = "browser" \/ w \in doubted \/ enters[w] = 0
Fresh(w) == FreshEnter(w) /\ (w \in doubted \/ copies[w] = 0)

FreshAt(name, label) ==
    \/ name \in Transfer
       /\ label \in {"start", "which", "copy", "copyChecked", "address", "paste", "edit",
                     "typeEdit", "title", "typeTitle", "type", "no", "ok"}
    \/ name = "act_verify"
       /\ label \in {"start", "locate", "given", "act", "retry", "refocus", "givenAgain",
                     "actAgain", "no", "ok"}
    \/ name = "paste" /\ label = "start"
    \/ name = "type_label" /\ label \in {"start", "act"}
    \/ name = "type" /\ label \in {"start", "field", "type"}
    \/ name = "type_element" /\ label \in {"start", "find", "type", "click", "there"}
    \/ name \in {"browser_to_editor", "extract_then_transfer", "extract_post_template",
                 "type_element_by_name"}
       /\ label \in {"start", "stage", "deliver"}
    \/ name = "file_read_transform_transfer" /\ label \in {"start", "command", "deliver", "no", "ok"}
    \/ name \in {"file_browser_chat_route_deliver", "file_browser_chat_route_deliver_verify"}
       /\ label \in {"start", "inspect", "basis", "deliver"}
    \/ name = "form_submit_template" /\ label \in {"start", "text", "recover"}
    \/ name = "form_submit_recovery" /\ label \in {"start", "deliver", "more"}
    \/ name = Stager /\ label = "deliver"
    \/ RoutedAt(name, label)

FreshEnterAt(name, label) ==
    \/ name \in Transfer /\ label \in {"submit", "enter"}
    \/ name = "paste" /\ label \in Answered
    \/ name = "press_enter" /\ label = "start"
    \/ name = "file_send_to_chat_window"
       /\ label \in {"start", "info", "focus", "attach", "path", "pick", "sendPicked",
                     "enterPicked", "open", "send", "enter"}
    \/ name \in {"open_named", "explorer_select", "explorer_tree"}

FreshBefore ==
    \A i \in DOMAIN stack : Settled(i) =>
        /\ FreshAt(Name(i), At(i)) => Fresh(Aim)
        /\ FreshEnterAt(Name(i), At(i)) => FreshEnter(Aim)

----------------------------------------------------------------------------
\* The text has been put into a window, unless somebody changed the clipboard; and an
\* observation has confirmed it.
Delivered(w) == copies[w] > 0 \/ pastedOther
Done(w) == w \in confirmed /\ Delivered(w)

DeliveredAt(name, label) ==
    \/ name = "paste" /\ label \in Answered
    \/ name \in {"type_label", "type"} /\ label \in {"after", "judge"} \cup Answered
    \/ name \in Transfer /\ label \in {"submit", "enter", "confirm", "confirmEdit",
                                       "confirmTitle", "confirmType"} \cup Answered
    \/ name = "act_verify"
       /\ label \in {"verify", "retry", "refocus", "givenAgain", "actAgain", "verifyAgain"}
                      \cup Answered

DeliveredAfter ==
    \A i \in DOMAIN stack :
        DeliveredAt(Name(i), At(i)) /\ input.text => Delivered(stack[i].it)

\* While the editor is filled nothing is in the target, and afterwards the text in the
\* editor is confirmed.
Staged1 ==
    \A i \in DOMAIN stack : Name(i) = Stager =>
        /\ At(i) = "start" => Untouched(input.window)
        /\ At(i) = "deliver" => Done("editor")

\* A program that delivers and answers "yes" has seen the text where it is for.
Deliverer ==
    Transfer \cup Outer \cup FromFile \cup Submitting
      \cup {"act_verify", "browser_to_editor", "form_submit_recovery"}

DoneAt(name) == IF name \in Staged THEN {"editor", input.window} ELSE {Aim}

SeenAfter ==
    \A i \in DOMAIN stack :
        Name(i) \in Deliverer /\ At(i) = "yes" /\ input.text =>
            \A w \in DoneAt(Name(i)) : Done(w)

----------------------------------------------------------------------------
\* The text of the file has been read.
HaveTextAt(name, label) ==
    \/ name = "read_text" /\ label = "yes"
    \/ name = "file_read_transform_transfer" /\ label = "deliver"
    \/ name = "file_browser_chat_route_deliver" /\ label \in {"inspect", "basis", "deliver"}
    \/ name = "file_browser_route_deliver"
       /\ label \in {"inspect", "basis", "compare", "route", "deliver"}
    \/ name = "form_submit_template" /\ label = "recover"

TextRead ==
    \A i \in DOMAIN stack :
        /\ HaveTextAt(Name(i), At(i)) => haveText
        /\ input.chain \in FromFile /\ Name(i) \in Writing \ FromFile =>
              Name(i) \in Inserter /\ haveText

RunInv ==
    /\ Structure /\ InFront /\ CleanBefore /\ Asked /\ FreshBefore
    /\ DeliveredAfter /\ Staged1 /\ SeenAfter /\ TextRead
    /\ OnlyTargetsWritten /\ StagesInOrder /\ SuccessWasSeen /\ RepeatsOnlyInDoubt
    /\ EnterOnlyWhenAsked

----------------------------------------------------------------------------
(***************************************************************************)
(* The conditions under which every step keeps the assertions: a label in a *)
(* table is reached only from labels, and after answers, that establish     *)
(* what it asserts.  They are about the programs alone, step by step.       *)
(***************************************************************************)
IsProgram(call) == call \in DOMAIN Program

\* No program answers "thrown".
Reply(call) == IF IsProgram(call) THEN Answer \ {"thrown"} ELSE Answer

\* The labels of a program are there.
WellFormed(p) ==
    /\ "start" \in DOMAIN p
    /\ \A label \in DOMAIN p :
          /\ label \notin Answer /\ p[label].window \in Window \cup {"it", "selected"}
          /\ \A a \in Answer : p[label].next[a] \in (DOMAIN p \cup Answer) \ {"thrown"}

RouteKept(name, label, s) ==
    /\ s.window = "selected" => RoutedAt(name, label)
    /\ \A a \in Reply(s.call) : RoutedAt(name, s.next[a]) =>
          RoutedAt(name, label) \/ s.call = "select_route"
    /\ s.call = "select_route" => name \in Router /\ CleanAt(name, label)

WellNested(name, label, s) ==
    /\ \A S \in CalledFromWithin : s.call \in S => name \in S
    /\ s.call \in Outer => name \notin Core /\ s.window = "it" /\ label = "start"
    /\ name \in Inner => s.window = "it" /\ (IsProgram(s.call) => s.call \in Inner)
    /\ s.call \in Inserter =>
          \/ name \in Inserter /\ s.window = "it"
          \/ name \in Routed /\ s.window = "selected"
          \/ name = Stager /\ s.window = IF label = "start" THEN "editor" ELSE "it"
    /\ name = Stager => label \in {"start", "deliver"}
                        /\ \A a \in Reply(s.call) : s.next[a] # "start"

\* Where a window is brought to the front, or must be there.
FrontKept(name, label, s) ==
    /\ \A a \in Reply(s.call) : FrontAt(name, s.next[a]) =>
          \/ FrontAt(name, label)
          \/ IsProgram(s.call) /\ FrontAt(s.call, a)
          \/ s.call \in Focusing /\ a \in Answered
    /\ IsProgram(s.call) /\ FrontAt(s.call, "start") => FrontAt(name, label)
    /\ s.call \in {"Paste", "Enter", "open_file"} => FrontAt(name, label)
    /\ s.call \in Inserting \cup Entering => name \in Inserter \ FromFile
    /\ s.call \in Focusing \cup {"Paste", "Enter", "open_file"} => name \in Inner

CleanKept(name, label, s) ==
    /\ \A a \in Reply(s.call) : CleanAt(name, s.next[a]) =>
          CleanAt(name, label) /\ s.call \notin Writing
    /\ IsProgram(s.call) /\ CleanAt(s.call, "start") => CleanAt(name, label)

EnterKept(name, label, s) ==
    /\ \A a \in Reply(s.call) : MayEnterAt(name, s.next[a]) =>
          \/ MayEnterAt(name, label)
          \/ s.call \in {"submits", "asked_to_send"} /\ a = "yes"
    /\ IsProgram(s.call) /\ MayEnterAt(s.call, "start") => MayEnterAt(name, label)
    /\ s.call = "Enter" => MayEnterAt(name, label)
    /\ s.call \in {"submits", "TypeOver"} => name \in Inner

\* An insertion that failed, or that an observation does not confirm, is in doubt.
Doubting(call, a) == (call = "observe" /\ a # "yes") \/ (call \in Typing /\ a = "no")

FreshKept(name, label, s) ==
    /\ \A a \in Reply(s.call) : FreshAt(name, s.next[a]) =>
          \/ FreshAt(name, label) /\ s.call \notin Writing \cup Inserting \cup Entering
          \/ CleanAt(name, label) /\ s.call \notin Writing
          \/ IsProgram(s.call) /\ FreshAt(s.call, a)
          \/ Doubting(s.call, a) /\ name \in Inner \cap Inserter
          \/ name = Stager
    /\ \A a \in Reply(s.call) : FreshEnterAt(name, s.next[a]) =>
          \/ /\ FreshEnterAt(name, label) \/ FreshAt(name, label)
             /\ s.call \notin Writing \cup Entering
          \/ IsProgram(s.call) /\ FreshEnterAt(s.call, a)
    /\ IsProgram(s.call) /\ FreshAt(s.call, "start") =>
          FreshAt(name, label) \/ CleanAt(name, label)
    /\ IsProgram(s.call) /\ FreshEnterAt(s.call, "start") =>
          FreshEnterAt(name, label) \/ FreshAt(name, label) \/ CleanAt(name, label)
    /\ s.call \in Inserting \ {"open_file"} => FreshAt(name, label)
    /\ s.call = "Enter" => FreshEnterAt(name, label)

DeliveryKept(name, label, s) ==
    /\ \A a \in Reply(s.call) : DeliveredAt(name, s.next[a]) =>
          \/ DeliveredAt(name, label)
          \/ IsProgram(s.call) /\ DeliveredAt(s.call, a)
          \/ s.call \in Inserting \ {"open_file"} /\ a \in Answered
          \/ s.call = "has_text" /\ a # "yes"
    /\ ~DeliveredAt(name, "start")
    /\ (\E a \in Reply(s.call) : DeliveredAt(name, s.next[a])) => name \in Inner \cap Inserter
    /\ name \in Deliverer => \A a \in Reply(s.call) : s.next[a] = "yes" =>
          /\ a = "yes"
          /\ \/ s.call \in Deliverer /\ (s.call \in Staged <=> name \in Staged \ {Stager})
                /\ (name = Stager => label = "deliver")
             \/ s.call = "observe" /\ name \in Inner \cap Inserter /\ DeliveredAt(name, label)
    /\ name = Stager => s.call \in Deliverer \ Staged
          /\ \A a \in Reply(s.call) : s.next[a] = "deliver" => label = "start" /\ a = "yes"

TextKept(name, label, s) ==
    /\ \A a \in Reply(s.call) : HaveTextAt(name, s.next[a]) =>
          \/ HaveTextAt(name, label)
          \/ IsProgram(s.call) /\ HaveTextAt(s.call, a)
          \/ s.call \in {"command_line", "read_workspace_text", "text_was_read"} /\ a = "yes"
    /\ ~HaveTextAt(name, "start")
    /\ name \in FromFile /\ s.call \in Writing \ FromFile =>
          s.call \in Inserter /\ HaveTextAt(name, label)

Annotated(name, label, s) ==
    /\ RouteKept(name, label, s) /\ WellNested(name, label, s) /\ FrontKept(name, label, s)
    /\ CleanKept(name, label, s) /\ EnterKept(name, label, s) /\ FreshKept(name, label, s)
    /\ DeliveryKept(name, label, s) /\ TextKept(name, label, s)

ProgramsAnnotated ==
    \A name \in DOMAIN Program :
        /\ WellFormed(Program[name])
        /\ \A label \in DOMAIN Program[name] : Annotated(name, label, Program[name][label])
=============================================================================
