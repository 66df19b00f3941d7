--------------------------- MODULE CapabilityRuns ---------------------------
(***************************************************************************)
(* One run of a capability on a desktop.  The running programs form a stack *)
(* of frames; the calls at the bottom read or change the desktop: which     *)
(* window is in front, what the clipboard holds, how often the text of the  *)
(* task was put into a window and Enter pressed there.                      *)
(*                                                                          *)
(* What the desktop server is taken to do: a call it reports ok has done    *)
(* what it says; one it reports as failed, or that throws, may or may not   *)
(* have.  Nobody else uses the desktop meanwhile, except for the clipboard. *)
(* Strays says whether an element found by name can be in another window.   *)
(***************************************************************************)
EXTENDS CapabilityChains, Naturals, Sequences, SequencesExt

CONSTANTS Chain,        \* the capabilities that are run
          Attempts,     \* repetitions of a loop (6 and 7 names, 32 chunks in the code)
          Many,         \* the counters of the desktop stop here
          Strays

ASSUME CapabilityAssumption ==
    /\ Chain \subseteq Registered
    /\ Attempts \in Nat /\ Many \in Nat \ {0, 1} /\ Strays \in BOOLEAN

VARIABLES input,        \* capability, window, pressEnter or send, and whether there is text
          stack,        \* frames of the running programs, innermost first
          result,       \* the answer of the capability once it has ended
          selected,     \* window chosen by the route
          haveText,     \* a file was read
          front,        \* window in front
          clipboard,    \* "text": the text of the task
          copies,       \* copies of the text in each window
          enters,       \* Enter pressed in each window
          confirmed,    \* windows observed since text was last put into them
          doubted,      \* windows where a typing failed or an observation did not confirm it
          pastedOther   \* the clipboard was pasted when it held something else

program == <<input, stack, result, selected, haveText>>
desktop == <<front, clipboard, copies, enters, confirmed, doubted, pastedOther>>
runVars == <<input, stack, result, selected, haveText, front, clipboard, copies, enters,
             confirmed, doubted, pastedOther>>

Frame(name, window, left) == [name |-> name, at |-> "start", it |-> window, left |-> left]
Place == Window \cup {"other"}
Top == Head(stack)
Resolved(window) == CASE window = "it" -> Top.it
                      [] window = "selected" -> selected
                      [] OTHER -> window
Current == Program[Top.name][Top.at]
Running == stack # <<>>
Calls(calls) == Running /\ Top.at \notin Answer /\ Current.call \in calls

\* The innermost program goes on with the answer of its call.
Advance(frames, answer) ==
    LET f == Head(frames)
    IN  <<[f EXCEPT !.at = Program[f.name][f.at].next[answer]]>> \o Tail(frames)

Proceed(answer) == stack' = Advance(stack, answer)

\* The window the task is delivered to, by the capability or the one it wraps.
Routed == {"route_capture_transfer", "file_browser_route_deliver",
           "file_browser_route_deliver_verify", "multi_window_route_execute",
           "multi_window_route_deliver_verify", "file_browser_template",
           "multi_window_template", "compare_deliver_template"}
Staged == {"editor_stage_and_deliver", "editor_chat_stage_and_deliver",
           "editor_chat_stage_and_deliver_verify", "editor_chat_template",
           "editor_chat_reply_template", "doc_deliver_template"}
FromFile == {"file_read_transform_transfer", "file_browser_chat_route_deliver",
             "file_browser_chat_route_deliver_verify", "file_browser_route_deliver",
             "file_browser_route_deliver_verify", "file_browser_template",
             "form_submit_template"}
\* These submit to a chat window whether they are asked to or not.
Submitting == {"extract_then_transfer", "extract_post_template"}
Delivering == Routed \cup Staged \cup FromFile
                \cup Submitting \cup {"transfer_text", "act_verify", "browser_to_editor"}

Target == IF input.chain \in Routed THEN selected ELSE input.window
Destinations == {Target} \cup IF input.chain \in Staged THEN {"editor"} ELSE {}

----------------------------------------------------------------------------
RunInit ==
    /\ input = [chain |-> "none", window |-> "editor", enter |-> FALSE, text |-> TRUE]
    /\ stack = <<>> /\ result = "none"
    /\ selected = "none" /\ haveText = FALSE
    /\ front = "other" /\ clipboard = "other"
    /\ copies = [w \in Place |-> 0] /\ enters = [w \in Place |-> 0]
    /\ confirmed = {} /\ doubted = {} /\ pastedOther = FALSE

\* The window an input names.  The routed chains name the two they compare, the
\* staged ones another window than the editor they stage in.  A chat differs from
\* an editor only for what attaches a file to it or submits to it.
Named(chain) ==
    CASE chain \in Routed -> {"primary"}
      [] chain \in Staged \cup Submitting -> {"browser", "chat"}
      [] chain = "file_send_to_chat_window" -> {"chat", "browser"}
      [] OTHER -> {"browser", "editor"}

\* The inputs tell pressEnter or send apart only where the program looks at it; the
\* text to put in is optional for two of the capabilities.
AsksToSend == Submitting \cup {"type_element_by_name", "form_submit_template",
                               "file_send_to_chat_window"}

Start ==
    /\ result = "none" /\ ~Running
    /\ \E chain \in Chain, enter \in BOOLEAN, text \in BOOLEAN : \E window \in Named(chain) :
          /\ enter => chain \in AsksToSend
          /\ text \/ chain \in {"act_verify", "multi_window_route_execute"}
          /\ input' = [chain |-> chain, window |-> window, enter |-> enter, text |-> text]
          /\ stack' = <<Frame(chain, window, Attempts)>>
    /\ UNCHANGED <<result, selected, haveText, desktop>>

Invoke ==
    /\ Calls(DOMAIN Program)
    /\ stack' = <<Frame(Current.call, Resolved(Current.window), Attempts)>> \o stack
    /\ UNCHANGED <<input, result, selected, haveText, desktop>>

Typing == {"paste", "type_label", "type"}

\* A program ends; its caller goes on with its answer.  What the caller learns
\* about the window decides whether a further insertion is justified.
Return ==
    /\ Running /\ Top.at \in Answer
    /\ IF Len(stack) = 1
         THEN stack' = <<>> /\ result' = Top.at
         ELSE stack' = Advance(Tail(stack), Top.at) /\ UNCHANGED result
    /\ LET seen == Top.name = "observe" /\ Top.at = "yes"
           unsure == \/ Top.name = "observe" /\ Top.at # "yes"
                     \/ Top.name \in Typing /\ Top.at = "no"
       IN  /\ confirmed' = IF seen THEN confirmed \cup {Top.it} ELSE confirmed
           /\ doubted' = IF unsure THEN doubted \cup {Top.it} ELSE doubted
    /\ UNCHANGED <<input, selected, haveText, front, clipboard, copies, enters, pastedOther>>

----------------------------------------------------------------------------
\* Questions a program asks itself.

\* Mutants: one attempt too many; the attempts are not counted.
BrokenCountAttempt ==
    /\ Calls({"another_try"})
    /\ IF Top.left >= 0
         THEN stack' = Advance(<<[Top EXCEPT !.left = @ - 1]>> \o Tail(stack), "yes")
         ELSE Proceed("no")
    /\ UNCHANGED <<input, result, selected, haveText, desktop>>

EndlessAttempts ==
    /\ Calls({"another_try"})
    /\ Proceed("yes")
    /\ UNCHANGED <<input, result, selected, haveText, desktop>>

\* Whether another attempt is left.
CountAttempt ==
    /\ Calls({"another_try"})
    /\ IF Top.left > 0
         THEN stack' = Advance(<<[Top EXCEPT !.left = @ - 1]>> \o Tail(stack), "yes")
         ELSE Proceed("no")
    /\ UNCHANGED <<input, result, selected, haveText, desktop>>

\* Mutant: Enter whether it was asked for or not.
BrokenPressEnterGiven ==
    \E i \in DOMAIN stack : stack[i].name \in {"transfer_if_asked", "transfer_and_submit"}

\* The pressEnter a transfer was given: what the task asks for, and for
\* extract_then_transfer also what shouldSubmitWithEnter says of a chat window.
PressEnterGiven ==
    \E i \in DOMAIN stack :
        \/ input.enter /\ stack[i].name \in {"transfer_if_asked", "transfer_and_submit",
                                            "type_element_by_name"}
        \/ stack[i].name = "transfer_and_submit" /\ stack[i].it = "chat"

Decided ==
    [is_browser    |-> Top.it = "browser",
     is_chat       |-> Top.it = "chat",
     has_text      |-> input.text,
     asked_to_send |-> input.enter,
     text_was_read |-> haveText,
     submits       |-> Top.it = "browser" \/ PressEnterGiven]

Decide ==
    /\ Calls(DOMAIN Decided)
    /\ Proceed(IF Decided[Current.call] THEN "yes" ELSE "no")
    /\ UNCHANGED <<input, result, selected, haveText, desktop>>

\* What the model leaves open, the contents of snapshots, pages and paths: whether an
\* element of the name is there, and with a label or with coordinates only; whether a
\* snapshot is reliable, and lists the window.
ElementShown == {"no", "ok", "yes"}
SnapshotShown == Answer
Either == {"no", "yes"}

Open == [known_app |-> Either, recoverable |-> Either, transition_shown |-> Either,
         sufficient |-> Either, is_pointer |-> Either, has_more |-> Either,
         read_result |-> Either, another_folder |-> Either, on_a_drive |-> Either,
         has_query |-> Either, parsed |-> {"ok", "yes"}, element_shown |-> ElementShown,
         Snapshot |-> SnapshotShown, Screenshot |-> {"no", "yes", "thrown"},
         AppList |-> Either, FileInfo |-> Either, AddressBar |-> Either]

Look ==
    /\ Calls(DOMAIN Open)
    /\ \E answer \in Open[Current.call] : Proceed(answer)
    /\ UNCHANGED <<input, result, selected, haveText, desktop>>

ReadSource ==
    /\ Calls({"command_line", "read_workspace_text"})
    /\ \E answer \in {"no", "ok", "yes"} :
          /\ Proceed(answer)
          /\ haveText' = (haveText \/ answer = "yes")
    /\ UNCHANGED <<input, result, selected, desktop>>

\* selectWindowRoute: which of the two scores more is left open.
SelectWindowRoute ==
    /\ Calls({"select_route"})
    /\ selected' \in {"primary", "secondary"}
    /\ Proceed("yes")
    /\ UNCHANGED <<input, result, haveText, desktop>>

----------------------------------------------------------------------------
\* Calls of the desktop server that change the desktop.

Outcome == {"no", "yes", "thrown"}
Pressed(counter) == IF counter < Many THEN counter + 1 ELSE counter
Element == IF Strays THEN Place ELSE {Top.it}

BringToFront ==
    /\ Calls({"AppSwitch", "AppLaunch", "ShellLaunch", "Click"})
    /\ \E answer \in Outcome :
          /\ Proceed(answer)
          /\ \/ \E w \in IF Current.call = "Click" THEN Element ELSE {Top.it} : front' = w
             \/ answer # "yes" /\ UNCHANGED front
    /\ UNCHANGED <<input, result, selected, haveText, clipboard, copies, enters,
                   confirmed, doubted, pastedOther>>

SetClipboard ==
    /\ Calls({"ClipboardSet"})
    /\ \E answer \in Outcome :
          /\ Proceed(answer)
          /\ \/ clipboard' = "text"
             \/ answer # "yes" /\ UNCHANGED clipboard
    /\ UNCHANGED <<input, result, selected, haveText, front, copies, enters,
                   confirmed, doubted, pastedOther>>

\* Somebody may have copied something else since.
ReadClipboard ==
    /\ Calls({"ClipboardGet"})
    /\ \/ Proceed("yes") /\ UNCHANGED clipboard
       \/ Proceed("ok") /\ clipboard' = "other"
       \/ Proceed("no") /\ clipboard' \in {clipboard, "other"}
    /\ UNCHANGED <<input, result, selected, haveText, front, copies, enters,
                   confirmed, doubted, pastedOther>>

\* The text reaches window w: pasted and typed text is added to what is there,
\* text typed over a field replaces it unless it was sent.
Insert(w, over) ==
    /\ copies' = [copies EXCEPT ![w] = IF over /\ enters[w] = 0 THEN 1 ELSE Pressed(@)]
    /\ confirmed' = confirmed \ {w}

Paste ==
    /\ Calls({"Paste"})
    /\ \E answer \in Outcome :
          /\ Proceed(answer)
          /\ \/ clipboard = "text" /\ Insert(front, FALSE) /\ UNCHANGED pastedOther
             \/ clipboard # "text" /\ pastedOther' = TRUE /\ UNCHANGED <<copies, confirmed>>
             \/ answer # "yes" /\ UNCHANGED <<copies, confirmed, pastedOther>>
    /\ UNCHANGED <<input, result, selected, haveText, front, clipboard, enters, doubted>>

\* Typing into a field focuses it.  type_label presses Enter when it is asked to,
\* which for a browser target alone it is not.
TypeIntoField ==
    /\ Calls({"Type", "TypeOver"})
    /\ \E answer \in Outcome, w \in Element :
          /\ Proceed(answer)
          /\ \/ /\ Insert(w, Current.call = "TypeOver")
                /\ front' = w
                /\ enters' = IF Current.call = "TypeOver" /\ PressEnterGiven
                               THEN [enters EXCEPT ![w] = Pressed(@)] ELSE enters
             \/ answer # "yes" /\ UNCHANGED <<copies, confirmed, front, enters>>
    /\ UNCHANGED <<input, result, selected, haveText, clipboard, doubted, pastedOther>>

\* The path of the file, typed into the file dialog, or that of its folder into the
\* address bar there, where the code presses Enter as well.  The dialog is no Place:
\* neither the text nor the Enter reaches a window that is counted.
TypePath ==
    /\ Calls({"TypePath"})
    /\ \E answer \in Outcome : Proceed(answer)
    /\ UNCHANGED <<input, result, selected, haveText, desktop>>

\* The file dialog is closed with the file picked, once: it is attached to the chat.
AttachFile ==
    /\ Calls({"open_file"})
    /\ \E answer \in {"no", "yes"} :
          /\ Proceed(answer)
          /\ \/ copies[front] = 0 /\ Insert(front, FALSE)
             \/ /\ answer # "yes" \/ copies[front] > 0
                /\ UNCHANGED <<copies, confirmed>>
    /\ UNCHANGED <<input, result, selected, haveText, front, clipboard, enters, doubted, pastedOther>>

PressEnter ==
    /\ Calls({"Enter"})
    /\ \E answer \in Outcome :
          /\ Proceed(answer)
          /\ \/ enters' = [enters EXCEPT ![front] = Pressed(@)]
             \/ answer # "yes" /\ UNCHANGED enters
    /\ UNCHANGED <<input, result, selected, haveText, front, clipboard, copies,
                   confirmed, doubted, pastedOther>>

RunNext == \/ Start \/ Invoke \/ Return \/ CountAttempt \/ Decide \/ Look
           \/ ReadSource \/ SelectWindowRoute \/ BringToFront \/ SetClipboard
           \/ ReadClipboard \/ Paste \/ TypeIntoField \/ TypePath \/ AttachFile
           \/ PressEnter

RunSpec == RunInit /\ [][RunNext]_runVars /\ WF_runVars(RunNext)

----------------------------------------------------------------------------
\* The variables have their types, and every frame is at a label of its program.
RunTypeOK ==
    /\ input \in [chain : Chain \cup {"none"}, window : Window, enter : BOOLEAN, text : BOOLEAN]
    /\ \A i \in DOMAIN stack :
          /\ stack[i].name \in DOMAIN Program
          /\ stack[i].at \in DOMAIN Program[stack[i].name] \cup Answer
          /\ stack[i].it \in Window /\ stack[i].left \in 0..Attempts
    /\ result \in {"none", "no", "ok", "yes"}
    /\ selected \in {"none", "primary", "secondary"} /\ haveText \in BOOLEAN
    /\ front \in Place /\ clipboard \in {"text", "other"}
    /\ copies \in [Place -> 0..Many] /\ enters \in [Place -> 0..Many]
    /\ confirmed \subseteq Place /\ doubted \subseteq Place /\ pastedOther \in BOOLEAN

\* This property and the four that follow are claimed for Strays = FALSE: an element that
\* is found by name is in the window it is looked for in.
\* However the chain goes, text and Enter reach no window but the one the task is for,
\* and the editor a staged chain passes the text through: what is pasted or submitted
\* goes to the window in front, which every recovery may change.
OnlyTargetsWritten ==
    \A w \in Place : copies[w] + enters[w] > 0 => w \in Destinations

\* Strays = FALSE: a staged chain puts nothing into its target before an observation has
\* confirmed the text in the editor (editor.stage_and_deliver), and a chain that delivers
\* a file puts nothing anywhere before the file has been read.
StagesInOrder ==
    /\ input.chain \in Staged /\ Target # "editor" /\ copies[Target] > 0
         => "editor" \in confirmed
    /\ input.chain \in FromFile /\ (\E w \in Place : copies[w] > 0) => haveText

\* Strays = FALSE: a chain that reports success has put the text into its windows, unless
\* somebody else changed the clipboard before the paste, and has observed every one of
\* them after the last insertion.
SuccessWasSeen ==
    result = "yes" /\ input.chain \in Delivering /\ input.text =>
        \A w \in Destinations : w \in confirmed /\ (copies[w] > 0 \/ pastedOther)

\* Strays = FALSE: text is put into a window a second time, or Enter pressed there again,
\* only when a typing had failed or an observation had not confirmed it: no recovery
\* repeats a delivery that was known to be there.
RepeatsOnlyInDoubt ==
    \A w \in Place :
        copies[w] > 1 \/ (enters[w] > 1 /\ w # "browser") => w \in doubted

\* Strays = FALSE: Enter is pressed in no window unless the task asks for it, except in a
\* browser, and in a chat by the capabilities that submit (shouldSubmitWithEnter).
EnterOnlyWhenAsked ==
    \A w \in Place : enters[w] > 0 =>
        \/ input.enter \/ w = "browser"
        \/ w = "chat" /\ input.chain \in Submitting

\* A staged delivery into a chat window lists "submitAction=enter" in its evidence: when
\* it reports success, Enter has been pressed there.
SubmitActionTaken ==
    result = "yes" /\ input.chain \in Staged /\ Target = "chat" => enters["chat"] > 0
=============================================================================
