---------------------------- MODULE Observation ----------------------------
(***************************************************************************)
(* What WindowsMcpAdapter.ts makes of a reply of the desktop server to a    *)
(* Snapshot or a Screenshot, and what skill.desktop.observe makes of that:  *)
(* a snapshot with anchors and a confidence, a verdict on it, and the       *)
(* target and the recovery point that the engine remembers.                 *)
(*                                                                          *)
(* A reply is a text with sections, an object that is a snapshot already,   *)
(* or anything else, which may have names in it; NoReply if none comes.     *)
(* Names are those of windows and of controls in them, NoName if there is   *)
(* none.  A place is where a control can be clicked, 0 if nowhere.          *)
(* The bounds on the length of lists (128 controls, 24 texts of the tree)   *)
(* are far above those of the replies here.                                 *)
(* Definitions named Broken... are faulty variants for mutation testing.    *)
(***************************************************************************)
EXTENDS Selection, Integers, SequencesExt

\* Of windows, pages and controls.
NoName == ""
Name == {NoName} \cup STRING

Control == [label : Nat, window : Name, type : Name, name : Name, place : Nat]

\* The elements of a sequence, each where it first occurs.
Firsts(s) ==
    LET positions == [i \in DOMAIN s |-> i]
        new == Only(positions, {i \in DOMAIN s : \A j \in 1..(i - 1) : s[j] # s[i]})
    IN [k \in DOMAIN new |-> s[new[k]]]

\* dedupeStrings: the names that are names.
DedupeStrings(names) == Firsts(Only(names, ToSet(names) \ {NoName}))

HeadOr(names, none) == IF names = <<>> THEN none ELSE Head(names)
NameOf(control) == control.name

----------------------------------------------------------------------------
(* parseTextSnapshotPayload.  A text has the first column of the lines of   *)
(* each section, headings and rules left out; of the controls it lists and  *)
(* those it draws in its tree, the ones that have a name.                   *)
Heading == {"name", "no windows found"}

\* extractSectionFirstValue; a column of digits is no window.
FocusedWindow(text) ==
    LET first == HeadOr(text.focus, NoName) IN IF first \in text.numbers THEN NoName ELSE first

OpenedWindows(text) ==
    DedupeStrings(Only(text.opened, ToSet(text.opened) \ Heading))

\* parseInteractiveElementLine: without a name no control; a place from its coordinates.
ListedControls(text) ==
    Only(text.controls, {control \in ToSet(text.controls) : control.name # NoName})

\* parseUiTreeInteractiveElementLine: only what has a place, a type and a name.
DrawnControls(text) ==
    LET drawn == Only(text.tree, {control \in ToSet(text.tree) :
                                     control.place > 0 /\ control.type # NoName /\ control.name # NoName})
    IN [i \in DOMAIN drawn |-> [drawn[i] EXCEPT !.label = 0, !.window = NoName]]

\* extractUiTreeAnchors: every quoted text of the tree.
DrawnNames(text) == DedupeStrings([i \in DOMAIN text.tree |-> NameOf(text.tree[i])])

\* mergeInteractiveElements.
Merged(controls) == Firsts(controls)

\* A snapshot of a browser page may bring its DOM: its title, URL, selection and active
\* element; the selection alone is no description of it.
NoPage == [texts |-> <<>>, described |-> FALSE]

TextSnapshot(text) ==
    LET controls == Merged(ListedControls(text) \o DrawnControls(text))
    IN [windows |-> OpenedWindows(text), focused |-> FocusedWindow(text),
        controls |-> controls,
        anchors |-> <<FocusedWindow(text)>> \o OpenedWindows(text)
                      \o [i \in DOMAIN controls |-> NameOf(controls[i])] \o DrawnNames(text),
        titles |-> <<>>, details |-> <<>>, page |-> NoPage, recovery |-> "none"]

Nothing ==
    [windows |-> <<>>, focused |-> NoName, controls |-> <<>>, anchors |-> <<>>,
     titles |-> <<>>, details |-> <<>>, page |-> NoPage, recovery |-> "none"]

\* A snapshot object as DesktopSnapshot declares it, with windows that have names.  Its
\* title and application name a window; its URL, its active element and what its raw
\* data have are details.  It may bring a recovery point of its own.
RecoveryKind == {"focus", "dom", "observe"}
Snapshot ==
    [windows : Seq(Name \ {NoName}), focused : Name, controls : Seq(Control),
     anchors : Seq(Name), titles : Seq(Name), details : Seq(Name),
     page : [texts : Seq(Name), described : BOOLEAN], recovery : RecoveryKind \cup {"none"}]

NoReply == [form |-> "none"]

\* What the server may reply.
ReplyTyped(reply) ==
    CASE reply.form = "text" -> /\ reply.text.focus \in Seq(Name)
                                /\ reply.text.opened \in Seq(Name)
                                /\ reply.text.controls \in Seq(Control)
                                /\ reply.text.tree \in Seq(Control)
      [] reply.form = "snapshot" -> reply.snapshot \in Snapshot
      [] reply.form = "other" -> reply.names \in Seq(Name)
      [] OTHER -> FALSE

\* normalizeSnapshot, before enrichSnapshot.
Parsed(reply) ==
    CASE reply.form = "text" -> TextSnapshot(reply.text)
      [] reply.form = "snapshot" -> reply.snapshot
      [] reply.form = "other" -> [Nothing EXCEPT !.details = reply.names]
      [] OTHER -> Nothing

----------------------------------------------------------------------------
\* enrichSnapshot.
Anchors(s) ==
    DedupeStrings(s.anchors \o s.windows \o <<s.focused>> \o s.titles \o s.details
                    \o s.page.texts)

WindowAnchor(s) ==
    HeadOr(DedupeStrings(<<s.focused, HeadOr(s.windows, NoName)>> \o s.titles \o Anchors(s)), NoName)

DomAnchor(s) == HeadOr(s.page.texts, NoName)

\* resolveFocusedTargetConfidence in thousandths, of which a fifth counts.
FocusShare(s) ==
    IF WindowAnchor(s) = NoName /\ DomAnchor(s) = NoName THEN IF Anchors(s) # <<>> THEN 50 ELSE 24
    ELSE IF s.focused # NoName /\ s.focused \in ToSet(s.windows) THEN 184
    ELSE IF WindowAnchor(s) # NoName THEN 156 ELSE 128

If(condition, weight) == IF condition THEN weight ELSE 0

\* Mutant: a snapshot without a window is as good as one of a page.
BrokenConfidence(s, mode) ==
    100 + If(WindowAnchor(s) # NoName, 280) + If(DomAnchor(s) # NoName, 220)
        + If(s.windows # <<>>, 140) + If(Anchors(s) # <<>>, 80) + If(s.page.described, 120)
        + If(s.focused # NoName, FocusShare(s)) + 60

\* resolveObservationConfidence in thousandths, between 50 and 980; the code rounds to
\* hundredths.
Confidence(s, mode) ==
    LET none == WindowAnchor(s) = NoName /\ DomAnchor(s) = NoName
        sum == 100 + If(WindowAnchor(s) # NoName, 280) + If(DomAnchor(s) # NoName, 220)
                 + If(s.windows # <<>>, 140) + If(Anchors(s) # <<>>, 80)
                 + If(s.page.described, 120) + If(s.focused # NoName, FocusShare(s))
                 + If(mode = "dom", 60) - If(none, 120)
        rounded == 10 * ((sum + 5) \div 10)
    IN IF rounded < 50 THEN 50 ELSE IF rounded > 980 THEN 980 ELSE rounded

\* resolveObservationRecoveryPoint: what kind of point it is.
RecoveryPoint(s) ==
    CASE s.recovery # "none" -> s.recovery
      [] s.recovery = "none" /\ WindowAnchor(s) # NoName -> "focus"
      [] s.recovery = "none" /\ WindowAnchor(s) = NoName /\ DomAnchor(s) # NoName -> "dom"
      [] OTHER -> "observe"

\* resolveDesktopObservationAnchor, readObservationAnchor.
ObservationAnchor(s) ==
    HeadOr(DedupeStrings(<<WindowAnchor(s), DomAnchor(s)>> \o Anchors(s)), NoName)

\* isDesktopObservationReliable: what the tools go by.
Reliable(s, mode) ==
    /\ Confidence(s, mode) >= 500
    /\ ObservationAnchor(s) # NoName
    /\ Anchors(s) # <<>> \/ s.windows # <<>>

----------------------------------------------------------------------------
(* skill.desktop.observe.  The tools report an unreliable observation as a  *)
(* failure, so that a snapshot is judged again only if it is reliable; a    *)
(* screenshot is taken when it is not.                                      *)

\* buildObservationChainState.
TargetOf(s) == HeadOr(DedupeStrings(<<s.focused, WindowAnchor(s), HeadOr(s.windows, NoName)>>), NoName)

\* The windows and pages that a snapshot shows, by their own names.
Shown(s) == ToSet(s.windows \o <<s.focused>> \o s.titles \o s.page.texts)
=============================================================================
