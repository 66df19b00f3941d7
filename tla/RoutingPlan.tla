---------------------------- MODULE RoutingPlan ----------------------------
(***************************************************************************)
(* buildCapabilityRoutingPlan of CapabilityRouting.ts over the catalogue,   *)
(* the two searches that reveal what the catalogue hides, and what the demo *)
(* client of ModelClient.ts reads off a plan before it chooses.             *)
(*                                                                          *)
(* A task is the words it is made of, whether a text mentions all of it at  *)
(* once, the intents its keywords show, and whether it says open or focus.  *)
(* Definitions named Broken... are faulty variants for mutation testing.    *)
(***************************************************************************)
EXTENDS Catalogue, Selection, FiniteSets, FiniteSetsExt, SequencesExt

CONSTANTS Tasks, Queries

Intent == {"desktop_observe", "workspace_tree", "workspace_search", "workspace_read"}

ASSUME PlanAssumption ==
    \A task \in Tasks : /\ task.intents \subseteq Intent
                        /\ task.opens \in BOOLEAN
                        /\ task.whole \in STRING /\ task.words \subseteq STRING

----------------------------------------------------------------------------
\* Scores.
Count(texts, word) == IF word \in DOMAIN texts THEN texts[word] ELSE 0

\* A word of four letters or more weighs more; the Chinese words are of two.
Weight(word) == IF word \in {"qingli", "jieguo"} THEN 2 ELSE 3

\* scoreFields.
FieldScore(task, texts) ==
    8 * Count(texts, task.whole)
      + MapThenSumSet(LAMBDA word : Weight(word) * Count(texts, word), task.words)

IntentBoost(task, name) ==
    LET shows(intent) == intent \in task.intents
    IN CASE shows("desktop_observe") /\ name = "skill.desktop.observe" -> 14
         [] name \in {"command.workspace.inspect_tree", "command.workspace.search_text",
                      "command.workspace.read_text"} ->
              (IF shows("desktop_observe") THEN -6 ELSE 0)
                + (IF \/ shows("workspace_tree") /\ name = "command.workspace.inspect_tree"
                      \/ shows("workspace_search") /\ name = "command.workspace.search_text"
                      \/ shows("workspace_read") /\ name = "command.workspace.read_text"
                   THEN 12 ELSE 0)
         [] OTHER -> 0

CapabilityScore(task, name) ==
    LET item == Record[name]
    IN  FieldScore(task, item.texts) + FieldScore(task, item.examples)
          + (IF item.route \in {"cli", "api", "backend"} THEN 3 ELSE 0)
          + (CASE item.risk = "low" -> 2 [] item.risk = "high" -> -2 [] OTHER -> 0)
          + IntentBoost(task, name)

\* Capabilities that are visible as tools before they are revealed, with the texts that
\* createCapabilityTool gives them.
AlwaysAvailable ==
    {"command.app.open_or_focus", "command.desktop.capture_and_locate",
     "command.browser.inspect_dom"}

ToolTexts(name) ==
    CASE name = "command.app.open_or_focus" -> [open |-> 3]
      [] name = "command.browser.inspect_dom" -> [browser |-> 5]
      [] name = "command.desktop.capture_and_locate" -> None
      [] OTHER -> Record[name].texts

\* The names are strings, so what the code asks of them is listed.
DesktopTools == {r.name : r \in {WindowsScreenshot, WindowsSnapshot, WindowsFocusWindow,
    WindowsClick, WindowsType, WindowsShortcut, WindowsWait, WindowsClipboard}
      \cup Listed(Discoverable)} \ {"workspace.write_text", "workspace.replace_text"}
NamedSearch == {"tools.search"}
NamedRead == {"workspace.read_text", "artifacts.read_result"}

ToolBoost(task, name) ==
    (CASE "desktop_observe" \notin task.intents \/ name \notin DesktopTools -> 0
       [] name = "windows.snapshot" -> 10
       [] name = "windows.screenshot" -> 8
       [] OTHER -> -3)
    + (IF "workspace_search" \in task.intents /\ name \in NamedSearch THEN 6 ELSE 0)
    + (IF "workspace_read" \in task.intents /\ name \in NamedRead THEN 6 ELSE 0)

ToolScore(task, name) ==
    LET risk == Record[name].risk
    IN  FieldScore(task, ToolTexts(name))
          + (CASE risk = "low" -> 2 [] risk = "high" -> -4 [] OTHER -> 0)
          + (CASE name = "windows.snapshot" -> 1
               [] name \in {"windows.click", "windows.type"} -> -3
               [] OTHER -> 0)
          + ToolBoost(task, name)

----------------------------------------------------------------------------
\* The elements of a set in a strict total order.
InOrder(S, Before(_, _)) ==
    LET place == [e \in S |-> Cardinality({d \in S : d = e \/ Before(d, e)})]
    IN [i \in 1..Cardinality(S) |-> CHOOSE e \in S : place[e] = i]

\* Plans.  The best come first, and names in their order break ties.
Sorted(score) ==
    LET before(m, n) == \/ score[m] > score[n]
                        \/ score[m] = score[n] /\ Rank[m] < Rank[n]
    IN InOrder({n \in DOMAIN score : score[n] > 0}, before)

CapabilityScores ==
    [task \in Tasks |-> [n \in CapabilityNames |-> CapabilityScore(task, n)]]
CapabilitiesByScore == [task \in Tasks |-> Sorted(CapabilityScores[task])]
ToolsByScore ==
    [task \in Tasks |-> Sorted([n \in ToolNames \cup AlwaysAvailable |-> ToolScore(task, n)])]

First(s, k) == SubSeq(s, 1, Min({k, Len(s)}))

\* The first k of what an order has in S: a choice from one, so that TLC evaluates the
\* order and S once.
Best(order, S, k) ==
    CHOOSE best \in {First(Only(o, visible), k) : o \in {order}, visible \in {S}} : TRUE

Recommended(task, capabilities) == Best(CapabilitiesByScore[task], capabilities, 4)

Fallback(task, capabilities, tools) ==
    Best(ToolsByScore[task], tools \ (capabilities \cup {"capabilities.search"}), 6)

----------------------------------------------------------------------------
\* Searches for one word: capabilities.search, five matches, and tools.search, eight of
\* the tools that are not "core"; the second sorts ties as the tools are registered.
\* Bound: the call may also give a limit, up to twenty, an empty query and includeCore;
\* here both searches have a word and their default limits.
CapabilityMatches ==
    [word \in Queries |->
        Listed(First(Sorted([n \in CapabilityNames |-> 8 * Count(Record[n].texts, word)]), 5))]

ToolMatches ==
    LET hits(word, t) == Count(t.texts, word)
        place(t) == CHOOSE i \in DOMAIN Discoverable : Discoverable[i] = t
        before(word, s, t) == \/ hits(word, s) > hits(word, t)
                              \/ hits(word, s) = hits(word, t) /\ place(s) < place(t)
        found(word) == InOrder({t \in Listed(Discoverable) : hits(word, t) > 0},
                                    LAMBDA s, t : before(word, s, t))
    IN [word \in Queries |-> Names(Listed(First(found(word), 8)))]

----------------------------------------------------------------------------
\* The demo client.  inferToolInput and inferRecoveryInput: the inputs it fills in.
InferredInput(name) ==
    CASE name = "command.workspace.search_text" -> {"query"}
      [] name = "command.workspace.read_text" -> {"path"}
      [] name \in {"skill.browser_to_editor.capture_verify", "command.app.open_or_focus",
                   "skill.cross_app.open_observe_act_verify"} -> {"appName"}
      [] name = "skill.browser.extract_then_transfer" -> {"targetWindowTitle"}
      [] name = "command.desktop.capture_and_locate" -> {"query"}
      [] OTHER -> {}

\* canPrepareToolCall.
Preparable(tools) == {n \in tools : Record[n].required \subseteq InferredInput(n)}

\* A task that says open or focus goes to this capability once it is in the catalogue.
Opener == "skill.cross_app.open_observe_act_verify"
OpensWith(task, tools) == task.opens /\ Opener \in tools

\* selectInitialFallbackTool looks for the opener first.
FallbackOrder(task, fallback, tools) ==
    IF OpensWith(task, tools) THEN Only(fallback, {Opener}) \o fallback ELSE fallback

\* shouldSkipRecommendedCapability.
NotSkipped(task, recommended, tools) ==
    IF OpensWith(task, tools)
    THEN Only(recommended, ToSet(recommended) \ {"skill.desktop.observe"}) ELSE recommended

\* shouldPreferFallbackToolFirst, for the fallback tool that comes first.  A score in the
\* plan is positive, so that the last of its rules never applies.
FallbackFirst(task, recommended, fallback, tools) ==
    \/ recommended = <<>>
    \/ fallback = "command.workspace.search_text"
    \/ /\ recommended[1] = "skill.desktop.observe"
       /\ fallback \in CapabilityNames
       /\ ~(fallback = "command.app.open_or_focus" /\ OpensWith(task, tools))

\* backupCapability: scores near the best of the plan.
Near(task, recommended) ==
    LET score(n) == CapabilityScores[task][n]
    IN {n \in Listed(recommended) : score(n) >= Max({1, score(recommended[1]) - 8})}
=============================================================================
