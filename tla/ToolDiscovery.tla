--------------------------- MODULE ToolDiscovery ---------------------------
(***************************************************************************)
(* The rounds of tasks over the real catalogue: which tools the engine      *)
(* shows the model, what the searches of QueryEngine.ts reveal, the plan    *)
(* that comes of it, what either model client calls, and what the engine    *)
(* remembers of an observation.  Module TaskRounds has the same rounds for  *)
(* any plans, with compaction, requests and the facts file.                 *)
(*                                                                          *)
(* The other client makes what AnswerReading says of the Bodies that the    *)
(* gateway may reply with, whatever the question is.                        *)
(* Definitions named Broken... are faulty variants for mutation testing.    *)
(***************************************************************************)
EXTENDS RoutingPlan, Observation, AnswerReading

CONSTANTS
    Bodies,         \* what the gateway of the other client may reply
    Replies,        \* what the desktop server may reply to a Snapshot or Screenshot
    Result,         \* the results that the other calls may have
    MaxTurns, MaxTasks      \* bounds

\* The calls that an answer in JSON text lists are in an array.
ASSUME BodyAssumption ==
    \A body \in Bodies :
        LET answer == AnswerOf(body)
        IN answer.type = "content" => answer.calls \in Seq(ToSet(answer.calls))

ASSUME ReplyAssumption == \A reply \in Replies : ReplyTyped(reply)

NoTool == "no tool"

FocusFirst ==
    <<"command.app.open_or_focus", "command.desktop.capture_and_locate",
      "command.browser.inspect_dom", "skill.desktop.observe", "windows.snapshot",
      "windows.screenshot">>
ObserveFirst ==
    <<"command.desktop.capture_and_locate", "command.browser.inspect_dom",
      "command.app.open_or_focus", "skill.desktop.observe", "windows.snapshot",
      "windows.screenshot">>

\* isGuiActionTool.
GuiAction ==
    {"windows.click", "windows.type", "windows.shortcut", "windows.move_or_drag",
     "skill.cross_app.transfer_text", "skill.cross_app.open_observe_act_verify"}

\* inferToolRetryPolicy, for the tools that run no capability.
Acts == {n \in ToolNames : Record[n].risk = "high"}
          \cup {"windows.focus_window", "windows.shortcut", "windows.scroll"}
Reads == {n \in ToolNames : Record[n].risk = "low"}
           \cup {"artifacts.gc_results", "artifacts.read_result"}

\* The capabilities whose tool is named "command. ...".
Commands ==
    {"command.workspace.inspect_tree", "command.workspace.search_text",
     "command.workspace.read_text", "command.app.open_or_focus",
     "command.desktop.capture_and_locate", "command.clipboard.read_write",
     "command.browser.inspect_dom"}

D == INSTANCE DemoClient WITH
        Tool <- DOMAIN Record, Capability <- CapabilityNames,
        Declared <- [n \in CapabilityNames |-> Record[n].retry],
        Registered <- ToolNames, Command <- Commands

VARIABLES
    client,         \* "demo" or "openai-compatible"
    at,             \* "idle", "ask" or "call"
    task,           \* the task it is about
    tasks, step,    \* tasks submitted, rounds of this one
    discovered,     \* discoveredTools
    revealed,       \* revealedCapabilities
    searched,       \* the searches of this task: the tool and the word
    attempts,       \* attemptHistory
    point,          \* routing.last_recovery_point
    calls,          \* the calls of the answer that have not run
    target, shown   \* the last task.current_target of an observation, and what it showed

vars == <<client, at, task, tasks, step, discovered, revealed, searched, attempts, point,
          calls, target, shown>>

\* ALWAYS_VISIBLE_CAPABILITY_TOOL_NAMES.
AlwaysVisible == {"skill.desktop.observe"}

Init ==
    /\ client \in {"demo", "openai-compatible"}
    /\ at = "idle" /\ task \in Tasks /\ tasks = 0 /\ step = 0
    /\ discovered = {} /\ revealed = AlwaysVisible /\ searched = {}
    /\ attempts = <<>> /\ point = "none" /\ calls = <<>> /\ target = NoName /\ shown = {}

----------------------------------------------------------------------------
\* Mutant: what earlier tasks have revealed stays.
BrokenSubmit ==
    /\ at = "idle" /\ tasks < MaxTasks
    /\ at' = "ask" /\ task' \in Tasks /\ tasks' = tasks + 1 /\ step' = 0
    /\ searched' = {} /\ attempts' = <<>> /\ point' = "none"
    /\ UNCHANGED <<client, discovered, revealed, calls, target, shown>>

\* submitUserMessage: everything but the target is forgotten.
Submit ==
    /\ at = "idle" /\ tasks < MaxTasks
    /\ at' = "ask" /\ task' \in Tasks /\ tasks' = tasks + 1 /\ step' = 0
    /\ discovered' = {} /\ revealed' = AlwaysVisible
    /\ searched' = {} /\ attempts' = <<>> /\ point' = "none"
    /\ UNCHANGED <<client, calls, target, shown>>

ReachMaxTurns ==
    /\ at = "ask" /\ step = MaxTurns
    /\ at' = "idle"
    /\ UNCHANGED <<client, task, tasks, step, discovered, revealed, searched, attempts, point,
                   calls, target, shown>>

\* getVisibleTools.
VisibleTools ==
    AlwaysAvailable \cup revealed \cup discovered
      \cup {n \in ToolNames : Record[n].availability = "core"}

\* The plan of the round, and how the demo client goes through it: what it skips and
\* prefers matters to its first answer only.
RecommendedNow == Recommended(task, revealed)
FallbackNow    == Fallback(task, revealed, VisibleTools)

PlanOfRound ==
    LET exhausted == D!ExhaustedTools(attempts)
        ready     == Preparable(VisibleTools)
        usable(n) == n \notin exhausted /\ n \in ready
        ordered   == FallbackOrder(task, FallbackNow, VisibleTools)
    IN [recommended     |-> IF step = 0 THEN NotSkipped(task, RecommendedNow, VisibleTools)
                            ELSE RecommendedNow,
        fallback        |-> IF step = 0 THEN ordered ELSE FallbackNow,
        near            |-> Near(task, RecommendedNow),
        catalogue       |-> VisibleTools,
        preparable      |-> ready,
        prefersFallback |-> FallbackFirst(task, RecommendedNow, D!Find(ordered, usable),
                                          VisibleTools)]

\* What the engine's last message is before the first round, and after it.
LastRole == IF step = 0 THEN "system" ELSE "tool"

\* What the answers of the gateway say, whatever the tools of the context are.
Said == {AnswerOf(body) : body \in Bodies}

Prepared(name) ==
    IF name = NoTool THEN Final
    ELSE ToolCalls("tool_calls",
            <<[name |-> name,
               fields |-> {[token |-> "field", name |-> k, fits |-> TRUE]
                           : k \in InferredInput(name)}]>>)

Answers ==
    IF client = "demo" THEN {Prepared(D!DemoAnswer(LastRole, PlanOfRound, attempts, point))}
    ELSE {InContext(said, VisibleTools) : said \in Said}

\* A final answer and an error end the task; an answer without any calls is a round.
Answer ==
    /\ at = "ask" /\ step < MaxTurns
    /\ \E answer \in Answers :
          /\ calls' = answer.calls
          /\ at' = IF answer.type \in {"final", "error"} THEN "idle"
                   ELSE IF answer.calls = <<>> THEN "ask" ELSE "call"
          /\ step' = IF at' = "ask" THEN step + 1 ELSE step
    /\ UNCHANGED <<client, task, tasks, discovered, revealed, searched, attempts, point,
                   target, shown>>

----------------------------------------------------------------------------
\* The call whose turn it is.
call == IF calls = <<>> THEN NoTool ELSE Head(calls).name

\* recordRoutingAttempt; after the last call the round ends.  A result without a recovery
\* point leaves the one there is.
Remember(result, recovery) ==
    /\ attempts' = D!Recorded(attempts, call, result)
    /\ point' = IF recovery = "none" THEN point ELSE recovery
    /\ calls' = Tail(calls)
    /\ IF Tail(calls) = <<>> THEN at' = "ask" /\ step' = step + 1
       ELSE UNCHANGED <<at, step>>
    /\ UNCHANGED <<client, task, tasks>>

Done(verified) == [ok |-> TRUE, verified |-> verified, error |-> "none", class |-> "none"]

Insufficient(verified) ==
    [ok |-> FALSE, verified |-> verified, error |-> "other", class |-> "deterministic"]

Unreachable == [ok |-> FALSE, verified |-> "unknown", error |-> "timeout", class |-> "transient"]

\* captureDiscoveredTools.
RunSearch ==
    /\ at = "call" /\ call \in {"capabilities.search", "tools.search"}
    /\ \E word \in Queries :
          /\ searched' = searched \cup {<<call, word>>}
          /\ IF call = "capabilities.search"
             THEN /\ revealed' = revealed \cup CapabilityMatches[word]
                  /\ UNCHANGED discovered
             ELSE /\ discovered' = discovered \cup ToolMatches[word]
                  /\ UNCHANGED revealed
    /\ Remember(Done("unknown"), "none")
    /\ UNCHANGED <<target, shown>>

\* A page is looked at only when the call asks for it.
Taken(mode) == {r \in Replies : mode = "dom" \/ Parsed(r).page = NoPage}

\* windows.snapshot and windows.screenshot: a call, or a reply that is judged.  A large
\* result is stored, and what it says of a recovery point with it.
RunLook ==
    /\ at = "call" /\ call \in {"windows.snapshot", "windows.screenshot"}
    /\ \/ Remember(Unreachable, "none")
       \/ \E mode \in IF call = "windows.screenshot" THEN {"screenshot"}
                       ELSE {"snapshot", "dom"} : \E reply \in Taken(mode) :
             \E recovery \in {RecoveryPoint(Parsed(reply)), "none"} :
                 Remember(IF Reliable(Parsed(reply), mode) THEN Done("unknown")
                          ELSE Insufficient("unknown"), recovery)
    /\ UNCHANGED <<discovered, revealed, searched, target, shown>>

\* What a snapshot or a screenshot that cannot be relied on, or fails, comes to.
Failing(reply) == IF reply = NoReply THEN Unreachable ELSE Insufficient("unknown")

\* The end of skill.desktop.observe with what it has seen.  A large snapshot is read back
\* from where it is stored; when that fails, the whole skill does.
Report(result, seen) ==
    \/ /\ Remember(result, "none")
       /\ target' = TargetOf(seen) /\ shown' = Shown(seen)
    \/ /\ Remember(Insufficient("failed"), "none")
       /\ UNCHANGED <<target, shown>>

\* skill.desktop.observe: the snapshot if it can be relied on, or else the screenshot,
\* which brings along the error of the snapshot.
RunObserve ==
    /\ at = "call" /\ call = "skill.desktop.observe"
    /\ \E snapshot \in Taken("snapshot") \cup {NoReply} :
          IF Reliable(Parsed(snapshot), "snapshot")
          THEN Report(Done("passed"), Parsed(snapshot))
          ELSE \E screenshot \in Taken("screenshot") \cup {NoReply} :
                  IF Reliable(Parsed(screenshot), "screenshot")
                  THEN Report([Failing(snapshot) EXCEPT !.ok = TRUE, !.verified = "passed"],
                              Parsed(screenshot))
                  ELSE /\ Remember([Failing(screenshot) EXCEPT !.verified = "failed"], "none")
                       /\ UNCHANGED <<target, shown>>
    /\ UNCHANGED <<discovered, revealed, searched>>

RunOther ==
    /\ at = "call"
    /\ call \notin {"capabilities.search", "tools.search", "windows.snapshot",
                    "windows.screenshot", "skill.desktop.observe"}
    /\ \E r \in Result : Remember(r.result, r.point)
    /\ UNCHANGED <<discovered, revealed, searched, target, shown>>

Next == Submit \/ ReachMaxTurns \/ Answer \/ RunSearch \/ RunLook \/ RunObserve \/ RunOther

Spec == Init /\ [][Next]_vars

----------------------------------------------------------------------------
\* What the searches of the task have found, and what needs no search.
FoundBySearch ==
    UNION {IF s[1] = "capabilities.search" THEN CapabilityMatches[s[2]] ELSE ToolMatches[s[2]]
           : s \in searched}
NeedsNoSearch ==
    AlwaysVisible \cup AlwaysAvailable
      \cup {n \in ToolNames : Record[n].availability = "core"}

\* The demo client can fill the inputs neither of a search nor, of what needs no search,
\* of a tool of high risk.
ASSUME HarmlessAssumption ==
    \A n \in Preparable(NeedsNoSearch) :
        /\ n \notin {"capabilities.search", "tools.search"}
        /\ Record[n].risk # "high"

\* Whatever the plan offers the model, the model may call, and neither the plan nor a
\* call names a tool that only an earlier task has searched for: submitUserMessage
\* forgets every discovery, the plan of a round ranks what is visible in it, and a call of
\* anything else is an error, however the gateway brings it.
OfferedRevealed ==
    at \in {"ask", "call"} =>
        LET called  == {c.name : c \in ToSet(calls)}
            offered == ToSet(RecommendedNow \o FallbackNow) \cup called
        IN offered \subseteq VisibleTools \cap (NeedsNoSearch \cup FoundBySearch)

\* Every call that is run has the inputs its tool requires: those of a streamed answer
\* are pieced together from its deltas, and the demo client fills in its own, whichever
\* of its rules has chosen the tool.  What it chooses is never of high risk, although its
\* plans rank such tools too.
CallsPrepared ==
    \A i \in DOMAIN calls :
        LET tool == Record[calls[i].name]
        IN /\ tool.required \subseteq {f.name : f \in calls[i].fields}
           /\ client = "demo" => tool.risk # "high"

\* The target that skill.desktop.observe leaves is a window or a page that its observation
\* showed, never the label of a control: those name the target only when nothing else
\* does, and then the observation is not to be relied on.  The targets that other
\* capabilities leave are not told.
VerifiedNamesWindow == target # NoName => target \in shown
=============================================================================
