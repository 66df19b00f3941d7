---------------------------- MODULE TaskDecision ----------------------------
(***************************************************************************)
(* What the web panel makes of a task or a template before anything runs:   *)
(* which of the five templates the text of a task fits and what the card    *)
(* then offers (apps/web-panel/taskDecisionFlow.ts), and how ready a        *)
(* template is (templateRecommendations.ts).                                *)
(*                                                                          *)
(* A text is the set of the words of the rules that it mentions, in English *)
(* here; one that mentions "chat_window" mentions "chat" and "window" too.  *)
(***************************************************************************)
EXTENDS Integers, FiniteSets

Browser == {"browser", "webpage", "page"}
Sent    == {"send", "send_to"}

\* includesAny, for each of the groups.
Mentions(text, groups) == \A group \in groups : text \cap group # {}

Rule(template, fits, strong, suggestion) ==
    [template |-> template, fits |-> fits, strong |-> strong, suggestion |-> suggestion]

\* TASK_RULES: what a text has to mention to fit, and to fit well, and the text that is
\* suggested in its place when it does not fit well.
ChatReply ==
    Rule("browser-editor-chat-reply-template",
         {Browser, {"chat", "wechat", "reply", "dialogue"}, Sent \cup {"reply", "tidy"}},
         {{"codex", "wechat", "chat_window"}, Sent \cup {"tidy", "reply"}},
         {"browser", "page", "tidy", "reply", "send", "local", "codex", "chat_window", "chat",
          "window"})
DesktopDeliver ==
    Rule("browser-doc-desktop-deliver-template",
         {Browser, {"document", "article", "content"}, {"desktop", "window", "codex"},
          Sent \cup {"deliver", "submit"}},
         {{"document", "article"}, {"desktop", "codex", "window"}, Sent \cup {"deliver"}},
         {"browser", "document", "content", "extract", "deliver", "local", "codex", "desktop",
          "window"})
FormSubmit ==
    Rule("file-browser-form-submit-template",
         {{"file", "local", "workspace"}, {"browser", "webpage", "form"},
          {"submit", "upload", "fill", "send_to"}},
         {{"file", "workspace"}, {"form", "webpage"}, {"submit", "upload"}},
         {"workspace", "file", "content", "browser", "form", "submit"})
CompareDeliver ==
    Rule("multi-window-compare-summarize-deliver-template",
         {{"several_windows", "multi_window", "two_windows", "compare", "contrast"},
          {"summary", "digest", "difference"}, Sent \cup {"deliver", "reply"}},
         {{"two_windows", "multi_window", "compare"}, {"summary", "digest", "difference"},
          Sent \cup {"codex", "chat", "wechat"}},
         {"compare", "window", "content", "summary", "difference", "send", "local", "codex",
          "chat_window", "chat"})
TransformPost ==
    Rule("browser-extract-transform-post-template",
         {Browser, {"extract", "grab", "tidy", "convert", "rewrite"},
          Sent \cup {"publish", "submit"}},
         {{"extract", "grab"}, {"tidy", "convert", "rewrite"},
          {"codex", "chat", "wechat", "publish", "send"}},
         {"extract", "browser", "page", "tidy", "convert", "send", "local", "codex",
          "chat_window", "chat", "window"})

Rules == {ChatReply, DesktopDeliver, FormSubmit, CompareDeliver, TransformPost}

\* A suggestion fits the rule it stands for, and fits it well.
ASSUME RulesAssumption ==
    \A rule \in Rules : Mentions(rule.suggestion, rule.fits \cup rule.strong)

----------------------------------------------------------------------------
\* buildDirectExecuteDecision and the three others: all of them can be dismissed, and the
\* first two be executed, as the task or as the suggestion.
DirectExecute      == [kind |-> "direct_execute", executes |-> TRUE]
GuidedRewrite      == [kind |-> "guided_rewrite", executes |-> TRUE]
EnvironmentUnready == [kind |-> "environment_unready", executes |-> FALSE]
ExplicitReject     == [kind |-> "explicit_reject", executes |-> FALSE]

\* annotateTemplateReadiness, for the status of the desktop service that healthcheck gives:
\* a scorecard that is missing hides a service that is.  The number of windows and the
\* confidence, which it reads too, are in no status that mapServiceStatus makes.
Signals == [readOnly : BOOLEAN, scorecard : BOOLEAN,
            service : {"ready", "degraded", "disconnected"}]

Readiness(signals) ==
    IF signals.readOnly THEN "blocked"
    ELSE IF ~signals.scorecard \/ signals.service = "degraded" THEN "attention"
    ELSE IF signals.service = "disconnected" THEN "blocked"
    ELSE "ready"

\* The prerequisites that SupportMatrix.ts lists for a template.
Prerequisites(template) == IF template = ChatReply.template THEN 3 ELSE 2

\* buildTemplatePreflight: the checks of a template, of which the user has to see a warning.
Check(passes) == IF passes THEN "pass" ELSE "warn"

Preflight(template, signals, healthy) ==
    LET readiness == Readiness(signals)
        checks == {IF readiness = "blocked" THEN "fail" ELSE Check(readiness = "ready"),
                   Check(healthy), Check(Prerequisites(template) = 0),
                   Check(template # DesktopDeliver.template)}
    IN IF "fail" \in checks THEN "blocked"
       ELSE IF "warn" \in checks THEN "needs_attention"
       ELSE "ready"

Preflights ==
    {Preflight(rule.template, signals, healthy) :
        rule \in Rules, signals \in Signals, healthy \in BOOLEAN}

\* buildTaskWithAttachments: the text says that files have been uploaded whose contents are
\* part of the task, which the rules read like the user's own words.
WithAttachments(text) == text \cup {"file", "upload", "content"}

\* decideTask.  A text that fits no rule or several is rejected; whether the template is
\* ready is asked only of one that fits well.
Decision(text, ready) ==
    LET fitting == {rule \in Rules : Mentions(text, rule.fits)}
    IN IF Cardinality(fitting) # 1 THEN ExplicitReject
       ELSE IF \E rule \in fitting : ~Mentions(text, rule.strong) THEN GuidedRewrite
       ELSE IF ready THEN DirectExecute
       ELSE EnvironmentUnready
=============================================================================
