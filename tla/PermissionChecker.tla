------------------------- MODULE PermissionChecker -------------------------
(***************************************************************************)
(* Who decides on a tool call: PolicyPermissionChecker of packages/tools/   *)
(* runtime/ToolRuntime.ts, over the policy and the reviewer of packages/    *)
(* security/PermissionPolicy.ts and the user behind a prompt, who may grant *)
(* a tool or a risk level for good.                                         *)
(*                                                                          *)
(* A call is abstracted to the tool, the risk its input is classified as    *)
(* and, if it names files, what it does to them and the outermost root that *)
(* one of the paths lies in.  Calls that can lead to a prompt are checked   *)
(* one at a time: a tool that is safe to run in parallel has low risk.      *)
(*                                                                          *)
(* Definitions named Broken... are faulty variants for mutation testing.    *)
(***************************************************************************)
EXTENDS Integers

CONSTANT Tool   \* the tools of the registry, of those whose risks are known here

ASSUME ToolAssumption ==
    Tool \subseteq {"windows.click", "windows.click_label", "windows.type", "windows.scroll",
                    "windows.focus_window", "windows.move_or_drag", "windows.shortcut",
                    "windows.clipboard", "windows.process", "windows.shell",
                    "windows.filesystem", "workspace.write_text", "workspace.read_text"}

Mode == {"read-only", "default", "confirm-high-risk", "auto"}
Risk == {"low", "medium", "high"}
NotAFile == "none"

(* classifyPermissionRequest: the risks that inputs of a tool can have; an  *)
(* input that is not understood has the risk that the tool declares.        *)
RisksOf(tool) ==
    CASE tool \in {"windows.click", "windows.click_label", "workspace.write_text"} -> {"high"}
      [] tool = "windows.filesystem" -> {"high"}
      [] tool = "windows.scroll" -> {"medium"}
      [] tool = "windows.type" -> {"medium", "high"}
      [] tool = "windows.focus_window" -> {"low", "medium"}
      [] tool \in {"windows.move_or_drag", "windows.shortcut"} -> {"medium", "high"}
      [] tool = "windows.clipboard" -> {"low", "medium"}
      [] tool = "windows.process" -> {"low", "high"}
      [] tool = "windows.shell" -> {"low", "medium", "high"}
      [] tool = "workspace.read_text" -> {"low"}

(* classifyFilesystemInput. *)
FileRisk(access, scope) ==
    CASE scope = "external" -> "high"
      [] scope = "desktop" -> IF access = "read" THEN "medium" ELSE "high"
      [] scope = "workspace" -> IF access = "read" THEN "low"
                                ELSE IF access = "delete" THEN "high" ELSE "medium"

FileRequest ==
    {[tool |-> "windows.filesystem", risk |-> FileRisk(a, s), access |-> a, scope |-> s] :
        a \in {"read", "write", "delete"}, s \in {"workspace", "desktop", "external"}}

Request ==
    (IF "windows.filesystem" \in Tool THEN FileRequest ELSE {})
        \cup UNION {[tool : {t}, risk : RisksOf(t), access : {NotAFile}, scope : {NotAFile}] :
                       t \in Tool}
-----------------------------------------------------------------------------
(* decisionFromFilesystemClassification: files are a matter of their place, *)
(* whatever the mode.                                                       *)
FileDecision(r) ==
    CASE r.scope = "external" -> "deny"
      [] r.scope = "desktop" -> "ask"
      [] r.scope = "workspace" -> "allow"

(* RiskAwarePermissionPolicy.evaluate. *)
Evaluate(mode, r) ==
    CASE r.scope # NotAFile -> FileDecision(r)
      [] r.scope = NotAFile /\ (mode = "auto" \/ r.risk = "low") -> "allow"
      [] r.scope = NotAFile /\ mode # "auto" /\ r.risk = "medium" ->
            IF mode = "read-only" THEN "deny" ELSE "allow"
      [] r.scope = NotAFile /\ mode # "auto" /\ r.risk = "high" ->
            IF mode = "confirm-high-risk" THEN "ask" ELSE "deny"

(* The calls that the reviewer sees: of tools that ask for it, of the tools *)
(* of the desktop when they are high-risk, and writes of the clipboard.     *)
RequiresReview(r) ==
    \/ r.tool = "workspace.write_text"
    \/ /\ r.risk = "high"
       /\ r.tool \in {"windows.click", "windows.type", "windows.shortcut",
                      "windows.move_or_drag", "windows.process", "windows.shell"}
    \/ r.tool = "windows.clipboard" /\ r.risk # "low"

BrokenReview(r) == IF r.tool \in {"windows.click", "windows.shell"} THEN "ask" ELSE "allow"

(* RuleBasedPermissionReviewer.review of such a call. *)
Review(r) ==
    IF \/ r.tool \in {"windows.click", "windows.move_or_drag", "windows.process", "windows.shortcut"}
       \/ r.risk = "high"
    THEN "ask" ELSE "allow"

BrokenDecide(mode, r) ==
    IF RequiresReview(r) /\ mode \notin {"auto", "default"} THEN Review(r) ELSE Evaluate(mode, r)

(* What the checker makes of both: outside auto mode the review overrides.  *)
Decide(mode, r) ==
    IF RequiresReview(r) /\ mode # "auto" THEN Review(r) ELSE Evaluate(mode, r)
-----------------------------------------------------------------------------
VARIABLES
    mode,      \* the permission mode
    prompt,    \* who asks the user: "panel", "cli" (which has a memory), "nobody"
    grants,    \* what the checker holds as approved: tools and risk levels
    memory,    \* what the prompt of the CLI holds as approved
    consents,  \* history: what the user has approved for more than one call
    asked,     \* the request that the user is asked about
    last       \* the latest verdict: on which request, and by whom it may run

vars == <<mode, prompt, grants, memory, consents, asked, last>>

Nothing == [tool |-> NotAFile, risk |-> "low", access |-> NotAFile, scope |-> NotAFile]

Init ==
    /\ mode \in Mode
    /\ prompt \in {"panel", "nobody"} \cup (IF mode = "confirm-high-risk" THEN {"cli"} ELSE {})
    /\ grants = {} /\ memory = {} /\ consents = {}
    /\ asked = Nothing
    /\ last = [request |-> Nothing, by |-> "nobody"]

Covers(set, r) == r.tool \in set \/ r.risk \in set

Verdict(r, by) == last' = [request |-> r, by |-> by]

(* canUseTool, up to a verdict that needs no user. *)
CanUseTool(r) ==
    /\ asked = Nothing
    /\ \/ Covers(grants, r) /\ Verdict(r, "grant")
       \/ ~Covers(grants, r) /\ Decide(mode, r) = "allow" /\ Verdict(r, "policy")
       \/ ~Covers(grants, r) /\ Decide(mode, r) = "deny" /\ Verdict(r, "nobody")
       \/ ~Covers(grants, r) /\ Decide(mode, r) = "ask" /\ prompt = "nobody" /\ Verdict(r, "nobody")
    /\ UNCHANGED <<mode, prompt, grants, memory, consents, asked>>

BrokenNeedsUser(r) == ~Covers(grants, r) /\ Decide(mode, r) = "ask" /\ prompt # "nobody"

NeedsUser(r) == ~Covers(grants \cup memory, r) /\ Decide(mode, r) = "ask" /\ prompt # "nobody"

AskUser(r) ==
    /\ asked = Nothing
    /\ NeedsUser(r)
    /\ asked' = r
    /\ UNCHANGED <<mode, prompt, grants, memory, consents, last>>

(* The prompt of the CLI answers by itself what it remembers. *)
Remembered(r) ==
    /\ asked = Nothing
    /\ ~Covers(grants, r) /\ Decide(mode, r) = "ask" /\ Covers(memory, r)
    /\ Verdict(r, "user")
    /\ UNCHANGED <<mode, prompt, grants, memory, consents, asked>>

(* What the user approves for longer than this call. *)
Given(r, scope) ==
    CASE scope = "once" -> {}
      [] scope = "tool" -> {r.tool}
      [] scope = "risk" -> {r.risk}

(* The user answers.  The panel hands the scope of an approval to the       *)
(* checker, the CLI keeps it to itself.                                     *)
UserAnswers(approved, scope) ==
    /\ asked # Nothing /\ asked' = Nothing
    /\ IF approved
       THEN LET given == Given(asked, scope)
            IN  /\ Verdict(asked, "user")
                /\ consents' = consents \cup given
                /\ grants' = IF prompt = "panel" THEN grants \cup given ELSE grants
                /\ memory' = IF prompt = "cli" THEN memory \cup given ELSE memory
       ELSE Verdict(asked, "nobody") /\ UNCHANGED <<grants, memory, consents>>
    /\ UNCHANGED <<mode, prompt>>

(* The next task of a panel session: its engine has a checker of its own.   *)
NextRun ==
    /\ prompt = "panel" /\ asked = Nothing
    /\ grants' = {} /\ consents' = {}
    /\ last' = [request |-> Nothing, by |-> "nobody"]
    /\ UNCHANGED <<mode, prompt, memory, asked>>

Next ==
    \/ \E r \in Request : CanUseTool(r) \/ AskUser(r) \/ Remembered(r)
    \/ \E approved \in BOOLEAN, scope \in {"once", "tool", "risk"} : UserAnswers(approved, scope)
    \/ NextRun

Spec == Init /\ [][Next]_vars
-----------------------------------------------------------------------------
(* Type invariant. *)
TypeOK ==
    /\ mode \in Mode /\ prompt \in {"panel", "cli", "nobody"}
    /\ grants \subseteq Tool \cup Risk /\ memory \subseteq Tool \cup Risk
    /\ consents \subseteq Tool \cup Risk
    /\ asked \in Request \cup {Nothing}
    /\ last \in [request : Request \cup {Nothing}, by : {"policy", "grant", "user", "nobody"}]

(* Outside auto mode a high-risk call that the user is not asked about is   *)
(* covered by an approval of its tool or of its risk that the user gave     *)
(* before, in this run or CLI session; the exception is the deletion of     *)
(* files in the workspace.  The policy, the reviewer that overrides it, the *)
(* checker's grants and the CLI's own memory (ToolRuntime.ts:112-222,       *)
(* PermissionPolicy.ts:141-283) have to agree for that.                     *)
HighRiskNeedsConsent ==
    (mode # "auto" /\ last.request.risk = "high" /\ last.by \in {"policy", "grant"})
        => Covers(consents, last.request) \/ last.request.scope = "workspace"

(* "a tool-scoped approval is reused without prompting again in the same    *)
(* session" (DEVELOPMENT.md:305), and so is one of a risk level, whoever of *)
(* the checker and the CLI prompt keeps it.                                 *)
AskedOnce == asked # Nothing => ~Covers(consents, asked)

Rank(decision) == CASE decision = "deny" -> 0 [] decision = "ask" -> 1 [] decision = "allow" -> 2

Stricter(m1, m2) == \A r \in Request : Rank(Decide(m1, r)) <= Rank(Decide(m2, r))

(* A mode never forbids what a stricter one allows, although the review     *)
(* replaces the decision of every mode but auto: the modes of               *)
(* ARCHITECTURE.md:133-137 are ordered.                                     *)
ModesOrdered ==
    /\ Stricter("read-only", "default")
    /\ Stricter("default", "confirm-high-risk")
    /\ Stricter("confirm-high-risk", "auto")

(* "Filesystem access to external paths is denied by sandbox policy."       *)
(* (PermissionPolicy.ts:646, 773): no such call is ever run.                *)
ExternalPathsDenied == last.request.scope = "external" => last.by = "nobody"
=============================================================================
