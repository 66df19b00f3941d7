----------------------------- MODULE DemoClient -----------------------------
(***************************************************************************)
(* DemoModelClient of ModelClient.ts: what it does next, from the routing   *)
(* plan of the round and the attempts of the task.                          *)
(*                                                                          *)
(* A plan is what ContextAssembler and buildCapabilityRoutingPlan make of   *)
(* the task: recommended capabilities and fallback tools in the order the   *)
(* client goes through them, the capabilities that score near the best,     *)
(* the tools of the catalogue, and those of them it can fill the input of.  *)
(* How they are scored is left open: any plan may come up in any round.     *)
(***************************************************************************)
EXTENDS Routing, FiniteSetsExt

CONSTANTS
    NoTool,
    GuiAction,      \* isGuiActionTool
    Command,        \* tools named "command. ..."
    FocusFirst,     \* the candidates of selectRecoveryTool, in their order,
    ObserveFirst    \*   and in that for a recovery point "observe: ..."

ASSUME DemoAssumption ==
    /\ NoTool \notin Tool
    /\ FocusFirst \in Seq(Tool) /\ ObserveFirst \in Seq(Tool)

Plan == [recommended : Seq(Tool), fallback : Seq(Tool), near : SUBSET Tool,
         catalogue : SUBSET Tool, preparable : SUBSET Tool, prefersFallback : BOOLEAN]

\* Array.find: the first of a sequence that satisfies P.
Find(s, P(_)) ==
    LET hits == {i \in DOMAIN s : P(s[i])}
    IN IF hits = {} THEN NoTool
       ELSE s[Min(hits)]

\* selectNextActionFromRoutingPlan.
NextAction(plan, h) ==
    LET usable(t) == t \notin ExhaustedTools(h) /\ t \in plan.preparable
        fallback == Find(plan.fallback, usable)
        capability == Find(plan.recommended, usable)
        first == fallback # NoTool /\ (plan.prefersFallback \/ plan.recommended = <<>>)
    IN IF first \/ capability = NoTool THEN fallback ELSE capability

(* selectRecoveryActionFromRoutingState, after an attempt that has failed:   *)
(* the candidates it goes through, of which the first that exists is taken. *)
LastOfHistory(h) == h[Len(h)]
Ready(plan, h, t) ==
    t # LastOfHistory(h).tool /\ t \notin ExhaustedTools(h) /\ t \in plan.preparable
Safe(t) == t \notin GuiAction \cup Command

\* The first recovery tool of the catalogue, if its input can be filled.
RecoveryTool(plan, h, point) ==
    LET another(t) == t # LastOfHistory(h).tool /\ t \in plan.catalogue
        tool == Find(IF point = "observe" THEN ObserveFirst ELSE FocusFirst, another)
    IN IF LastOfHistory(h).outcome = "verified_failed" /\ tool \in plan.preparable
       THEN tool ELSE NoTool

\* Mutant: after a refusal the first harmless tool is taken, ready or not.
BrokenSafeFallback(plan, h) ==
    LET harmless(t) == t # LastOfHistory(h).tool /\ t \notin ExhaustedTools(h) /\ Safe(t)
    IN IF Blocked(h) THEN Find(plan.fallback, harmless) ELSE NoTool

SafeFallback(plan, h) ==
    LET harmless(t) == Ready(plan, h, t) /\ Safe(t)
    IN IF Blocked(h) THEN Find(plan.fallback, harmless) ELSE NoTool

BackupCapability(plan, h) ==
    LET backup(t) == /\ Ready(plan, h, t) /\ t \in plan.near
                     /\ LastOfHistory(h).outcome = "blocked" => Safe(t)
    IN Find(plan.recommended, backup)

FallbackTool(plan, h) ==
    LET fallback(t) == Ready(plan, h, t) IN Find(plan.fallback, fallback)

SameTool(plan, h) ==
    LET last == LastOfHistory(h)
    IN IF Policy(last.tool).retryable /\ ~last.exhausted /\ last.tool \in plan.preparable
       THEN last.tool ELSE NoTool

RecoveryAction(plan, h, point) ==
    LET exists(t) == t # NoTool
    IN IF h = <<>> \/ LastOfHistory(h).outcome = "succeeded" THEN NoTool
       ELSE Find(<<RecoveryTool(plan, h, point), SafeFallback(plan, h),
                   BackupCapability(plan, h), FallbackTool(plan, h), SameTool(plan, h)>>,
                 exists)

\* Mutant: goes on recovering after the second attempt.
BrokenDemoAnswer(lastRole, plan, h, point) ==
    IF lastRole # "tool" THEN NextAction(plan, h)
    ELSE RecoveryAction(plan, h, point)

(* generate: NoTool is the final answer.  After a tool result there is a    *)
(* recovery at most, and none after a second attempt.                       *)
DemoAnswer(lastRole, plan, h, point) ==
    IF lastRole # "tool" THEN NextAction(plan, h)
    ELSE IF Len(h) >= 2 THEN NoTool
    ELSE RecoveryAction(plan, h, point)
=============================================================================
