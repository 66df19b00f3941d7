---------------------------- MODULE MCTaskRounds ----------------------------
(***************************************************************************)
(* Three tools: a capability that may be retried, a recovery command that   *)
(* may not, and a snapshot the engine falls back to.                        *)
(***************************************************************************)
EXTENDS TaskRounds

MCDeclared ==
    [t \in Capability |->
        IF t = "skill" THEN [retryable |-> TRUE, max |-> 2, on |-> {}]
        ELSE [retryable |-> FALSE, max |-> 3, on |-> {"transient"}]]

MCFocusFirst   == <<"focus_app", "snapshot">>
MCObserveFirst == <<"snapshot", "focus_app">>

\* Any recommendation and fallback order; all tools known and usable, or the command not.
MCPlans ==
    [recommended : {<<>>, <<"skill">>, <<"skill", "focus_app">>, <<"focus_app", "skill">>},
     fallback : {<<>>, <<"snapshot">>}, near : {{"skill"}, Capability},
     catalogue : {Tool}, preparable : {Tool, {"skill", "snapshot"}},
     prefersFallback : BOOLEAN]

A(ok, verified, error, target, recovery) ==
    [ok |-> ok, verified |-> verified, error |-> error, class |-> "none",
     target |-> target, point |-> recovery]

\* Verified; not verified, with a recovery point; failed for a while; refused.
MCResult ==
    {A(TRUE, "passed", "none", TRUE, "none"), A(TRUE, "failed", "none", FALSE, "observe"),
     A(FALSE, "unknown", "timeout", FALSE, "none"), A(FALSE, "unknown", "denied", FALSE, "none")}

\* No facts, or one that the next context reads.
MCSummaryFacts == {<<>>, <<About("current_target", "set")>>}
=============================================================================
