------------------------------ MODULE Routing ------------------------------
(***************************************************************************)
(* CapabilityRouting.ts and the attempt records of QueryEngine.ts: what an  *)
(* engine knows of the tools it has tried for a task.  The same question,   *)
(* is a tool used up, is answered twice: in the record of each attempt, by  *)
(* buildRoutingAttemptRecord, and from the history of all of them, by       *)
(* isToolExhausted.                                                         *)
(* Definitions named Broken... are faulty variants for mutation testing.    *)
(***************************************************************************)
EXTENDS Integers, Sequences, FiniteSets

CONSTANTS
    Tool,         \* the names a call may have
    Capability,   \* tools that run a capability of the catalog
    Declared,     \* the retry policy each capability declares
    Registered,   \* tools of the registry that run none
    Acts,         \* those inferToolRetryPolicy never retries: clicks, focus, high risk
    Reads         \* those it retries for their name or their low risk

Class == {"transient", "deterministic", "permission", "missing_dependency"}

ASSUME RoutingAssumption ==
    /\ Capability \subseteq Tool /\ Registered \subseteq Tool
    /\ Declared \in [Capability -> [retryable : BOOLEAN, max : Int, on : SUBSET Class]]

----------------------------------------------------------------------------
\* Retry policies.
Normalized(p) ==
    [retryable   |-> p.retryable,
     maxAttempts |-> IF p.retryable /\ p.max > 1 THEN p.max ELSE 1,
     retryOn     |-> IF p.retryable /\ p.on = {} THEN {"transient"}
                     ELSE IF p.retryable THEN p.on ELSE {}]

Once == [retryable |-> FALSE, maxAttempts |-> 1, retryOn |-> {}]

Policy(t) ==
    IF t \in Capability THEN Normalized(Declared[t])
    ELSE IF t \in (Registered \cap Reads) \ Acts
         THEN [retryable |-> TRUE, maxAttempts |-> 2, retryOn |-> {"transient"}]
         ELSE Once

MatchesRetryOn(t, class) == Policy(t).retryable /\ class \in Policy(t).retryOn

----------------------------------------------------------------------------
(* A result: ok, what its verification says, its error, and the failure     *)
(* class that it or its data names.                                         *)
Error == {"none", "denied", "not_found", "discovery", "adapter_missing", "timeout", "other"}
Verdict == {"passed", "failed", "unknown"}
Blocking == {"denied", "not_found", "discovery"}

ClassOf(error) ==
    CASE error = "denied" -> "permission"
      [] error \in {"not_found", "adapter_missing"} -> "missing_dependency"
      [] error = "timeout" -> "transient"
      [] OTHER -> "deterministic"

FailureClass(r) ==
    IF r.class # "none" THEN r.class
    ELSE IF r.error = "none" /\ r.verified # "failed" THEN "none"
    ELSE ClassOf(r.error)

Outcome(r) ==
    CASE r.ok /\ r.verified # "failed" -> "succeeded"
      [] ~(r.ok /\ r.verified # "failed") /\ r.error \in Blocking -> "blocked"
      [] r.error \notin Blocking /\ r.verified = "failed" -> "verified_failed"
      [] OTHER -> "failed"

----------------------------------------------------------------------------
\* The attempts of a task, oldest first.
Attempt == [tool : Tool, outcome : {"succeeded", "failed", "verified_failed", "blocked"},
            class : Class \cup {"none"}, exhausted : BOOLEAN]

Of(h, t) == {i \in 1..Len(h) : h[i].tool = t}

\* isRetryableFailureAttempt, countRetryableFailures.
Failures(h, t) ==
    {i \in Of(h, t) : h[i].outcome # "succeeded" /\ MatchesRetryOn(t, h[i].class)}

\* Mutant: counts every failed attempt, also those the policy does not retry.
BrokenRecordExhausted(h, t, outcome, class) ==
    LET failed == {i \in Of(h, t) : h[i].outcome # "succeeded"}
    IN \/ outcome = "blocked"
       \/ /\ outcome # "succeeded"
          /\ \/ ~MatchesRetryOn(t, class)
             \/ Cardinality(failed) + 1 >= Policy(t).maxAttempts

\* buildRoutingAttemptRecord: the failures before this one are counted, and this one.
RecordExhausted(h, t, outcome, class) ==
    LET failed == IF outcome # "succeeded" /\ MatchesRetryOn(t, class) THEN 1 ELSE 0
    IN \/ outcome = "blocked"
       \/ /\ outcome # "succeeded"
          /\ \/ ~MatchesRetryOn(t, class)
             \/ Cardinality(Failures(h, t)) + failed >= Policy(t).maxAttempts

Recorded(h, t, r) ==
    Append(h, [tool |-> t, outcome |-> Outcome(r), class |-> FailureClass(r),
               exhausted |-> RecordExhausted(h, t, Outcome(r), FailureClass(r))])

\* isToolExhausted: the last attempt decides whether the count matters.
IsToolExhausted(h, t) ==
    \E last \in Of(h, t) :
        /\ \A i \in Of(h, t) : i <= last
        /\ h[last].outcome # "succeeded"
        /\ \/ h[last].outcome = "blocked"
           \/ ~MatchesRetryOn(t, h[last].class)
           \/ Cardinality(Failures(h, t)) >= Policy(t).maxAttempts

ExhaustedTools(h) == {t \in Tool : IsToolExhausted(h, t)}
Blocked(h) == \E i \in 1..Len(h) : h[i].outcome = "blocked"
=============================================================================
