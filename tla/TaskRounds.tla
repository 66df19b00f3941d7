----------------------------- MODULE TaskRounds -----------------------------
(***************************************************************************)
(* The rounds of a task inside submitUserMessage (QueryEngine.ts), with     *)
(* what module AgentTurn leaves open: the context that is assembled from    *)
(* the memory facts, the compaction of the messages, the request with its   *)
(* retries, the demo client's choice of the next tool, the attempt record   *)
(* and the facts appended for it.  The engine may crash and be started      *)
(* again on the facts file it left.                                         *)
(*                                                                          *)
(* An answer asks for one call (AgentTurn has the answers with several),    *)
(* and nothing aborts: no application gives its engine a signal.            *)
(***************************************************************************)
EXTENDS DemoClient, Compaction, MemoryFacts

CONSTANTS
    Plans,          \* the routing plans that may come up
    Result,         \* the results a call may have
    SummaryFacts,   \* the facts that may come with the model's summary of a session
    MaxTurns, MaxRetries,
    MaxTasks, MaxCrashes    \* bounds

Point == {"none", "focus", "observe"}

ASSUME TaskRoundsAssumption ==
    /\ \A plan \in Plans : plan \in Plan /\ plan.preparable \subseteq plan.catalogue
    /\ \A r \in Result : r \in [ok : BOOLEAN, verified : Verdict, error : Error,
                                class : Class \cup {"none"}, target : BOOLEAN, point : Point]
    /\ SummaryFacts \subseteq Seq(Fact)
    /\ {MaxTurns, MaxRetries, MaxTasks, MaxCrashes} \subseteq Nat

VARIABLES
    client,     \* the model client: "demo" or "openai-compatible"
    at,         \* where submitUserMessage stands
    tasks,      \* tasks submitted
    step,       \* its loop counter
    messages,   \* the roles of QueryEngine.messages
    attempts,   \* attemptHistory
    point,      \* the recovery point in the context of the round
    sent,       \* the messages of the request
    tries,      \* requests that failed and were tried again
    call,       \* the call of the answer
    crashes

taskVars == <<client, at, tasks, step, messages, attempts, point, sent, tries, call, crashes>>
vars == <<taskVars, failures, paused, memoryVars>>

Init ==
    /\ client \in {"demo", "openai-compatible"}
    /\ at = "idle" /\ tasks = 0 /\ step = 0 /\ messages = <<>> /\ attempts = <<>>
    /\ point = "none" /\ sent = <<>> /\ tries = 0 /\ call = NoTool /\ crashes = 0
    /\ failures = 0 /\ paused = FALSE
    /\ MemoryInit

\* The engine goes on when the facts it appends are written.
Stored == pending = <<>>

Push(role) == messages' = Append(messages, role)

----------------------------------------------------------------------------
\* resetRoutingMemoryState, then the user message.
Submit ==
    /\ at = "idle" /\ tasks < MaxTasks
    /\ at' = "submitted" /\ tasks' = tasks + 1 /\ step' = 0 /\ attempts' = <<>>
    /\ pending' = <<About("last_attempt", "none"), About("recovery_point", "none")>>
    /\ UNCHANGED <<client, messages, point, sent, tries, call, crashes, failures, paused,
                   file, temp, stage, loaded, acked>>

RecordTask ==
    /\ at = "submitted" /\ Stored
    /\ at' = "round" /\ Push("user")
    /\ UNCHANGED <<client, tasks, step, attempts, point, sent, tries, call, crashes,
                   failures, paused, memoryVars>>

ReachMaxTurns ==
    /\ at = "round" /\ step = MaxTurns
    /\ at' = "idle" /\ Push("assistant")
    /\ UNCHANGED <<client, tasks, step, attempts, point, sent, tries, call, crashes,
                   failures, paused, memoryVars>>

\* listFacts, assemble and persistContextState, which appends the target it has read.
Assemble ==
    /\ at = "round" /\ step < MaxTurns
    /\ at' = "assembled"
    /\ LET facts == ReadFile(file)
       IN /\ point' = facts["recovery_point"]
          /\ pending' = IF facts["current_target"] = "none" THEN <<>>
                        ELSE <<About("current_target", facts["current_target"])>>
    /\ UNCHANGED <<client, tasks, step, messages, attempts, sent, tries, call, crashes,
                   failures, paused, file, temp, stage, loaded, acked>>

\* compact shortens old tool results at once and calls the model only over a limit,
\* and unless it is paused.
AfterMicro == IF paused THEN {"ask"} ELSE {"ask", "session"}

\* The system prompt is recorded in the first round.
SelectMessages ==
    /\ at = "assembled" /\ Stored
    /\ messages' = IF step = 0 THEN Append(messages, "system") ELSE messages
    /\ sent' = Recent(messages')
    /\ at' \in AfterMicro
    /\ UNCHANGED <<client, tasks, step, attempts, point, tries, call, crashes,
                   failures, paused, memoryVars>>

Compacted == UNCHANGED <<client, tasks, step, messages, attempts, point, tries, call, crashes,
                         file, temp, stage, loaded, acked>>

\* Over the soft limit: the older messages are summarised.  Without any there is
\* nothing to do; when the summary fails the messages stay as they are.  If that is
\* enough, the facts of the summary are appended; the demo client's has none.
CompactSession ==
    /\ at = "session"
    /\ at' \in {"ask", "full"}
    /\ \/ Len(sent) <= MinSession /\ UNCHANGED <<sent, failures, paused, pending>>
       \/ /\ Len(sent) > MinSession /\ sent' = SessionSummary(sent) /\ MarkSuccess
          /\ pending' \in IF at' = "ask" /\ client # "demo" THEN SummaryFacts ELSE {<<>>}
       \/ /\ Len(sent) > MinSession /\ client # "demo"
          /\ MarkFailure /\ UNCHANGED <<sent, pending>>
    /\ Compacted

\* Over the hard limit still: all recent messages, as they were before the session's
\* summary, are summarised instead, and a failure leaves their tail.
CompactFull ==
    /\ at = "full"
    /\ at' = "ask"
    /\ LET recent == Recent(messages)
           tail == ConversationTail(recent)
       IN \/ sent' = FullSummary(recent) /\ MarkSuccess
          \/ /\ client # "demo" /\ MarkFailure
             /\ sent' = IF tail = <<>> THEN recent ELSE tail
    /\ UNCHANGED pending /\ Compacted

----------------------------------------------------------------------------
\* generate of either client.  The demo client decides on the role of the last message;
\* the other's answer may name any tool of the catalogue.
Answers ==
    IF client = "demo"
    THEN {DemoAnswer(sent[Len(sent)], plan, attempts, point) : plan \in Plans}
    ELSE Capability \cup Registered \cup {NoTool}

ReceiveAnswer ==
    /\ at = "ask" /\ Stored
    /\ \E answer \in Answers :
          /\ at' = IF answer = NoTool THEN "idle" ELSE "call"
          /\ call' = answer
    /\ Push("assistant")
    /\ sent' = <<>> /\ tries' = 0 /\ point' = "none"
    /\ UNCHANGED <<client, tasks, step, attempts, crashes, failures, paused, memoryVars>>

\* Mutant: the count starts over instead of coming to an end.
BrokenRetryRequest ==
    /\ at = "ask" /\ Stored /\ client # "demo"
    /\ tries' = IF tries < MaxRetries THEN tries + 1 ELSE 0
    /\ UNCHANGED <<client, at, tasks, step, messages, attempts, point, sent, call, crashes,
                   failures, paused, memoryVars>>

\* A request that timed out, met a network error or a retryable status.
RetryRequest ==
    /\ at = "ask" /\ Stored /\ client # "demo" /\ tries < MaxRetries
    /\ tries' = tries + 1
    /\ UNCHANGED <<client, at, tasks, step, messages, attempts, point, sent, call, crashes,
                   failures, paused, memoryVars>>

\* submitUserMessage throws: what it held of the round is gone, what it recorded stays.
ThrowToCaller ==
    /\ at' = "idle" /\ sent' = <<>> /\ tries' = 0 /\ point' = "none" /\ call' = NoTool
    /\ UNCHANGED <<client, tasks, step, messages, attempts, crashes, failures, paused>>

\* The last of them, or an error that is not retryable, is thrown to the caller.
RequestThrows ==
    /\ at = "ask" /\ Stored /\ client # "demo"
    /\ ThrowToCaller
    /\ UNCHANGED memoryVars

\* executeTools and recordRoutingAttempt: the result, its record, and its facts.
FactsOf(r) ==
    <<About("last_attempt", Outcome(r))>>
      \o (IF r.target THEN <<About("current_target", "set")>> ELSE <<>>)
      \o (IF r.point # "none" THEN <<About("recovery_point", r.point)>> ELSE <<>>)

RunCall ==
    /\ at = "call"
    /\ \E r \in Result :
          /\ attempts' = Recorded(attempts, call, r)
          /\ pending' = FactsOf(r)
    /\ at' = "recorded" /\ Push("tool")
    /\ UNCHANGED <<client, tasks, step, point, sent, tries, call, crashes,
                   failures, paused, file, temp, stage, loaded, acked>>

EndRound ==
    /\ at = "recorded" /\ Stored
    /\ at' = "round" /\ step' = step + 1 /\ call' = NoTool
    /\ UNCHANGED <<client, tasks, messages, attempts, point, sent, tries, crashes,
                   failures, paused, memoryVars>>

----------------------------------------------------------------------------
StoreStep == AppendStep /\ UNCHANGED <<taskVars, failures, paused>>

\* An append is due: of the facts that are kept, or of compact.last_summary, which
\* follows every compaction before the request is sent.
Appending == ~Stored \/ (at = "ask" /\ tries = 0)

\* Mutant: the appends after the failed one are still to come.
BrokenStoreFails ==
    /\ Appending
    /\ ThrowToCaller
    /\ UNCHANGED memoryVars

\* An append that fails is thrown to the caller of submitUserMessage.
StoreFails ==
    /\ Appending
    /\ ThrowToCaller
    /\ DropAppends

Crash ==
    /\ at # "down" /\ crashes < MaxCrashes
    /\ crashes' = crashes + 1
    /\ at' = "down" /\ step' = 0 /\ messages' = <<>> /\ attempts' = <<>>
    /\ point' = "none" /\ sent' = <<>> /\ tries' = 0 /\ call' = NoTool
    /\ failures' = 0 /\ paused' = FALSE
    /\ DropAppends
    /\ UNCHANGED <<client, tasks>>

Restart ==
    /\ at = "down"
    /\ at' = "idle"
    /\ UNCHANGED <<client, tasks, step, messages, attempts, point, sent, tries, call, crashes,
                   failures, paused, memoryVars>>

EngineStep ==
    \/ RecordTask \/ ReachMaxTurns \/ Assemble \/ SelectMessages
    \/ CompactSession \/ CompactFull \/ ReceiveAnswer \/ RetryRequest
    \/ RunCall \/ EndRound \/ StoreStep

Next == EngineStep \/ Submit \/ RequestThrows \/ StoreFails \/ Crash \/ Restart

\* An await of the engine settles: a request by its timeout, the files by the system.
\* Nothing is relied on to fail.
Spec == Init /\ [][Next]_vars /\ WF_vars(EngineStep)

----------------------------------------------------------------------------
\* All but the messages of the request.
TaskTypeOK ==
    /\ client \in {"demo", "openai-compatible"}
    /\ at \in {"idle", "submitted", "round", "assembled", "session", "full", "ask", "call",
               "recorded", "down"}
    /\ tasks \in 0..MaxTasks /\ step \in 0..MaxTurns /\ tries \in 0..MaxRetries
    /\ (at \in {"assembled", "session", "full", "ask", "call", "recorded"}) => step < MaxTurns
    /\ messages \in Seq(Role) /\ attempts \in Seq(Attempt)
    /\ point \in Content
    /\ call \in Tool \cup {NoTool} /\ (at = "call" => call # NoTool)
    /\ crashes \in 0..MaxCrashes
    /\ failures \in Nat /\ paused \in BOOLEAN
    /\ MemoryTypeOK
    /\ pending # <<>> => at \in {"submitted", "assembled", "ask", "recorded"}

\* The variables stay in their sets, and no request is empty.
RoundTypeOK == TaskTypeOK /\ sent \in Seq(Role) /\ (at = "ask" => sent # <<>>)

\* Both answers to the question whether a tool is used up agree: the record made for
\* an attempt says so exactly if the history that now ends with it does, whatever
\* came before, successes between two failures included.
ExhaustionAgrees ==
    attempts # <<>> =>
        LET last == attempts[Len(attempts)]
        IN last.exhausted <=> last.tool \in ExhaustedTools(attempts)

\* The demo client calls no tool that the task has used up, nor anything after a second
\* attempt: what compaction leaves of the messages always ends with the result that the
\* client has to go on from.
ExhaustedLeftAlone ==
    at = "call" /\ client = "demo" =>
        call \notin ExhaustedTools(attempts) /\ Len(attempts) <= 1

\* A task that is submitted ends, whatever the requests, the compaction and the calls
\* come to, or its process does.
TaskEnds == (at = "submitted") ~> (at \in {"idle", "down"})
=============================================================================
