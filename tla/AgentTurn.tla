----------------------------- MODULE AgentTurn -----------------------------
(***************************************************************************)
(* One QueryEngine (packages/core/QueryEngine.ts) and the ToolRuntime it    *)
(* drives.  A turn is a bounded loop: ask the model, run the calls it       *)
(* answers with, record their results in the history, ask again.  The calls *)
(* of one answer run in batches (ToolOrchestration.ts): neighbouring calls  *)
(* to parallel-safe tools share a batch, every other call is alone, and a   *)
(* batch starts when the one before it is over.                             *)
(*                                                                          *)
(* Each await of the code ends an action: an abort may land between any two *)
(* actions, and the calls of a batch interleave.  What the model answers,   *)
(* what the permission checker decides (module PermissionChecker) and how a *)
(* tool ends are nondeterministic.  The caller submits one message at a     *)
(* time; the hooks the callers give only write to the log.                  *)
(* Definitions named Broken... are faulty variants for mutation testing.    *)
(***************************************************************************)
EXTENDS Integers, Selection, SequencesExt

CONSTANTS
    Tool,          \* the names a model may call
    Registered,    \* the names InMemoryToolRegistry knows
    ParallelSafe,  \* registered tools with concurrencySafe and executionMode 'sync'
    Discoverable,  \* tools hidden until a search reveals them; the recovery
                   \* tools, which executeSingleToolCall lets through, are not
    Search,        \* tools.search, capabilities.search
    Reveals,       \* what a successful search reveals
    MaxTurns,      \* QueryEngineOptions.maxTurns
    MaxContext,    \* QueryEngineOptions.maxContextMessages
    HasSignal,     \* whether an executionSignal was given to the engine
    MaxCalls,      \* bound: calls in one model answer
    MaxSubmits     \* bound: user messages and direct calls

ASSUME AgentTurnAssumption ==
    /\ ParallelSafe \subseteq Registered /\ Registered \subseteq Tool
    /\ Discoverable \subseteq Registered
    /\ Search \subseteq Registered
    /\ Reveals \in [Search -> SUBSET Discoverable]
    /\ MaxTurns \in Nat \ {0} /\ MaxContext \in Nat \ {0}
    /\ MaxCalls \in Nat \ {0} /\ MaxSubmits \in Nat
    /\ HasSignal \in BOOLEAN

VARIABLES
    pc,          \* where submitUserMessage or executeTool stands
    mode,        \* "turn": submitUserMessage, "direct": executeTool
    step,        \* the loop counter of submitUserMessage
    calls,       \* the calls of the round being run
    slot,        \* how far executeSingle is with each of them
    answered,    \* how many of them have their tool message
    messages,    \* QueryEngine.messages
    discovered,  \* discoveredTools and revealedCapabilities
    aborted,     \* the signal has fired
    outcome,     \* how the latest turn ended, or is about to end
    submits      \* user messages and direct calls so far

vars == <<pc, mode, step, calls, slot, answered, messages, discovered,
          aborted, outcome, submits>>
-----------------------------------------------------------------------------
Settled == {"ok", "failed"}
Active  == {"deciding", "executing"}
SlotStates == {"waiting"} \cup Active \cup Settled
Outcomes == {"none", "final", "max_turns", "aborted", "failed"}

(* A QueryMessage: n is the number of tool calls of an assistant message,   *)
(* and the index of the call that a tool message answers.                   *)
Message == [role : {"user", "system", "assistant", "tool"}, n : 0..MaxCalls]
Msg(r, k) == [role |-> r, n |-> k]

CallsOf == UNION {[1..k -> Tool] : k \in 0..MaxCalls}
NoSlots == [i \in 1..MaxCalls |-> "waiting"]
Round   == 1..Len(calls)

(* isParallelSafeTool on the call at a position of the answer. *)
Par(i) == calls[i] \in ParallelSafe

(* planToolExecutionBatches, statement by statement: each batch is a        *)
(* sequence of positions; a run of parallel-safe calls is flushed by the    *)
(* next other call and at the end.                                          *)
Flush(p) == IF p.pending = <<>> THEN p.batches ELSE Append(p.batches, p.pending)

\* Mutant: a call that is alone goes before the parallel ones that wait for a batch.
BrokenPlaced(p, i, parallel) ==
    IF i \in parallel THEN [batches |-> p.batches, pending |-> Append(p.pending, i)]
    ELSE [batches |-> Append(p.batches, <<i>>), pending |-> p.pending]

Placed(p, i, parallel) ==
    IF i \in parallel THEN [batches |-> p.batches, pending |-> Append(p.pending, i)]
    ELSE [batches |-> Append(Flush(p), <<i>>), pending |-> <<>>]

\* The plan of the first i of n calls, for each i.
PlanUpTo(n, parallel) ==
    LET plan[i \in 0..n] == IF i = 0 THEN [batches |-> <<>>, pending |-> <<>>]
                            ELSE Placed(plan[i - 1], i, parallel)
    IN plan

PlanBatches == Flush(PlanUpTo(Len(calls), {i \in Round : Par(i)})[Len(calls)])

(* The same plan as a relation: positions i <= j fall into one batch when   *)
(* everything from i to j may run in parallel; any other call is alone.     *)
SameBatch(i, j) == i = j \/ \A k \in i..j : Par(k)

(* executeMany: a call is started when all batches before its own are over. *)
BrokenBatchWaitsForAll(i) == \A j \in Round \ {i} : slot[j] \in Settled
BrokenBatchReached(i) == \A j \in 1..(i-1) : slot[j] # "waiting" \/ SameBatch(j, i)
BatchReached(i) == \A j \in 1..(i-1) : slot[j] \in Settled \/ SameBatch(j, i)

(* buildMessagesForModel and buildRecentContextWindow: all of a short       *)
(* history, else its last messages without the system ones, with the        *)
(* assistant message in front when the cut falls right behind it.           *)
Spoken(ms) == Only(ms, [role : {"user", "assistant", "tool"}, n : 0..MaxCalls])
CallsTools(m) == m.role = "assistant" /\ m.n > 0

BrokenCutPoint(spoken) == Len(spoken) - MaxContext + 1
CutPoint(spoken) ==
    LET first == Len(spoken) - MaxContext + 1
    IN IF /\ spoken[first].role = "tool"
          /\ first > 1 /\ CallsTools(spoken[first - 1])
       THEN first - 1 ELSE first

Window(ms) ==
    LET spoken == Spoken(ms)
    IN IF Len(spoken) <= MaxContext THEN ms
       ELSE SubSeq(spoken, CutPoint(spoken), Len(spoken))
-----------------------------------------------------------------------------
Init ==
    /\ pc = "idle" /\ mode = "turn" /\ step = 0
    /\ calls = <<>> /\ slot = NoSlots /\ answered = 0
    /\ messages = <<>> /\ discovered = {}
    /\ aborted = FALSE /\ outcome = "none" /\ submits = 0

(* The owner of the AbortController fires the signal. *)
Abort ==
    /\ HasSignal /\ ~aborted
    /\ aborted' = TRUE
    /\ UNCHANGED <<pc, mode, step, calls, slot, answered, messages, discovered,
                   outcome, submits>>

(* The closing message of a turn is in the history; its facts still have to *)
(* reach the memory store before the result is returned.                    *)
Close(how) ==
    /\ pc' = "closing" /\ outcome' = how
    /\ messages' = Append(messages, Msg("assistant", 0))

NoCalls == calls' = <<>> /\ slot' = NoSlots /\ answered' = 0

(* submitUserMessage up to its first loop test.  An abort that came before  *)
(* is answered without recording the user message.  A memory store that     *)
(* fails before the user message is recorded is not told apart from one     *)
(* that fails after it (Fail).                                              *)
SubmitUserMessage ==
    /\ pc = "idle" /\ submits < MaxSubmits
    /\ submits' = submits + 1
    /\ mode' = "turn"
    /\ \/ /\ aborted
          /\ Close("aborted")
          /\ UNCHANGED <<step, discovered>>
       \/ /\ ~aborted
          /\ pc' = "ready" /\ step' = 0 /\ outcome' = "none"
          /\ discovered' = {}
          /\ messages' = Append(messages, Msg("user", 0))
    /\ UNCHANGED <<calls, slot, answered, aborted>>

(* The head of the loop: abort test, context assembly, and the request; the *)
(* first round also records the system prompt.                              *)
RequestModel ==
    /\ pc' = "generating"
    /\ messages' = IF step = 0 THEN Append(messages, Msg("system", 0)) ELSE messages
    /\ UNCHANGED <<mode, step, calls, slot, answered, discovered, aborted,
                   outcome, submits>>

BrokenBeginRound == pc = "ready" /\ step <= MaxTurns /\ ~aborted /\ RequestModel
BeginRound == pc = "ready" /\ step < MaxTurns /\ ~aborted /\ RequestModel

ReachMaxTurns ==
    /\ pc = "ready" /\ step = MaxTurns
    /\ Close("max_turns")
    /\ UNCHANGED <<mode, step, calls, slot, answered, discovered, aborted, submits>>

(* An ExecutionAbortedError: thrown by the loop test, by the model request  *)
(* or between two results of a round; buildAbortedResult closes the history *)
(* and leaves the calls of the round that have no result yet without one.   *)
StopAborted ==
    /\ aborted
    /\ \/ pc = "ready" /\ step < MaxTurns
       \/ pc = "generating"
       \/ pc = "recording" /\ mode = "turn" /\ answered < Len(calls)
    /\ Close("aborted")
    /\ NoCalls
    /\ UNCHANGED <<mode, step, discovered, aborted, submits>>

(* The model answers.  An answer that is already there when the signal      *)
(* fires is still taken: nothing tests the signal before the calls run.     *)
ModelAnswersFinal ==
    /\ pc = "generating"
    /\ Close("final")
    /\ UNCHANGED <<mode, step, calls, slot, answered, discovered, aborted, submits>>

(* A tool that is hidden until a search has revealed it, and none has since *)
(* the turn began: getVisibleTools leaves it out of the request.            *)
Gated(t) == t \in Discoverable /\ t \notin discovered

(* Both model clients only return calls to tools of the request's catalogue: *)
(* the demo client picks from it, validateToolInput throws for any other    *)
(* (Fail), or the answer is taken for a final text.                         *)
Offered(t) == t \in Registered /\ ~Gated(t)

ModelAnswersCalls(cs) ==
    /\ pc = "generating"
    /\ \A i \in DOMAIN cs : Offered(cs[i])
    /\ pc' = "running" /\ calls' = cs
    /\ messages' = Append(messages, Msg("assistant", Len(cs)))
    /\ UNCHANGED <<mode, step, slot, answered, discovered, aborted, outcome, submits>>

(* The result is returned to the caller. *)
ReturnResult ==
    /\ pc = "closing"
    /\ pc' = "idle"
    /\ UNCHANGED <<mode, step, calls, slot, answered, messages, discovered,
                   aborted, outcome, submits>>

(* Any other error of the model client or of the memory store is thrown to  *)
(* the caller as it is.  The store is written to after every message, so    *)
(* this can happen at every pc but inside executeMany, which turns what the *)
(* tools throw into results.  Only what the permission checker throws is    *)
(* outside its try and ends the round: what else of the batch is under way  *)
(* goes on by itself, and nobody asks for its results.                      *)
Fail ==
    /\ \/ pc \in {"ready", "generating", "recording", "closing"}
       \/ pc = "running" /\ mode = "turn" /\ \A i \in Round : slot[i] = "waiting"
       \/ pc = "running" /\ \E i \in Round : slot[i] = "deciding"
    /\ pc' = "idle"
    /\ outcome' = IF mode = "turn" THEN "failed" ELSE outcome
    /\ NoCalls
    /\ UNCHANGED <<mode, step, messages, discovered, aborted, submits>>
-----------------------------------------------------------------------------
(* executeSingle, one call of the round. *)
SetSlot(i, s) ==
    /\ slot' = [slot EXCEPT ![i] = s]
    /\ UNCHANGED <<pc, mode, step, calls, answered, messages, discovered,
                   aborted, outcome, submits>>

StartCall(i) ==
    /\ pc = "running" /\ i \in Round /\ slot[i] = "waiting" /\ BatchReached(i)
    /\ SetSlot(i, IF calls[i] \in Registered THEN "deciding" ELSE "failed")

DenyCall(i) ==
    /\ pc = "running" /\ i \in Round /\ slot[i] = "deciding"
    /\ SetSlot(i, "failed")

PermitCall(i) ==
    /\ pc = "running" /\ i \in Round /\ slot[i] = "deciding"
    /\ SetSlot(i, "executing")

ToolReturns(i) ==
    /\ pc = "running" /\ i \in Round /\ slot[i] = "executing"
    /\ \E s \in Settled : SetSlot(i, s)

(* executeMany returns when the last batch is over. *)
RoundExecuted ==
    /\ pc = "running" /\ \A i \in Round : slot[i] \in Settled
    /\ pc' = "recording"
    /\ UNCHANGED <<mode, step, calls, slot, answered, messages, discovered,
                   aborted, outcome, submits>>

(* One pass of the loop of executeTools, or the tail of executeTool: the    *)
(* next result in call order becomes a tool message, and a search that      *)
(* succeeded reveals what it found.                                         *)
Learned(i) == IF calls[i] \in Search /\ slot[i] = "ok"
              THEN discovered \cup Reveals[calls[i]] ELSE discovered

BrokenRecordResult ==
    /\ pc = "recording" /\ answered < Len(calls)
    /\ mode = "direct" \/ ~aborted
    /\ answered' = answered + 1
    /\ messages' = IF slot[answered + 1] = "ok"
                   THEN Append(messages, Msg("tool", answered + 1)) ELSE messages
    /\ discovered' = Learned(answered + 1)
    /\ UNCHANGED <<pc, mode, step, calls, slot, aborted, outcome, submits>>

RecordResult ==
    /\ pc = "recording" /\ answered < Len(calls)
    /\ mode = "direct" \/ ~aborted
    /\ answered' = answered + 1
    /\ messages' = Append(messages, Msg("tool", answered + 1))
    /\ discovered' = Learned(answered + 1)
    /\ UNCHANGED <<pc, mode, step, calls, slot, aborted, outcome, submits>>

(* The end of the round: the loop goes on, or executeTool returns. *)
BrokenRoundRecorded ==
    /\ pc = "recording" /\ answered = Len(calls)
    /\ NoCalls
    /\ pc' = IF mode = "turn" THEN "ready" ELSE "idle"
    /\ UNCHANGED <<mode, step, messages, discovered, aborted, outcome, submits>>

RoundRecorded ==
    /\ pc = "recording" /\ answered = Len(calls)
    /\ NoCalls
    /\ IF mode = "turn" THEN pc' = "ready" /\ step' = step + 1
                        ELSE pc' = "idle" /\ UNCHANGED step
    /\ UNCHANGED <<mode, messages, discovered, aborted, outcome, submits>>
-----------------------------------------------------------------------------
(* executeTool, a single call from outside the loop.  executeSingleToolCall *)
(* refuses a discoverable tool that no search has revealed.                 *)
ExecuteTool(t) ==
    /\ pc = "idle" /\ submits < MaxSubmits /\ ~aborted
    /\ submits' = submits + 1
    /\ mode' = "direct" /\ calls' = <<t>>
    /\ IF Gated(t)
       THEN pc' = "recording" /\ slot' = [slot EXCEPT ![1] = "failed"]
       ELSE pc' = "running" /\ UNCHANGED slot
    /\ UNCHANGED <<step, answered, messages, discovered, aborted, outcome>>
-----------------------------------------------------------------------------
CallStep(i) == StartCall(i) \/ DenyCall(i) \/ PermitCall(i) \/ ToolReturns(i)

ModelAnswers == ModelAnswersFinal \/ \E cs \in CallsOf : ModelAnswersCalls(cs)

(* What the event loop and the parties it waits for do once a turn runs. *)
EngineStep ==
    \/ BeginRound \/ ReachMaxTurns \/ StopAborted \/ ModelAnswers \/ ReturnResult
    \/ \E i \in 1..MaxCalls : CallStep(i)
    \/ RoundExecuted \/ RecordResult \/ RoundRecorded

Next ==
    \/ SubmitUserMessage \/ (\E t \in Tool : ExecuteTool(t)) \/ Abort \/ Fail
    \/ EngineStep

Spec == Init /\ [][Next]_vars

(* The event loop runs every continuation that is due; a model request has  *)
(* a timeout; tools and permission prompts are taken to settle.  No failure *)
(* is relied on to end a turn.                                              *)
FairSpec == Spec /\ WF_vars(EngineStep)
-----------------------------------------------------------------------------
(* The variables stay in their sets: one engine is in one of six places and *)
(* every call of its round in one of five. *)
TypeOK ==
    /\ pc \in {"idle", "ready", "generating", "running", "recording", "closing"}
    /\ mode \in {"turn", "direct"}
    /\ step \in 0..MaxTurns
    /\ (pc \in {"generating", "running", "recording"} /\ mode = "turn") => step < MaxTurns
    /\ calls \in Seq(Tool) /\ Len(calls) <= MaxCalls
    /\ slot \in [1..MaxCalls -> SlotStates]
    /\ answered \in 0..MaxCalls
    /\ messages \in Seq(Message)
    /\ discovered \subseteq Discoverable
    /\ aborted \in BOOLEAN
    /\ outcome \in Outcomes
    /\ submits \in 0..MaxSubmits

(* How far a round is, as the steps keep it: outside a round nothing of it  *)
(* is left over, no call has more than one result, and a call has started   *)
(* only when the batches before its own were over. *)
RoundInv ==
    /\ answered <= Len(calls)
    /\ pc \notin {"running", "recording"} => calls = <<>> /\ slot = NoSlots /\ answered = 0
    /\ pc = "running" => answered = 0
    /\ pc \in {"ready", "generating", "closing"} => mode = "turn"
    /\ \A i \in Round : slot[i] # "waiting" => BatchReached(i)

(* A call to a tool that is not parallel-safe is alone: while it is being   *)
(* decided on or executed, no other call of the answer is, whatever mix of  *)
(* tools the model asked for in one answer (executeMany,                    *)
(* planToolExecutionBatches). *)
SerialCallsRunAlone ==
    \A i, j \in Round :
        (i # j /\ slot[i] \in Active /\ slot[j] \in Active) => Par(i) /\ Par(j)

(* The calls take effect in the order of the answer: once a call that is    *)
(* not parallel-safe has started, every call before it is over, and none    *)
(* behind it starts before it is over. *)
SerialCallsKeepOrder ==
    \A i, j \in Round :
        (i < j /\ slot[j] # "waiting" /\ ~(Par(i) /\ Par(j))) => slot[i] \in Settled

(* The batches planToolExecutionBatches builds call by call partition the   *)
(* answer, keep its order, and are those that SameBatch describes. *)
BatchPlanAgrees ==
    pc = "running" =>
        LET plan == PlanBatches
            together(i, j) == \E b \in DOMAIN plan : {i, j} \subseteq ToSet(plan[b])
        IN /\ UNION {ToSet(plan[b]) : b \in DOMAIN plan} = Round
           /\ \A b, c \in DOMAIN plan : \A k \in DOMAIN plan[b], l \in DOMAIN plan[c] :
                 b < c \/ (b = c /\ k < l) => plan[b][k] < plan[c][l]
           /\ \A i, j \in Round : i <= j => (SameBatch(i, j) <=> together(i, j))

(* A model request finds the turn it continues complete: behind every       *)
(* assistant message with calls, back to the user message of the turn, stand *)
(* the results of all its calls, once each and in call order, although the   *)
(* calls ran in parallel (executeTools). *)
TurnHistoryPaired ==
    pc = "generating" =>
        \A p \in 1..Len(messages) :
            (/\ messages[p].role = "assistant"
             /\ \A q \in p..Len(messages) : messages[q].role # "user") =>
                /\ p + messages[p].n <= Len(messages)
                /\ \A k \in 1..messages[p].n : messages[p + k] = Msg("tool", k)
                /\ LET q == p + messages[p].n + 1
                   IN q <= Len(messages) => messages[q].role # "tool"

(* The window a request is cut to shows the model its latest round whole,   *)
(* the asking message with all results, as long as the results alone fit    *)
(* into maxContextMessages: at the exact limit the asking message is the    *)
(* one message over it (buildRecentContextWindow). *)
LatestRoundInWindow ==
    (pc = "generating" /\ step > 0) =>
        LET w == Window(messages)
            asked == {p \in 1..Len(messages) : messages[p].role = "assistant"}
            last  == CHOOSE p \in asked : \A q \in asked : q <= p
            n     == messages[last].n
        IN /\ Len(Spoken(w)) <= MaxContext + 1
           /\ n <= MaxContext =>
                /\ Len(w) > n
                /\ SubSeq(w, Len(w) - n, Len(w)) =
                     SubSeq(messages, Len(messages) - n, Len(messages))

(* What one submitted message amounts to for its caller, module             *)
(* TurnContract: bounded requests, each call answered before the next one,  *)
(* a verdict that the turn has earned. *)
PhaseAt == [idle |-> "idle", ready |-> "ready", generating |-> "asked",
            running |-> "acting", recording |-> "acting", closing |-> "closing"]
Phase == IF mode = "turn" THEN PhaseAt[pc] ELSE "idle"
Owed  == IF mode = "turn" THEN Len(calls) - answered ELSE 0
Contract == INSTANCE TurnContract WITH
    phase <- Phase, owed <- Owed,
    rounds <- step, verdict <- outcome, stopped <- aborted
KeepsContract == Contract!Spec

(* Every submitted message and every direct call comes to an end, whatever  *)
(* the model answers (submitUserMessage's loop bound). *)
TurnEnds == (pc # "idle") ~> (pc = "idle")
=============================================================================
