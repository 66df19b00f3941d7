-------------------------- MODULE TaskRoundsProofs --------------------------
(***************************************************************************)
(* Proofs about module TaskRounds, for any tools, policies, plans, results  *)
(* and bounds.  Four parts: the facts file, the types of a task, the         *)
(* agreement of the two answers to the question whether a tool is used up,  *)
(* and what the demo client goes on from after compaction.                  *)
(*                                                                          *)
(* The memory is a machine of its own: a step of the engine is a step of    *)
(* the store, hands it new facts when it has none, or drops those it has.   *)
(***************************************************************************)
EXTENDS TaskRounds, SelectionProofs, TLAPS, FiniteSetTheorems, WellFoundedInduction

MemoryNext ==
    \/ AppendStep
    \/ DropAppends
    \/ /\ stage = "idle" /\ pending = <<>> /\ pending' \in Seq(Fact)
       /\ UNCHANGED <<file, temp, stage, loaded, acked>>

\* What an append has done so far: it has read what was acknowledged, and what it has
\* written is that with the fact put in.
AppendInv ==
    /\ MemoryTypeOK
    /\ FactsDurable
    /\ stage \in {"read", "writing", "written"} => loaded = acked
    /\ stage = "written" =>
         temp = [torn |-> FALSE, facts |-> Upsert(acked, Head(pending))]

\* No facts are facts, and putting one in leaves facts (upsertMemoryFact).
LEMMA FactsTypes ==
    /\ NoFacts \in Facts /\ NoFile \in File
    /\ \A f \in Facts, fact \in Fact : Upsert(f, fact) \in Facts
BY DEF NoFacts, NoFile, Facts, File, Fact, Upsert, Key, Content

\* The memory starts with nothing in any file.
LEMMA AppendInvInit == MemoryInit => AppendInv
BY FactsTypes
   DEF MemoryInit, AppendInv, MemoryTypeOK, FactsDurable, NoFile

\* Each await of appendFact, and a crash or a throw between any two, keeps it.
LEMMA AppendInvStep == AppendInv /\ [MemoryNext]_memoryVars => AppendInv'
<1> SUFFICES ASSUME AppendInv, [MemoryNext]_memoryVars PROVE AppendInv'
  OBVIOUS
<1> USE DEF AppendInv, MemoryTypeOK, FactsDurable
<1>1. CASE ReadFacts
  BY <1>1 DEF ReadFacts, ReadFile, File
<1>2. CASE BeginWrite
  BY <1>2, FactsTypes DEF BeginWrite, File
<1>3. CASE EndWrite
  <2>1. Head(pending) \in Fact
    BY <1>3 DEF EndWrite
  <2> QED BY <1>3, <2>1, FactsTypes DEF EndWrite, File
<1>4. CASE RenameTemp
  <2>1. Head(pending) \in Fact /\ Tail(pending) \in Seq(Fact)
    BY <1>4 DEF RenameTemp
  <2> QED BY <1>4, <2>1, FactsTypes DEF RenameTemp, File
<1>5. CASE DropAppends
  BY <1>5, FactsTypes DEF DropAppends
<1>6. CASE /\ stage = "idle" /\ pending = <<>> /\ pending' \in Seq(Fact)
           /\ UNCHANGED <<file, temp, stage, loaded, acked>>
  BY <1>6
<1>7. CASE UNCHANGED memoryVars
  BY <1>7 DEF memoryVars
<1> QED BY <1>1, <1>2, <1>3, <1>4, <1>5, <1>6, <1>7 DEF MemoryNext, AppendStep

----------------------------------------------------------------------------
\* A set of numbers that is not empty has its least (Array.find stops there).
LEMMA LeastOfSet ==
    ASSUME NEW S \in SUBSET Nat, S # {}
    PROVE  Min(S) \in S /\ \A j \in S : Min(S) <= j
<1> DEFINE Less == {ss \in Nat \X Nat : ss[1] < ss[2]}
<1>1. IsWellFoundedOn(Less, Nat)
  BY NatLessThanWellFounded, Zenon DEF OpToRel
<1> HIDE DEF Less
<1>2. PICK i \in S : \A j \in S : <<j, i>> \notin Less
  BY <1>1, WFMin
<1>3. \A j \in S : j < i => <<j, i>> \in Less
  BY DEF Less
<1>4. \A j \in S : i <= j
  <2> TAKE j \in S
  <2>1. i \in Nat /\ j \in Nat /\ ~(j < i)
    BY <1>2, <1>3
  <2> QED BY <2>1
<1> QED BY <1>4 DEF Min

\* Whatever policy a capability declares, at least one attempt is allowed.
LEMMA PolicyType ==
    ASSUME NEW t \in Tool
    PROVE  Policy(t) \in [retryable : BOOLEAN, maxAttempts : Nat \ {0}, retryOn : SUBSET Class]
<1>1. CASE t \in Capability
  <2>1. Declared[t] \in [retryable : BOOLEAN, max : Int, on : SUBSET Class]
    BY <1>1, RoutingAssumption
  <2> QED BY <1>1, <2>1 DEF Policy, Normalized, Class
<1>2. CASE t \notin Capability
  BY <1>2 DEF Policy, Once, Class
<1> QED BY <1>1, <1>2

ResultType == [ok : BOOLEAN, verified : Verdict, error : Error,
               class : Class \cup {"none"}, target : BOOLEAN, point : Point]

\* The record of an attempt is one (buildRoutingAttemptRecord).
LEMMA RecordedType ==
    ASSUME NEW h \in Seq(Attempt), NEW t \in Tool, NEW r \in ResultType
    PROVE  /\ Recorded(h, t, r) \in Seq(Attempt)
           /\ Outcome(r) \in {"succeeded", "failed", "verified_failed", "blocked"}
           /\ FailureClass(r) \in Class \cup {"none"}
<1>1. Outcome(r) \in {"succeeded", "failed", "verified_failed", "blocked"}
  BY DEF Outcome
<1>2. FailureClass(r) \in Class \cup {"none"}
  BY DEF FailureClass, ClassOf, Class, ResultType
<1>3. RecordExhausted(h, t, Outcome(r), FailureClass(r)) \in BOOLEAN
  BY DEF RecordExhausted
<1> QED BY <1>1, <1>2, <1>3 DEF Recorded, Attempt

\* A position found in a sequence of tools holds a tool.
LEMMA FoundIsTool ==
    ASSUME NEW s \in Seq(Tool \cup {NoTool}), NEW hits \in SUBSET DOMAIN s, hits # {}
    PROVE  s[Min(hits)] \in Tool \cup {NoTool}
<1>1. hits \subseteq Nat /\ DOMAIN s = 1..Len(s)
  OBVIOUS
<1> QED BY <1>1, LeastOfSet

\* The demo client calls a tool or none (generate).
LEMMA DemoAnswerType ==
    ASSUME NEW plan \in Plan, NEW h \in Seq(Attempt), NEW role, NEW at_
    PROVE  DemoAnswer(role, plan, h, at_) \in Tool \cup {NoTool}
<1>1. /\ plan.recommended \in Seq(Tool \cup {NoTool})
      /\ plan.fallback \in Seq(Tool \cup {NoTool})
      /\ FocusFirst \in Seq(Tool \cup {NoTool}) /\ ObserveFirst \in Seq(Tool \cup {NoTool})
  BY DemoAssumption DEF Plan
<1>2. NextAction(plan, h) \in Tool \cup {NoTool}
  BY <1>1, FoundIsTool DEF NextAction, Find
<1>3. ASSUME h # <<>>
      PROVE  <<RecoveryTool(plan, h, at_), SafeFallback(plan, h), BackupCapability(plan, h),
               FallbackTool(plan, h), SameTool(plan, h)>> \in Seq(Tool \cup {NoTool})
  <2>1. RecoveryTool(plan, h, at_) \in Tool \cup {NoTool}
    BY <1>1, FoundIsTool DEF RecoveryTool, Find
  <2>2. SafeFallback(plan, h) \in Tool \cup {NoTool}
    BY <1>1, FoundIsTool DEF SafeFallback, Find
  <2>3. BackupCapability(plan, h) \in Tool \cup {NoTool}
    BY <1>1, FoundIsTool DEF BackupCapability, Find
  <2>4. FallbackTool(plan, h) \in Tool \cup {NoTool}
    BY <1>1, FoundIsTool DEF FallbackTool, Find
  <2>5. SameTool(plan, h) \in Tool \cup {NoTool}
    <3>1. h[Len(h)] \in Attempt
      BY <1>3
    <3>2. h[Len(h)].tool \in Tool
      BY <3>1 DEF Attempt
    <3> QED BY <3>2 DEF SameTool, LastOfHistory
  <2> QED BY <2>1, <2>2, <2>3, <2>4, <2>5
<1>4. RecoveryAction(plan, h, at_) \in Tool \cup {NoTool}
  BY <1>3, FoundIsTool DEF RecoveryAction, Find
<1> QED BY <1>2, <1>4 DEF DemoAnswer

----------------------------------------------------------------------------
\* The facts that follow an attempt are facts (recordRoutingAttempt).
LEMMA FactsOfType ==
    ASSUME NEW r \in ResultType
    PROVE  FactsOf(r) \in Seq(Fact)
<1>1. Outcome(r) \in Content /\ r.point \in Content
  BY DEF Outcome, Content, ResultType, Point
<1>2. \A k \in Key, c \in Content : <<About(k, c)>> \in Seq(Fact)
  BY DEF About, Fact
<1>3. /\ <<About("last_attempt", Outcome(r))>> \in Seq(Fact)
      /\ <<About("current_target", "set")>> \in Seq(Fact)
      /\ <<About("recovery_point", r.point)>> \in Seq(Fact)
  BY <1>1, <1>2 DEF Key, Content
<1> QED BY <1>3 DEF FactsOf

\* What an answer of either client names.
LEMMA AnswersType ==
    ASSUME attempts \in Seq(Attempt)
    PROVE  Answers \subseteq Tool \cup {NoTool}
BY DemoAnswerType, TaskRoundsAssumption, RoutingAssumption DEF Answers

\* So are those that come with a summary.
LEMMA SummaryFactsTypes == SummaryFacts \cup {<<>>} \subseteq Seq(Fact)
<1>1. <<>> \in Seq(Fact)
  OBVIOUS
<1>2. SummaryFacts \subseteq Seq(Fact)
  BY TaskRoundsAssumption
<1> QED BY <1>1, <1>2

\* The engine uses its memory as it is meant to be used.
LEMMA TaskStepOfMemory ==
    ASSUME TaskTypeOK, [Next]_vars
    PROVE  [MemoryNext]_memoryVars
<1> USE DEF TaskTypeOK, MemoryTypeOK, MemoryNext
<1>1. CASE Submit
  <2>1. pending' \in Seq(Fact)
    BY <1>1 DEF Submit, About, Fact, Key, Content
  <2> QED BY <1>1, <2>1 DEF Submit
<1>2. CASE Assemble
  <2>1. ReadFile(file) \in Facts
    BY FactsTypes DEF ReadFile, File
  <2>2. ReadFile(file)["current_target"] \in Content
    BY <2>1 DEF Facts, Key
  <2>3. <<About("current_target", ReadFile(file)["current_target"])>> \in Seq(Fact)
    BY <2>2 DEF About, Fact, Key
  <2>4. pending' \in Seq(Fact)
    BY <1>2, <2>3 DEF Assemble
  <2> QED BY <1>2, <2>4 DEF Assemble
<1>3. CASE RunCall
  <2>1. pending' \in Seq(Fact)
    BY <1>3, FactsOfType, TaskRoundsAssumption DEF RunCall, ResultType
  <2> QED BY <1>3, <2>1 DEF RunCall
<1>4. CASE StoreStep \/ StoreFails \/ Crash
  BY <1>4 DEF StoreStep, StoreFails, Crash
<1>5. CASE CompactSession
  <2>1. stage = "idle" /\ pending = <<>> /\ UNCHANGED <<file, temp, stage, loaded, acked>>
    BY <1>5 DEF CompactSession, Compacted
  <2>2. pending' \in Seq(Fact)
    BY <1>5, <2>1, SummaryFactsTypes DEF CompactSession
  <2> QED BY <2>1, <2>2
<1>6. CASE \/ RecordTask \/ ReachMaxTurns \/ SelectMessages \/ CompactFull
           \/ ReceiveAnswer \/ RetryRequest \/ EndRound \/ RequestThrows \/ Restart
           \/ UNCHANGED vars
  BY <1>6 DEF RecordTask, ReachMaxTurns, SelectMessages, CompactFull,
     Compacted, ReceiveAnswer, RetryRequest, EndRound, RequestThrows, Restart, vars, memoryVars
<1> QED BY <1>1, <1>2, <1>3, <1>4, <1>5, <1>6 DEF Next, EngineStep

\* A compaction that succeeds, fails or does nothing leaves a count and a flag.
LEMMA CompactionTypes ==
    ASSUME failures \in Nat, paused \in BOOLEAN,
           MarkSuccess \/ MarkFailure \/ UNCHANGED <<failures, paused>>
    PROVE  failures' \in Nat /\ paused' \in BOOLEAN
<1>1. failures' \in Nat
  BY SMT DEF MarkSuccess, MarkFailure
<1>2. paused' \in BOOLEAN
  BY Zenon DEF MarkSuccess, MarkFailure
<1> QED BY <1>1, <1>2

\* The types of a task survive every step of the engine.
LEMMA TaskTypeStep ==
    ASSUME TaskTypeOK, AppendInv, [Next]_vars
    PROVE  TaskTypeOK'
<1>1. MemoryTypeOK'
  BY TaskStepOfMemory, AppendInvStep DEF AppendInv
<1> USE TaskRoundsAssumption DEF TaskTypeOK, Push, Role
<1>2. CASE Submit
  BY <1>1, <1>2 DEF Submit
<1>3. CASE RecordTask
  BY <1>1, <1>3 DEF RecordTask, memoryVars, Stored
<1>4. CASE ReachMaxTurns
  BY <1>1, <1>4 DEF ReachMaxTurns, memoryVars
<1>5. CASE Assemble
  <2>1. ReadFile(file) \in Facts
    BY FactsTypes DEF ReadFile, File, MemoryTypeOK
  <2>2. point' \in Content
    BY <1>5, <2>1 DEF Assemble, Facts, Key
  <2> QED BY <1>1, <1>5, <2>2 DEF Assemble
<1>6. CASE SelectMessages
  BY <1>1, <1>6 DEF SelectMessages, AfterMicro, memoryVars, Stored
<1>7. CASE CompactSession
  <2>1. failures' \in Nat /\ paused' \in BOOLEAN
    BY <1>7, CompactionTypes DEF CompactSession
  <2>2. at = "session" /\ at' \in {"ask", "full"} /\ Compacted
    BY <1>7 DEF CompactSession
  <2>3. pending' # <<>> => at' = "ask"
    BY <1>7 DEF CompactSession
  <2> QED BY <1>1, <2>1, <2>2, <2>3 DEF Compacted
<1>8. CASE CompactFull
  <2>1. failures' \in Nat /\ paused' \in BOOLEAN
    BY <1>8, CompactionTypes DEF CompactFull
  <2>2. at = "full" /\ at' = "ask" /\ Compacted
    BY <1>8 DEF CompactFull
  <2> QED BY <1>1, <2>1, <2>2 DEF Compacted
<1>9. CASE ReceiveAnswer
  BY <1>1, <1>9, AnswersType DEF ReceiveAnswer, Stored, Content, memoryVars
<1>10. CASE RetryRequest
  BY <1>1, <1>10 DEF RetryRequest, Stored, memoryVars
<1>11. CASE RequestThrows
  BY <1>1, <1>11 DEF RequestThrows, ThrowToCaller, Stored, Content, memoryVars
<1>12. CASE RunCall
  <2>1. attempts' \in Seq(Attempt)
    BY <1>12, RecordedType DEF RunCall, ResultType
  <2> QED BY <1>1, <1>12, <2>1 DEF RunCall
<1>13. CASE EndRound
  BY <1>1, <1>13 DEF EndRound, memoryVars, Stored
<1>14. CASE StoreStep
  <2>1. pending' # <<>> => pending # <<>>
    BY <1>14 DEF StoreStep, AppendStep, ReadFacts, BeginWrite, EndWrite, RenameTemp, MemoryTypeOK
  <2> QED BY <1>1, <1>14, <2>1 DEF StoreStep, taskVars
<1>15. CASE StoreFails
  BY <1>1, <1>15 DEF StoreFails, ThrowToCaller, DropAppends, Content
<1>16. CASE Crash
  <2>1. /\ crashes' \in 0..MaxCrashes /\ step' \in 0..MaxTurns /\ tries' \in 0..MaxRetries
        /\ tasks' \in 0..MaxTasks /\ failures' \in Nat
    BY <1>16 DEF Crash
  <2>2. pending' = <<>> /\ point' \in Content /\ paused' \in BOOLEAN
    BY <1>16 DEF Crash, DropAppends, Content
  <2>3. messages' \in Seq(Role) /\ attempts' \in Seq(Attempt)
    BY <1>16 DEF Crash
  <2> QED BY <1>1, <1>16, <2>1, <2>2, <2>3 DEF Crash
<1>17. CASE Restart
  BY <1>1, <1>17 DEF Restart, memoryVars
<1>18. CASE UNCHANGED vars
  BY <1>1, <1>18 DEF vars, taskVars, memoryVars
<1> QED BY <1>2, <1>3, <1>4, <1>5, <1>6, <1>7, <1>8, <1>9, <1>10, <1>11, <1>12, <1>13,
           <1>14, <1>15, <1>16, <1>17, <1>18 DEF Next, EngineStep

\* Every variable of a task but the messages of its request stays in its set.
THEOREM TaskTypesHold == Spec => [](TaskTypeOK /\ AppendInv)
<1>1. Init => TaskTypeOK /\ AppendInv
  <2> SUFFICES ASSUME Init PROVE TaskTypeOK /\ AppendInv
    OBVIOUS
  <2>1. AppendInv
    BY AppendInvInit DEF Init
  <2>2. tasks \in 0..MaxTasks /\ step \in 0..MaxTurns /\ tries \in 0..MaxRetries
        /\ crashes \in 0..MaxCrashes
    BY TaskRoundsAssumption DEF Init
  <2>3. point \in Content /\ messages \in Seq(Role) /\ attempts \in Seq(Attempt)
    BY DEF Init, Content
  <2>4. pending = <<>> /\ MemoryTypeOK
    BY <2>1 DEF Init, MemoryInit, AppendInv
  <2> QED BY <2>1, <2>2, <2>3, <2>4 DEF Init, TaskTypeOK
<1>2. TaskTypeOK /\ AppendInv /\ [Next]_vars => (TaskTypeOK /\ AppendInv)'
  BY TaskTypeStep, TaskStepOfMemory, AppendInvStep
<1> QED BY <1>1, <1>2, PTL DEF Spec

\* Whatever the engine has appended is found by the next process that starts, at
\* whichever await of an append the one before it went down (MemoryStore.ts).
THEOREM FactsDurableHolds == Spec => []FactsDurable
<1>1. AppendInv => FactsDurable
  BY DEF AppendInv
<1> QED BY <1>1, TaskTypesHold, PTL

----------------------------------------------------------------------------
\* The attempts with a tool that count as failures are finitely many.
LEMMA FailuresAreFinite ==
    ASSUME NEW h \in Seq(Attempt), NEW t \in Tool
    PROVE  /\ Failures(h, t) \subseteq 1..Len(h) /\ IsFiniteSet(Failures(h, t))
           /\ Cardinality(Failures(h, t)) \in Nat
<1>1. Failures(h, t) \subseteq 1..Len(h)
  BY DEF Failures, Of
<1>2. IsFiniteSet(1..Len(h))
  BY FS_Interval
<1>3. IsFiniteSet(Failures(h, t))
  BY <1>1, <1>2, FS_Subset
<1> QED BY <1>1, <1>3, FS_CardinalityType

\* Recording an attempt (buildRoutingAttemptRecord) counts it the way the history that
\* ends with it is counted (isToolExhausted).
LEMMA RecordAgrees ==
    ASSUME NEW h \in Seq(Attempt), NEW t \in Tool, NEW r \in ResultType,
           NEW g, g = Recorded(h, t, r)
    PROVE  /\ g \in Seq(Attempt) /\ Len(g) = Len(h) + 1 /\ g[Len(g)].tool = t
           /\ g[Len(g)].exhausted <=> IsToolExhausted(g, t)
<1> DEFINE n == Len(h) + 1
           failing == Outcome(r) # "succeeded" /\ MatchesRetryOn(t, FailureClass(r))
<1>1. /\ g \in Seq(Attempt) /\ Len(g) = n
      /\ \A i \in 1..Len(h) : g[i] = h[i]
      /\ g[n] = [tool |-> t, outcome |-> Outcome(r), class |-> FailureClass(r),
                 exhausted |-> RecordExhausted(h, t, Outcome(r), FailureClass(r))]
  BY RecordedType DEF Recorded
<1>2. /\ g[n].tool = t /\ g[n].outcome = Outcome(r) /\ g[n].class = FailureClass(r)
      /\ g[n].exhausted = RecordExhausted(h, t, Outcome(r), FailureClass(r))
  BY <1>1
<1>3. Of(g, t) = Of(h, t) \cup {n}
  BY <1>1, <1>2 DEF Of
<1>4. Failures(g, t) = IF failing THEN Failures(h, t) \cup {n} ELSE Failures(h, t)
  <2>1. \A i \in Of(h, t) : g[i] = h[i] /\ i # n
    BY <1>1 DEF Of
  <2> QED BY <1>2, <1>3, <2>1 DEF Failures
<1>5. Cardinality(Failures(g, t)) = Cardinality(Failures(h, t)) + (IF failing THEN 1 ELSE 0)
  <2>1. n \notin Failures(h, t)
    BY FailuresAreFinite
  <2>2. Cardinality(Failures(h, t) \cup {n}) = Cardinality(Failures(h, t)) + 1
    BY <2>1, FailuresAreFinite, FS_AddElement
  <2> QED BY <1>4, <2>2, FailuresAreFinite
<1>6. \A last \in Of(g, t) : (\A i \in Of(g, t) : i <= last) <=> last = n
  BY <1>3 DEF Of
<1>7. IsToolExhausted(g, t) <=>
        /\ Outcome(r) # "succeeded"
        /\ \/ Outcome(r) = "blocked"
           \/ ~MatchesRetryOn(t, FailureClass(r))
           \/ Cardinality(Failures(g, t)) >= Policy(t).maxAttempts
  BY <1>2, <1>3, <1>6 DEF IsToolExhausted
<1>8. RecordExhausted(h, t, Outcome(r), FailureClass(r)) <=>
        /\ Outcome(r) # "succeeded"
        /\ \/ Outcome(r) = "blocked"
           \/ ~MatchesRetryOn(t, FailureClass(r))
           \/ Cardinality(Failures(g, t)) >= Policy(t).maxAttempts
  BY <1>5 DEF RecordExhausted
<1> QED BY <1>1, <1>2, <1>7, <1>8

\* Whatever a task has tried, in whatever order and with whatever results, the record
\* of an attempt and the history agree on whether its tool may be tried again.
THEOREM ExhaustionAgreesHolds == Spec => []ExhaustionAgrees
<1>1. Init => ExhaustionAgrees
  BY DEF Init, ExhaustionAgrees
<1>2. TaskTypeOK /\ ExhaustionAgrees /\ [Next]_vars => ExhaustionAgrees'
  <2> SUFFICES ASSUME TaskTypeOK, ExhaustionAgrees, [Next]_vars PROVE ExhaustionAgrees'
    OBVIOUS
  <2>1. CASE RunCall
    <3>1. PICK r \in Result : attempts' = Recorded(attempts, call, r)
      BY <2>1 DEF RunCall
    <3>2. attempts \in Seq(Attempt) /\ call \in Tool /\ r \in ResultType
      BY <2>1, TaskRoundsAssumption DEF RunCall, TaskTypeOK, ResultType
    <3>3. attempts'[Len(attempts')].tool \in Tool
      BY <3>1, <3>2, RecordAgrees
    <3> QED BY <3>1, <3>2, <3>3, RecordAgrees DEF ExhaustionAgrees, ExhaustedTools
  <2>2. CASE Submit \/ Crash
    BY <2>2 DEF Submit, Crash, ExhaustionAgrees
  <2>3. CASE UNCHANGED attempts
    BY <2>3 DEF ExhaustionAgrees
  <2>4. [Next]_vars => RunCall \/ Submit \/ Crash \/ UNCHANGED attempts
    BY DEF Next, EngineStep, vars, taskVars, RecordTask, ReachMaxTurns, Assemble,
       SelectMessages, CompactSession, CompactFull, Compacted, ReceiveAnswer, RetryRequest,
       RequestThrows, ThrowToCaller, EndRound, StoreStep, StoreFails, Restart
  <2> QED BY <2>1, <2>2, <2>3, <2>4
<1> QED BY <1>1, <1>2, TaskTypesHold, PTL DEF Spec

----------------------------------------------------------------------------
\* The messages end with this role.
EndsWith(ms, role) == ms # <<>> /\ ms[Len(ms)] = role

\* Nothing to ask without, and after an attempt its result comes last: in the history
\* of the task, and in what recency and compaction have left of it in the request.
LastInv ==
    /\ at = "submitted" => attempts = <<>>
    /\ at \in {"round", "assembled", "session", "full", "recorded"} =>
         /\ messages # <<>>
         /\ attempts # <<>> => EndsWith(messages, "tool") /\ (step > 0 \/ at = "recorded")
    /\ sent \in Seq(Role)
    /\ at \in {"session", "full", "ask"} =>
         /\ sent # <<>>
         /\ attempts # <<>> => EndsWith(sent, "tool")

\* The last message survives every cut from the front.
LEMMA LastOfEnd ==
    ASSUME NEW ms \in Seq(Role), ms # <<>>, NEW n \in Nat \ {0}
    PROVE  /\ LastOf(ms, n) \in Seq(Role) /\ LastOf(ms, n) # <<>>
           /\ LastOf(ms, n)[Len(LastOf(ms, n))] = ms[Len(ms)]
<1>1. Len(ms) \in Nat /\ Len(ms) >= 1
  OBVIOUS
<1>2. CASE Len(ms) <= n
  BY <1>1, <1>2, Zenon DEF LastOf
<1>3. CASE ~(Len(ms) <= n)
  <2>1. LastOf(ms, n) = SubSeq(ms, Len(ms) - n + 1, Len(ms))
    BY <1>3, Zenon DEF LastOf
  <2>2. Len(ms) - n + 1 \in 1..Len(ms)
    BY <1>1, <1>3
  <2> DEFINE cut == SubSeq(ms, Len(ms) - n + 1, Len(ms))
  <2>3. cut \in Seq(Role) /\ Len(cut) = n /\ cut[n] = ms[Len(ms)]
    BY <1>1, <2>2
  <2>4. cut # <<>>
    BY <2>3
  <2> QED BY <2>1, <2>3, <2>4
<1> QED BY <1>2, <1>3

\* What is spoken is of the messages, and a tool result at the end of them ends it.
LEMMA SpokenEnd ==
    ASSUME NEW ms \in Seq(Role)
    PROVE  /\ Spoken(ms) \in Seq(Role)
           /\ EndsWith(ms, "tool") => EndsWith(Spoken(ms), "tool")
<1> DEFINE S == Role \ {"system"}
<1>1. Only(ms, S) \in Seq(Role)
  BY OnlySelects
<1>2. ASSUME EndsWith(ms, "tool") PROVE EndsWith(Only(ms, S), "tool")
  <2>1. Len(ms) \in Nat /\ Len(ms) >= 1 /\ ms[Len(ms)] = "tool"
    BY <1>2 DEF EndsWith
  <2>2. "tool" \in S
    BY DEF Role
  <2> DEFINE b == Len(ms) - 1
  <2>3. b \in 0..Len(ms) /\ \A i \in (b + 1)..Len(ms) : ms[i] \in S
    BY <2>1, <2>2
  <2> DEFINE t == Only(ms, S)
  <2>4. /\ Len(t) >= Len(ms) - b
        /\ \A k \in 0..(Len(ms) - b - 1) : t[Len(t) - k] = ms[Len(ms) - k]
    <3> HIDE DEF S, b
    <3> QED BY <2>3, OnlyEnd
  <2>5. Len(ms) - b = 1 /\ 0 \in 0..(Len(ms) - b - 1)
    BY <2>1
  <2>6. Len(t) >= 1 /\ t[Len(t) - 0] = ms[Len(ms) - 0]
    BY <2>4, <2>5
  <2> HIDE DEF t, S
  <2>7. Len(t) \in Nat
    BY <1>1 DEF t
  <2>8. t # <<>> /\ t[Len(t)] = "tool"
    BY <1>1, <2>1, <2>6, <2>7
  <2> QED BY <2>8 DEF t, EndsWith
<1> QED BY <1>1, <1>2 DEF Spoken

\* The recent messages (buildRecentContextWindow): never none of some, and they end
\* with the tool result that the messages end with.
LEMMA RecentEnd ==
    ASSUME NEW ms \in Seq(Role), ms # <<>>
    PROVE  /\ Recent(ms) \in Seq(Role) /\ Recent(ms) # <<>>
           /\ EndsWith(ms, "tool") => EndsWith(Recent(ms), "tool")
<1> DEFINE spoken == Spoken(ms)
<1>1. spoken \in Seq(Role) /\ (EndsWith(ms, "tool") => EndsWith(spoken, "tool"))
  BY SpokenEnd
<1> HIDE DEF spoken
<1>2. MaxContext \in Nat \ {0} /\ MaxContext + 1 \in Nat \ {0}
  BY CompactionAssumption
<1>3. CASE Len(spoken) <= MaxContext
  BY <1>3, Zenon DEF Recent, spoken
<1>4. CASE ~(Len(spoken) <= MaxContext)
  <2>1. spoken # <<>>
    BY <1>1, <1>2, <1>4
  <2>2. Recent(ms) = LastOf(spoken, MaxContext + 1) \/ Recent(ms) = LastOf(spoken, MaxContext)
    BY <1>4, Zenon DEF Recent, spoken
  <2>3. \A n \in {MaxContext, MaxContext + 1} :
          /\ LastOf(spoken, n) \in Seq(Role) /\ LastOf(spoken, n) # <<>>
          /\ LastOf(spoken, n)[Len(LastOf(spoken, n))] = spoken[Len(spoken)]
    BY <1>1, <1>2, <2>1, LastOfEnd
  <2> QED BY <1>1, <2>2, <2>3 DEF EndsWith
<1> QED BY <1>3, <1>4

\* A summary in front of something leaves its end.
LEMMA SummaryEnd ==
    ASSUME NEW ms \in Seq(Role)
    PROVE  /\ <<"system">> \o ms \in Seq(Role) /\ <<"system">> \o ms # <<>>
           /\ EndsWith(ms, "tool") => EndsWith(<<"system">> \o ms, "tool")
<1> DEFINE t == <<"system">> \o ms
<1>1. t \in Seq(Role) /\ Len(t) = Len(ms) + 1 /\ \A i \in 1..Len(ms) : t[i + 1] = ms[i]
  BY DEF Role
<1>2. Len(ms) \in Nat /\ (ms # <<>> => Len(ms) >= 1)
  OBVIOUS
<1> HIDE DEF t
<1>3. t # <<>>
  BY <1>1, <1>2
<1>4. ASSUME EndsWith(ms, "tool") PROVE t[Len(t)] = "tool"
  BY <1>1, <1>2, <1>4 DEF EndsWith
<1> QED BY <1>1, <1>3, <1>4 DEF t, EndsWith

\* Neither compaction takes the last message away (applySessionMemoryCompact,
\* applyFullCompact, collectRecentConversationTail).
LEMMA CompactionEnd ==
    ASSUME NEW ms \in Seq(Role), ms # <<>>
    PROVE  /\ SessionSummary(ms) \in Seq(Role) /\ SessionSummary(ms) # <<>>
           /\ FullSummary(ms) \in Seq(Role) /\ FullSummary(ms) # <<>>
           /\ ConversationTail(ms) \in Seq(Role)
           /\ EndsWith(ms, "tool") =>
                /\ EndsWith(SessionSummary(ms), "tool") /\ EndsWith(FullSummary(ms), "tool")
                /\ EndsWith(ConversationTail(ms), "tool")
<1>1. MinSession \in Nat \ {0} /\ TailLength \in Nat \ {0}
  BY CompactionAssumption
<1>2. /\ LastOf(ms, MinSession) \in Seq(Role)
      /\ EndsWith(ms, "tool") => EndsWith(LastOf(ms, MinSession), "tool")
  BY <1>1, LastOfEnd DEF EndsWith
<1>3. Spoken(ms) \in Seq(Role) /\ (EndsWith(ms, "tool") => EndsWith(Spoken(ms), "tool"))
  BY SpokenEnd
<1>4. /\ ConversationTail(ms) \in Seq(Role)
      /\ EndsWith(ms, "tool") => EndsWith(ConversationTail(ms), "tool")
  <2>1. CASE Spoken(ms) = <<>>
    <3>1. Len(Spoken(ms)) <= TailLength
      BY <1>1, <2>1
    <3>2. LastOf(Spoken(ms), TailLength) = Spoken(ms)
      BY <3>1, Zenon DEF LastOf
    <3> QED BY <1>3, <3>2 DEF ConversationTail
  <2>2. CASE Spoken(ms) # <<>>
    BY <1>1, <1>3, <2>2, LastOfEnd DEF ConversationTail, EndsWith
  <2> QED BY <2>1, <2>2
<1> QED BY <1>2, <1>4, SummaryEnd DEF SessionSummary, FullSummary

----------------------------------------------------------------------------
\* What is found in a sequence is what all that is looked for is, or nothing.
LEMMA FoundIn ==
    ASSUME NEW s \in Seq(Tool \cup {NoTool}), NEW hits \in SUBSET DOMAIN s, NEW Good,
           \A i \in hits : s[i] \in Good
    PROVE  (IF hits = {} THEN NoTool ELSE s[Min(hits)]) \in Good \cup {NoTool}
<1>1. hits \subseteq Nat
  OBVIOUS
<1>2. CASE hits # {}
  BY <1>1, <1>2, LeastOfSet
<1> QED BY <1>2

\* Before any attempt no tool is used up, and after one only the tool of that one.
LEMMA OneAttempt ==
    ASSUME NEW h \in Seq(Attempt), NEW t \in ExhaustedTools(h), Len(h) <= 1
    PROVE  Len(h) = 1 /\ t = h[1].tool
<1> DEFINE n == Len(h)
<1>1. PICK i \in 1..n : h[i].tool = t
  BY DEF ExhaustedTools, IsToolExhausted, Of
<1>2. n \in Nat /\ n <= 1
  OBVIOUS
<1> HIDE DEF n
<1>3. i \in 1..n /\ i = 1 /\ n = 1
  BY <1>2
<1> QED BY <1>1, <1>3 DEF n

\* The client's next action (selectNextActionFromRoutingPlan) is a tool not used up.
LEMMA NextActionLeaves ==
    ASSUME NEW plan \in Plan, NEW h \in Seq(Attempt)
    PROVE  NextAction(plan, h) \in (Tool \ ExhaustedTools(h)) \cup {NoTool}
<1> DEFINE usable(t) == t \notin ExhaustedTools(h) /\ t \in plan.preparable
           good == Tool \ ExhaustedTools(h)
<1>1. /\ plan.recommended \in Seq(Tool \cup {NoTool})
      /\ plan.fallback \in Seq(Tool \cup {NoTool})
      /\ plan.preparable \subseteq Tool
  BY DEF Plan
<1>2. ASSUME NEW s \in Seq(Tool \cup {NoTool}) PROVE Find(s, usable) \in good \cup {NoTool}
  <2> DEFINE hits == {i \in DOMAIN s : usable(s[i])}
  <2>1. \A i \in hits : s[i] \in good
    BY <1>1
  <2>2. (IF hits = {} THEN NoTool ELSE s[Min(hits)]) \in good \cup {NoTool}
    <3> HIDE DEF good
    <3> QED BY <2>1, FoundIn
  <2> QED BY <2>2 DEF Find
<1>3. /\ Find(plan.fallback, usable) \in good \cup {NoTool}
      /\ Find(plan.recommended, usable) \in good \cup {NoTool}
  BY <1>1, <1>2
<1> QED BY <1>3 DEF NextAction

\* So is what it recovers with (selectRecoveryActionFromRoutingState): the tool of the
\* failed attempt only when its record leaves it another, and any other tool has not
\* been tried.
LEMMA RecoveryLeaves ==
    ASSUME NEW plan \in Plan, NEW h \in Seq(Attempt), NEW p, Len(h) = 1,
           h[1].exhausted <=> h[1].tool \in ExhaustedTools(h)
    PROVE  RecoveryAction(plan, h, p) \in (Tool \ ExhaustedTools(h)) \cup {NoTool}
<1> DEFINE good == Tool \ ExhaustedTools(h)
<1>1. /\ plan.recommended \in Seq(Tool \cup {NoTool})
      /\ plan.fallback \in Seq(Tool \cup {NoTool})
      /\ plan.catalogue \subseteq Tool /\ plan.preparable \subseteq Tool
      /\ FocusFirst \in Seq(Tool \cup {NoTool}) /\ ObserveFirst \in Seq(Tool \cup {NoTool})
  BY DemoAssumption DEF Plan
<1>2. LastOfHistory(h) = h[1]
  BY DEF LastOfHistory
<1>3. RecoveryTool(plan, h, p) \in good \cup {NoTool}
  <2> DEFINE another(t) == t # LastOfHistory(h).tool /\ t \in plan.catalogue
             s == IF p = "observe" THEN ObserveFirst ELSE FocusFirst
             hits == {i \in DOMAIN s : another(s[i])}
  <2>1. s \in Seq(Tool \cup {NoTool})
    BY <1>1
  <2>2. \A t \in Tool : t # LastOfHistory(h).tool => t \in good
    <3>1. Len(h) <= 1
      OBVIOUS
    <3> QED BY <1>2, <3>1, OneAttempt, Zenon
  <2>3. \A i \in hits : s[i] \in good
    BY <1>1, <2>2
  <2>4. (IF hits = {} THEN NoTool ELSE s[Min(hits)]) \in good \cup {NoTool}
    <3> HIDE DEF good, s
    <3> QED BY <2>1, <2>3, FoundIn
  <2>5. Find(s, another) \in good \cup {NoTool}
    BY <2>4 DEF Find
  <2> HIDE DEF good
  <2> QED BY <2>5 DEF RecoveryTool
<1>4. \A t : Ready(plan, h, t) => t \in good
  BY <1>1 DEF Ready
<1> HIDE DEF good
<1>5. SafeFallback(plan, h) \in good \cup {NoTool}
  <2> DEFINE s == plan.fallback
             hits == {i \in DOMAIN s : Ready(plan, h, s[i]) /\ Safe(s[i])}
  <2>1. (IF hits = {} THEN NoTool ELSE s[Min(hits)]) \in good \cup {NoTool}
    BY <1>1, <1>4, FoundIn
  <2> QED BY <2>1 DEF SafeFallback, Find
<1>6. BackupCapability(plan, h) \in good \cup {NoTool}
  <2> DEFINE backup(t) == /\ Ready(plan, h, t) /\ t \in plan.near
                          /\ LastOfHistory(h).outcome = "blocked" => Safe(t)
             s == plan.recommended
             hits == {i \in DOMAIN s : backup(s[i])}
  <2>1. (IF hits = {} THEN NoTool ELSE s[Min(hits)]) \in good \cup {NoTool}
    BY <1>1, <1>4, FoundIn
  <2> QED BY <2>1 DEF BackupCapability, Find
<1>7. FallbackTool(plan, h) \in good \cup {NoTool}
  <2> DEFINE s == plan.fallback
             hits == {i \in DOMAIN s : Ready(plan, h, s[i])}
  <2>1. (IF hits = {} THEN NoTool ELSE s[Min(hits)]) \in good \cup {NoTool}
    BY <1>1, <1>4, FoundIn
  <2> QED BY <2>1 DEF FallbackTool, Find
<1>8. SameTool(plan, h) \in good \cup {NoTool}
  <2>1. h[1] \in Attempt
    OBVIOUS
  <2>2. h[1].tool \in Tool
    BY <2>1 DEF Attempt
  <2> QED BY <1>2, <2>2 DEF SameTool, good
<1>9. RecoveryAction(plan, h, p) \in good \cup {NoTool}
  <2> DEFINE s == <<RecoveryTool(plan, h, p), SafeFallback(plan, h),
                    BackupCapability(plan, h), FallbackTool(plan, h), SameTool(plan, h)>>
             hits == {i \in DOMAIN s : s[i] # NoTool}
  <2>1. \A i \in DOMAIN s : s[i] \in good \cup {NoTool}
    BY <1>3, <1>5, <1>6, <1>7, <1>8
  <2>2. s \in Seq(Tool \cup {NoTool})
    BY <1>3, <1>5, <1>6, <1>7, <1>8 DEF good
  <2> HIDE DEF s
  <2>3. (IF hits = {} THEN NoTool ELSE s[Min(hits)]) \in good \cup {NoTool}
    BY <2>1, <2>2, FoundIn
  <2> QED BY <2>3 DEF RecoveryAction, Find, s
<1> QED BY <1>9 DEF good

\* What the demo client calls, when the messages it is shown end with the result of an
\* attempt if there was one, is not used up, and no attempt was made but one.
LEMMA DemoAnswerLeaves ==
    ASSUME NEW plan \in Plan, NEW h \in Seq(Attempt), NEW role, NEW p,
           h # <<>> => role = "tool",
           h # <<>> => (h[Len(h)].exhausted <=> h[Len(h)].tool \in ExhaustedTools(h)),
           DemoAnswer(role, plan, h, p) # NoTool
    PROVE  DemoAnswer(role, plan, h, p) \notin ExhaustedTools(h) /\ Len(h) <= 1
<1>1. CASE h = <<>>
  <2>1. Len(h) = 0
    BY <1>1
  <2>2. \A t : t \notin ExhaustedTools(h)
    <3>1. Len(h) <= 1 /\ Len(h) # 1
      BY <2>1
    <3> QED BY <3>1, OneAttempt, Zenon
  <2> QED BY <2>1, <2>2
<1>2. CASE h # <<>>
  <2>1. Len(h) = 1 /\ DemoAnswer(role, plan, h, p) = RecoveryAction(plan, h, p)
    BY <1>2 DEF DemoAnswer
  <2>2. RecoveryAction(plan, h, p) \in (Tool \ ExhaustedTools(h)) \cup {NoTool}
    BY <1>2, <2>1, RecoveryLeaves
  <2> QED BY <2>1, <2>2
<1> QED BY <1>1, <1>2

----------------------------------------------------------------------------
\* Pushing a message leaves messages that end with it.
LEMMA PushEnd ==
    ASSUME NEW ms \in Seq(Role), NEW role \in Role
    PROVE  /\ Append(ms, role) \in Seq(Role) /\ Append(ms, role) # <<>>
           /\ Append(ms, role)[Len(Append(ms, role))] = role
OBVIOUS

\* Every step leaves the last message of a task and of its request what they have to be.
LEMMA LastStep ==
    ASSUME TaskTypeOK, LastInv, [Next]_vars
    PROVE  LastInv'
<1> USE DEF LastInv
<1>1. messages \in Seq(Role) /\ attempts \in Seq(Attempt) /\ step \in Nat
  BY TaskRoundsAssumption DEF TaskTypeOK
<1>2. CASE Submit
  BY <1>2 DEF Submit
<1>3. CASE RecordTask
  <2>1. messages' # <<>>
    BY <1>1, <1>3, PushEnd DEF RecordTask, Push, Role
  <2> QED BY <1>3, <2>1 DEF RecordTask
<1>4. CASE Assemble
  BY <1>4 DEF Assemble
<1>5. CASE SelectMessages
  <2>1. messages' \in Seq(Role) /\ messages' # <<>>
    BY <1>1, <1>5, PushEnd DEF SelectMessages, Role
  <2>2. attempts # <<>> => EndsWith(messages', "tool")
    BY <1>1, <1>5 DEF SelectMessages
  <2>3. /\ sent' \in Seq(Role) /\ sent' # <<>>
        /\ EndsWith(messages', "tool") => EndsWith(sent', "tool")
    BY <1>5, <2>1, RecentEnd DEF SelectMessages
  <2>4. attempts' = attempts /\ step' = step /\ at' \in {"ask", "session"}
    BY <1>5 DEF SelectMessages, AfterMicro
  <2>5. attempts # <<>> => step > 0
    BY <1>5 DEF SelectMessages
  <2> QED BY <2>1, <2>2, <2>3, <2>4, <2>5
<1>6. CASE CompactSession
  <2>1. at = "session" /\ at' \in {"ask", "full"} /\ UNCHANGED <<messages, attempts, step>>
    BY <1>6 DEF CompactSession, Compacted
  <2>2. sent' = sent \/ sent' = SessionSummary(sent)
    BY <1>6 DEF CompactSession
  <2>3. /\ sent' \in Seq(Role) /\ sent' # <<>>
        /\ EndsWith(sent, "tool") => EndsWith(sent', "tool")
    BY <2>1, <2>2, CompactionEnd
  <2> QED BY <2>1, <2>3
<1>7. CASE CompactFull
  <2>1. at = "full" /\ at' = "ask" /\ UNCHANGED <<messages, attempts, step>>
    BY <1>7 DEF CompactFull, Compacted
  <2> DEFINE recent == Recent(messages)
  <2>2. \/ sent' = FullSummary(recent)
        \/ sent' = ConversationTail(recent) /\ ConversationTail(recent) # <<>>
        \/ sent' = recent
    BY <1>7 DEF CompactFull
  <2>3. /\ recent \in Seq(Role) /\ recent # <<>>
        /\ EndsWith(messages, "tool") => EndsWith(recent, "tool")
    BY <1>1, <2>1, RecentEnd
  <2> HIDE DEF recent
  <2>4. /\ sent' \in Seq(Role) /\ sent' # <<>>
        /\ EndsWith(recent, "tool") => EndsWith(sent', "tool")
    BY <2>2, <2>3, CompactionEnd
  <2> QED BY <2>1, <2>3, <2>4
<1>8. CASE ReceiveAnswer
  BY <1>8 DEF ReceiveAnswer
<1>9. CASE RunCall
  <2>1. messages' # <<>> /\ EndsWith(messages', "tool")
    BY <1>1, <1>9, PushEnd DEF RunCall, Push, EndsWith, Role
  <2> QED BY <1>9, <2>1 DEF RunCall
<1>10. CASE EndRound
  BY <1>1, <1>10 DEF EndRound
<1>11. CASE Crash
  BY <1>11 DEF Crash
<1>12. CASE ReachMaxTurns \/ RequestThrows \/ StoreFails \/ Restart
  <2>1. at' = "idle"
    BY <1>12 DEF ReachMaxTurns, RequestThrows, StoreFails, ThrowToCaller, Restart
  <2>2. sent' = sent \/ sent' = <<>>
    BY <1>12 DEF ReachMaxTurns, RequestThrows, StoreFails, ThrowToCaller, Restart
  <2>3. <<>> \in Seq(Role)
    OBVIOUS
  <2>4. sent' \in Seq(Role)
    BY <2>2, <2>3
  <2> QED BY <2>1, <2>4
<1>13. CASE RetryRequest \/ StoreStep \/ UNCHANGED vars
  BY <1>13 DEF RetryRequest, StoreStep, vars, taskVars, EndsWith
<1> QED BY <1>2, <1>3, <1>4, <1>5, <1>6, <1>7, <1>8, <1>9, <1>10, <1>11, <1>12, <1>13
        DEF Next, EngineStep

\* Only an answer of the client starts a call.
LEMMA ChoiceStep ==
    ASSUME TaskTypeOK, ExhaustionAgrees, LastInv, ExhaustedLeftAlone, [Next]_vars
    PROVE  ExhaustedLeftAlone'
<1>1. CASE ReceiveAnswer
  <2> SUFFICES ASSUME at' = "call", client' = "demo"
               PROVE  (call \notin ExhaustedTools(attempts) /\ Len(attempts) <= 1)'
    BY DEF ExhaustedLeftAlone
  <2>1. client = "demo" /\ attempts' = attempts /\ call' # NoTool
    BY <1>1 DEF ReceiveAnswer
  <2>2. PICK p \in Plans : call' = DemoAnswer(sent[Len(sent)], p, attempts, point)
    BY <1>1, <2>1 DEF ReceiveAnswer, Answers
  <2>3. p \in Plan /\ attempts \in Seq(Attempt)
    BY TaskRoundsAssumption DEF TaskTypeOK
  <2>4. attempts # <<>> => sent[Len(sent)] = "tool"
    BY <1>1 DEF ReceiveAnswer, LastInv, EndsWith
  <2>5. attempts # <<>> =>
          (attempts[Len(attempts)].exhausted
             <=> attempts[Len(attempts)].tool \in ExhaustedTools(attempts))
    BY DEF ExhaustionAgrees
  <2>6. call' \notin ExhaustedTools(attempts) /\ Len(attempts) <= 1
    BY <2>1, <2>2, <2>3, <2>4, <2>5, DemoAnswerLeaves
  <2> QED BY <2>1, <2>6
<1>2. CASE UNCHANGED <<at, client, call, attempts>>
  BY <1>2 DEF ExhaustedLeftAlone
<1>3. [Next]_vars => ReceiveAnswer \/ at' # "call" \/ UNCHANGED <<at, client, call, attempts>>
  BY DEF Next, EngineStep, vars, taskVars, RecordTask, ReachMaxTurns, Assemble,
     SelectMessages, AfterMicro, CompactSession, CompactFull, RetryRequest, RunCall,
     RequestThrows, ThrowToCaller, EndRound, StoreStep, StoreFails, Restart, Submit, Crash
<1>4. at' # "call" => ExhaustedLeftAlone'
  BY DEF ExhaustedLeftAlone
<1> QED BY <1>1, <1>2, <1>3, <1>4

\* The result of the last attempt is what the history of a task ends with, and what any
\* cut and any summary of it ends with.
THEOREM LastInvHolds == Spec => []LastInv
<1>1. Init => LastInv
  BY DEF Init, LastInv
<1>2. TaskTypeOK /\ LastInv /\ [Next]_vars => LastInv'
  BY LastStep
<1> QED BY <1>1, <1>2, TaskTypesHold, PTL DEF Spec

\* Every variable of a task stays in its set, and no request is sent without a message,
\* whatever is cut off the history and however its compactions come out
\* (submitUserMessage, buildRecentContextWindow, compact).
THEOREM RoundTypesHold == Spec => []RoundTypeOK
<1>1. TaskTypeOK /\ LastInv => RoundTypeOK
  BY DEF LastInv, RoundTypeOK
<1> QED BY <1>1, TaskTypesHold, LastInvHolds, PTL

\* Whatever plans come up, the demo client calls no tool that the task has used up, and
\* nothing after a second attempt (generate, selectNextActionFromRoutingPlan,
\* selectRecoveryActionFromRoutingState).
THEOREM ExhaustedLeftAloneHolds == Spec => []ExhaustedLeftAlone
<1>1. Init => ExhaustedLeftAlone
  BY DEF Init, ExhaustedLeftAlone
<1>2. /\ TaskTypeOK /\ ExhaustionAgrees /\ LastInv /\ ExhaustedLeftAlone /\ [Next]_vars
      => ExhaustedLeftAlone'
  BY ChoiceStep
<1> QED BY <1>1, <1>2, TaskTypesHold, ExhaustionAgreesHolds, LastInvHolds, PTL DEF Spec
=============================================================================
