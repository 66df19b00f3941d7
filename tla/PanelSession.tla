---------------------------- MODULE PanelSession ----------------------------
(***************************************************************************)
(* One session of the web panel: its SessionRecord in the sessions map, the *)
(* requests that read and write it, and the task runs it starts             *)
(* (apps/web-panel/sessionOrchestration.ts, sessionControlFlow.ts,          *)
(* permissionPrompt.ts, taskDecisionFlow.ts, templateLaunchFlow.ts).        *)
(*                                                                          *)
(* Node runs one handler at a time, so everything between two awaits is one *)
(* action.  A handler that holds a record across an await (startTask,       *)
(* refreshSessionState) is a request of a Client with the record it has     *)
(* seen; a record may be replaced in the map meanwhile, so records live in  *)
(* a heap and the map holds the place of the current one, 0 for none.       *)
(* Awaits after which the record is read afresh are not visible.            *)
(*                                                                          *)
(* createCliApp hands its executionSignal to nobody (apps/cli/cliApp.ts),   *)
(* so stopping aborts a controller that the run does not listen to.         *)
(* Definitions named Broken... are faulty variants for mutation testing.    *)
(***************************************************************************)
EXTENDS Integers, Sequences, TaskDecision

CONSTANTS
    Client,      \* bound: requests that are held at an await at the same time
    FirstClient, \* bound: the same while the session has no record yet, which the
                 \* default session has from createWebPanelRuntime
    MaxRuns,     \* bound: task runs started
    Texts        \* bound: the texts that are submitted, as TaskDecision sees them

ASSUME PanelAssumption ==
    /\ MaxRuns \in Nat \ {0} /\ IsFiniteSet(Client)
    /\ FirstClient \subseteq Client /\ \A c, d \in FirstClient : c = d

VARIABLES
    heap,     \* the SessionRecords made so far
    current,  \* sessions.get(sessionId), 0 for undefined
    run,      \* for each task run how far it is and the record it holds
    aborted,  \* runs that go on although their AbortController has fired
    request   \* for each Client the handler it has at an await

vars == <<heap, current, run, aborted, request>>
-----------------------------------------------------------------------------
Run == 1..MaxRuns
NoRun == 0
Views == {"quiet", "executing", "stopped", "finished"}

(* What a SessionRecord and its state say.  The quiet views are home, the   *)
(* decision card, the confirmation of a launch and the failure result.      *)
(* Left out: texts, isRunning and the flags that go with it, which no       *)
(* handler reads.                                                           *)
Record == [view : Views, currentRun : 0..MaxRuns, controller : 0..MaxRuns,
           pendingPermission : 0..MaxRuns, promptShown : BOOLEAN,
           pendingLaunch : BOOLEAN, pendingDecision : {"none", "execute", "dismiss"}]

EmptyRecord == [view |-> "quiet", currentRun |-> NoRun, controller |-> NoRun,
                pendingPermission |-> NoRun, promptShown |-> FALSE,
                pendingLaunch |-> FALSE, pendingDecision |-> "none"]

(* A task run: the record runTask holds, the record confirm() asked in, and *)
(* whether a prompt was refused, which its result still shows as pending.   *)
NewRun(place) == [at |-> "preparing", rec |-> place, asked |-> 0, refused |-> FALSE]

Live(r)   == run[r].at \in {"preparing", "executing", "prompting"}
Idle(c)   == request[c].op = "none"
NoRequest == [op |-> "none", seen |-> 0]

(* deps.sessions.get(sessionId) ?? a new record, and sessions.set after it. *)
At(place) == IF place = 0 THEN EmptyRecord ELSE heap[place]
Put(place, rec) ==
    IF place = 0 THEN heap' = Append(heap, rec) /\ current' = Len(heap) + 1
                 ELSE heap' = [heap EXCEPT ![place] = rec] /\ current' = place

(* buildExecutingPanelState; buildHomePanelState. *)
Executing(rec) == [rec EXCEPT !.view = "executing", !.promptShown = FALSE]
Quiet(rec)     == [rec EXCEPT !.view = "quiet"]

(* buildPanelStateFromRun: a refusal is still shown as a pending permission. *)
Finished(refused) == [EmptyRecord EXCEPT !.view = "finished", !.promptShown = refused]
-----------------------------------------------------------------------------
Init ==
    /\ \/ /\ heap = <<EmptyRecord>> /\ current = 1
          /\ request = [c \in Client |-> NoRequest]
       \/ /\ heap = <<>> /\ current = 0 /\ FirstClient # {}
          /\ request = [c \in FirstClient |-> NoRequest]
    /\ run = [r \in Run |-> [NewRun(0) EXCEPT !.at = "none"]]
    /\ aborted = {}

(* POST /session/task: startTask reads the record and waits for the status. *)
Hold(c, op) == Idle(c) /\ request' = [request EXCEPT ![c] = [op |-> op, seen |-> current]]

RequestStart(c) == Hold(c, "start") /\ UNCHANGED <<heap, current, run, aborted>>

(* handleDecision 'approve': the pending launch is gone before startTask    *)
(* has accepted it.                                                         *)
ApproveLaunch(c) ==
    /\ At(current).pendingLaunch
    /\ Put(current, [At(current) EXCEPT !.pendingLaunch = FALSE])
    /\ Hold(c, "start")
    /\ UNCHANGED <<run, aborted>>

(* applyDecisionAction 'execute' or 'rewrite_execute'. *)
ExecuteDecision(c) ==
    /\ At(current).pendingDecision = "execute"
    /\ Put(current, [At(current) EXCEPT !.pendingDecision = "none"])
    /\ Hold(c, "start")
    /\ UNCHANGED <<run, aborted>>

Release(c) == request' = [request EXCEPT ![c] = NoRequest]

(* startTask behind its awaits.  Its guard looks at the record it has seen. *)
RefusedStart(c) ==
    /\ request[c].op = "start" /\ At(request[c].seen).currentRun # NoRun
    /\ Release(c)
    /\ UNCHANGED <<heap, current, run, aborted>>

StartRun(c, r) ==
    LET seen == request[c].seen
        place == IF seen = 0 THEN Len(heap) + 1 ELSE seen
    IN /\ Put(seen, [Executing(At(seen)) EXCEPT !.currentRun = r, !.controller = r,
                                                !.pendingDecision = "none"])
       /\ run' = [run EXCEPT ![r] = NewRun(place)]

IsNextRun(r) == run[r].at = "none" /\ \A q \in 1..(r-1) : run[q].at # "none"

BrokenCommitStart(c, r) ==
    /\ request[c].op = "start" /\ IsNextRun(r)
    /\ StartRun(c, r) /\ Release(c) /\ UNCHANGED aborted

CommitStart(c, r) ==
    /\ request[c].op = "start" /\ IsNextRun(r)
    /\ At(request[c].seen).currentRun = NoRun
    /\ StartRun(c, r) /\ Release(c) /\ UNCHANGED aborted

(* The status read of a handler throws, on an unreadable service config. *)
RequestFails(c) ==
    /\ ~Idle(c) /\ Release(c)
    /\ UNCHANGED <<heap, current, run, aborted>>

(* refreshSessionState: a record it finds only gets new status fields, so   *)
(* the refreshes that matter are those that find none.                      *)
RequestRefresh(c) ==
    /\ current = 0
    /\ Hold(c, "refresh") /\ UNCHANGED <<heap, current, run, aborted>>

CommitRefresh(c) ==
    /\ request[c].op = "refresh" /\ Release(c)
    /\ Put(0, EmptyRecord)
    /\ UNCHANGED <<run, aborted>>
-----------------------------------------------------------------------------
(* Handlers that read the record and write it in one go. *)
Handle(rec) == Put(current, rec) /\ UNCHANGED <<run, aborted, request>>

(* decideTask: the card that the rules make of the text, of which the       *)
(* session keeps whether it can be executed.                                *)
Cards == {Decision(text, Readiness(signals) = "ready").executes :
            text \in Texts \cup {WithAttachments(text) : text \in Texts},
            signals \in Signals}

Card(rec, executes) ==
    [rec EXCEPT !.view = "quiet", !.pendingDecision = IF executes THEN "execute" ELSE "dismiss"]

DecideTask == \E executes \in Cards : Handle(Card(At(current), executes))

(* ensureBlockedTemplateDecision: there is nothing to execute. *)
BlockTemplate == Handle(Card(At(current), FALSE))

DismissDecision ==
    /\ At(current).pendingDecision # "none"
    /\ Handle([Quiet(At(current)) EXCEPT !.pendingDecision = "none"])

(* ensurePendingTemplateLaunch. *)
AskToLaunch ==
    Handle([Executing(At(current)) EXCEPT !.view = "quiet", !.pendingLaunch = TRUE])

DenyLaunch ==
    /\ At(current).pendingLaunch
    /\ Handle([At(current) EXCEPT !.pendingLaunch = FALSE])

(* stopSession: a pending permission stays as it is. *)
Stop ==
    LET r == At(current).controller IN
    /\ r # NoRun /\ r \notin aborted
    /\ aborted' = aborted \cup {r}
    /\ Put(current, [At(current) EXCEPT !.view = "stopped"])
    /\ UNCHANGED <<run, request>>

(* resolvePermissionDecision, with the closure that confirm() left behind:  *)
(* it clears the prompt in the record that asked and resumes the run.       *)
BrokenAnswered(rec) == [rec EXCEPT !.promptShown = FALSE]
Answered(rec) == [rec EXCEPT !.pendingPermission = NoRun, !.promptShown = FALSE]

BrokenResumed(at, approved) == IF at = "prompting" /\ approved THEN "executing" ELSE at
Resumed(at, approved) == IF at = "prompting" THEN "executing" ELSE at

AnswerPermission ==
    LET r == At(current).pendingPermission IN
    /\ r # NoRun
    /\ heap' = [p \in DOMAIN heap |->
                  IF p = current THEN Answered(heap[p])
                  ELSE IF p = run[r].asked THEN [heap[p] EXCEPT !.promptShown = FALSE]
                  ELSE heap[p]]
    /\ \E approved \in BOOLEAN :
         run' = [run EXCEPT ![r].at = Resumed(@, approved),
                            ![r].refused = @ \/ ~approved,
                            ![r].asked = 0]
    /\ UNCHANGED <<current, aborted, request>>
-----------------------------------------------------------------------------
(* runTask up to createCliApp: it writes the record it has read before its  *)
(* own awaits, and undoes what a stop has shown in between.                 *)
BrokenRunPrepared(r) ==
    /\ run[r].at = "preparing"
    /\ Put(0, Executing(EmptyRecord))
    /\ run' = [run EXCEPT ![r].at = "executing"]
    /\ UNCHANGED <<aborted, request>>

RunPrepared(r) ==
    /\ run[r].at = "preparing"
    /\ Put(run[r].rec, Executing(heap[run[r].rec]))
    /\ run' = [run EXCEPT ![r].at = "executing"]
    /\ UNCHANGED <<aborted, request>>

(* confirm() of the panel's PermissionPrompt. *)
AskPermission(r) ==
    /\ run[r].at = "executing"
    /\ Put(current, [heap[current] EXCEPT !.promptShown = TRUE, !.pendingPermission = r])
    /\ run' = [run EXCEPT ![r].at = "prompting", ![r].asked = current]
    /\ UNCHANGED <<aborted, request>>

(* The finally of startTask, on whatever record the map holds by then. *)
BrokenCleared(rec) == [rec EXCEPT !.controller = NoRun]
Cleared(rec) == [rec EXCEPT !.currentRun = NoRun, !.controller = NoRun]

EndRun(r) ==
    /\ run' = [run EXCEPT ![r] = [NewRun(0) EXCEPT !.at = "over"]]
    /\ aborted' = aborted \ {r}
    /\ UNCHANGED request

(* The turn is over, however it ended: a new record replaces the old one. *)
RunFinished(r) ==
    /\ run[r].at = "executing"
    /\ Put(0, Finished(run[r].refused))
    /\ EndRun(r)

(* createCliApp or the turn threw: a copy of the record says so. *)
RunFailed(r) ==
    /\ run[r].at = "executing"
    /\ Put(0, Cleared([heap[run[r].rec] EXCEPT !.view = "quiet", !.promptShown = FALSE]))
    /\ EndRun(r)

(* A status read threw, before the try or in its catch: nobody is told. *)
RunFailedUnseen(r) ==
    /\ run[r].at \in {"preparing", "executing"}
    /\ Put(current, Cleared(heap[current]))
    /\ EndRun(r)
-----------------------------------------------------------------------------
RunEnds(r) == RunFinished(r) \/ RunFailed(r) \/ RunFailedUnseen(r)
RunStep(r) == RunPrepared(r) \/ AskPermission(r) \/ RunEnds(r)

(* handleWebPanelRequest: what a request of each route may come to.  A      *)
(* route that reads the body or the attachments does so before it looks at  *)
(* the session.  requestLaunch has a third branch, which starts a template  *)
(* that is ready at once; none ever is.                                     *)
ASSUME LaunchAssumption == "ready" \notin Preflights

PostTask(c)           == RequestStart(c)
PostTaskDecision      == DecideTask
PostTemplateLaunch    == \/ "needs_attention" \in Preflights /\ AskToLaunch
                         \/ "blocked" \in Preflights /\ BlockTemplate
PostLaunchDecision(c) == ApproveLaunch(c) \/ DenyLaunch
PostDecisionAction(c) == ExecuteDecision(c) \/ DismissDecision
PostDecisionDismiss   == DismissDecision
PostStop              == Stop
PostPermission        == AnswerPermission
GetState(c)           == RequestRefresh(c)

Route(c) ==
    \/ PostTask(c) \/ PostTaskDecision \/ PostTemplateLaunch \/ PostLaunchDecision(c)
    \/ PostDecisionAction(c) \/ PostDecisionDismiss \/ PostStop \/ PostPermission
    \/ GetState(c)

(* What a request that is held goes on to. *)
Resume(c) ==
    \/ RefusedStart(c) \/ RequestFails(c) \/ CommitRefresh(c)
    \/ \E r \in Run : CommitStart(c, r)

Next ==
    \/ \E c \in DOMAIN request : Route(c) \/ Resume(c)
    \/ \E r \in Run : RunStep(r)

Spec == Init /\ [][Next]_vars

(* The status read settles; a turn that is not kept waiting ends, however   *)
(* often it asks (AgentTurn's TurnEnds); the user answers a prompt the      *)
(* panel shows for a task that was not stopped.                             *)
AnswerShown == /\ At(current).promptShown /\ At(current).view # "stopped"
               /\ AnswerPermission
FairSpec == /\ Spec
            /\ \A r \in Run : WF_vars(RunPrepared(r)) /\ SF_vars(RunEnds(r))
            /\ WF_vars(AnswerShown)
-----------------------------------------------------------------------------
(* 'A task is already running in this session.': at most one task runs in a *)
(* session that has a record, however its start requests cross at their     *)
(* awaits (startTask).                                                      *)
AtMostOneRun == \A r, q \in Run : Live(r) /\ Live(q) => r = q

(* A stop finds the run: while a task runs, the record in the map is the    *)
(* one that holds its currentRun and its AbortController, through every     *)
(* replacement of the record (stopSession reads the map). *)
StopFindsRun ==
    \A r \in Run : Live(r) =>
        heap[current].currentRun = r /\ heap[current].controller = r

(* A permission decision reaches the run that asked: the record in the map  *)
(* waits for exactly the run that is waiting (confirm,                      *)
(* resolvePermissionDecision). *)
PromptReachesRun ==
    \A r \in Run : (current # 0 /\ heap[current].pendingPermission = r)
                      <=> run[r].at = "prompting"

(* When no task runs, nothing blocks the next one: the record in the map    *)
(* has neither currentRun nor controller left over. *)
IdleSessionStartable ==
    (\A r \in Run : ~Live(r)) =>
        At(current).currentRun = NoRun /\ At(current).controller = NoRun

(* A task that runs comes to an end, unless the user has stopped it or      *)
(* another request has taken its unanswered prompt off the screen (startTask, *)
(* confirm, ensurePendingTemplateLaunch). *)
PromptHidden(r) == At(current).pendingPermission = r /\ ~At(current).promptShown
RunsSettle == \A r \in Run : Live(r) ~> ~Live(r) \/ r \in aborted \/ PromptHidden(r)

(* What stopSession tells the user: the task will not go on.  A stopped run *)
(* takes no further step but to end (abortController, createCliApp). *)
StoppedRunGoesNoFurther ==
    [][\A r \in aborted : run[r].at = "executing" => run'[r].at \in {"executing", "over"}]_vars
=============================================================================
