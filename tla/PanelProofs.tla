---------------------------- MODULE PanelProofs ----------------------------
(***************************************************************************)
(* Proofs about PanelSession for any number of requests and task runs.      *)
(* Records outlive their place in the map, in the hands of requests that    *)
(* wait and of runs; the invariant says what such a record still shows.     *)
(***************************************************************************)
EXTENDS PanelSession, TLAPS

RunState == [at : {"none", "preparing", "executing", "prompting", "over"},
             rec : Nat, asked : Nat, refused : BOOLEAN]
Held == [op : {"none", "start", "refresh"}, seen : Nat]

PanelTypeOK ==
    /\ heap \in Seq(Record) /\ current \in 0..Len(heap)
    /\ run \in [Run -> RunState]
    /\ \E S \in SUBSET Client : request \in [S -> Held]

NoneLive == \A r \in Run : ~Live(r)

(* Before the first record there is one request at most, and no run. *)
FirstRecord == current = 0 => NoneLive /\ \A c, d \in DOMAIN request : c = d

(* A run that lives holds the record in the map. *)
RunsHoldRecord == \A r \in Run : Live(r) => current # 0 /\ run[r].rec = current

(* What a request at its await has seen: a record that has left the map     *)
(* meanwhile still names the run it left with, so that a start is refused,  *)
(* and no record only if no run is possible until the request goes on.      *)
RequestsSee ==
    \A c \in DOMAIN request : request[c].op # "none" =>
        /\ request[c].seen \in 0..Len(heap)
        /\ request[c].op = "refresh" => request[c].seen = 0
        /\ request[c].seen \notin {0, current} => heap[request[c].seen].currentRun # NoRun
        /\ request[c].seen = 0 => NoneLive /\ \A d \in DOMAIN request : c = d

PanelInv ==
    /\ PanelTypeOK /\ FirstRecord /\ RunsHoldRecord /\ RequestsSee
    /\ StopFindsRun /\ IdleSessionStartable /\ PromptReachesRun

-----------------------------------------------------------------------------
(* The records that the handlers make are records. *)
LEMMA EmptyIsRecord ==
    /\ EmptyRecord \in Record
    /\ EmptyRecord.currentRun = NoRun /\ EmptyRecord.controller = NoRun
    /\ EmptyRecord.pendingPermission = NoRun
BY PanelAssumption DEF EmptyRecord, Record, NoRun, Views

(* The invariant implies that one task runs at a time: a record names one. *)
LEMMA OneRunNamed == PanelInv => AtMostOneRun
BY DEF PanelInv, StopFindsRun, AtMostOneRun

(* The initial records are as the invariant says: there is no run. *)
LEMMA InvInit == Init => PanelInv
<1> SUFFICES ASSUME Init PROVE PanelInv
  OBVIOUS
<1>1. \A r \in Run : run[r].at = "none" /\ run[r] \in RunState
  BY DEF Init, NewRun, RunState
<1>2. NoneLive
  BY <1>1 DEF NoneLive, Live
<1>3. /\ \/ /\ heap = <<EmptyRecord>> /\ current = 1
            /\ request = [c \in Client |-> NoRequest]
         \/ /\ heap = <<>> /\ current = 0
            /\ request = [c \in FirstClient |-> NoRequest]
      /\ run \in [Run -> RunState]
  <2>1. run \in [Run -> RunState]
    BY <1>1, Zenon DEF Init
  <2> QED BY <2>1, Zenon DEF Init
<1>4. PanelTypeOK
  <2>1. heap \in Seq(Record) /\ current \in 0..Len(heap)
    <3>1. CASE heap = <<EmptyRecord>> /\ current = 1
      BY <3>1, EmptyIsRecord
    <3>2. CASE heap = <<>> /\ current = 0
      BY <3>2
    <3> QED BY <1>3, <3>1, <3>2
  <2>2. \E S \in SUBSET Client : request \in [S -> Held]
    <3>1. NoRequest \in Held
      BY DEF NoRequest, Held
    <3> QED BY <1>3, <3>1, PanelAssumption
  <2> QED BY <1>3, <2>1, <2>2 DEF PanelTypeOK
<1>5. FirstRecord
  BY <1>2, <1>3, PanelAssumption DEF FirstRecord
<1>6. RunsHoldRecord /\ StopFindsRun
  BY <1>2 DEF RunsHoldRecord, StopFindsRun, NoneLive
<1>7. RequestsSee
  BY <1>3 DEF RequestsSee, NoRequest
<1>8. IdleSessionStartable
  BY <1>3, EmptyIsRecord DEF IdleSessionStartable, At
<1>9. PromptReachesRun
  BY <1>1, <1>3, EmptyIsRecord DEF PromptReachesRun, Run, NoRun
<1> QED BY <1>4, <1>5, <1>6, <1>7, <1>8, <1>9 DEF PanelInv

-----------------------------------------------------------------------------
(* sessions.set: the record of a place, or a new place, becomes the current *)
(* one, and every other record stays as it is.                              *)
LEMMA PutRecord ==
    ASSUME PanelTypeOK, NEW place \in 0..Len(heap), NEW rec \in Record, Put(place, rec)
    PROVE  /\ heap' \in Seq(Record) /\ current' \in 1..Len(heap') /\ heap'[current'] = rec
           /\ Len(heap) <= Len(heap')
           /\ \A p \in 1..Len(heap) : p # current' => heap'[p] = heap[p]
           /\ IF place = 0 THEN current' = Len(heap) + 1 ELSE current' = place
BY DEF PanelTypeOK, Put

(* A record of the heap, or an empty one. *)
LEMMA AtIsRecord == PanelTypeOK => At(current) \in Record
BY EmptyIsRecord DEF PanelTypeOK, At

(* A step leaves a request as it is, ends it, or brings it to its await. *)
RequestMoves ==
    /\ \E S \in SUBSET Client : request' \in [S -> Held]
    /\ DOMAIN request' = DOMAIN request
    /\ \A c \in DOMAIN request :
         \/ request'[c] = request[c]
         \/ request'[c].op = "none"
         \/ request'[c].seen = current /\ (request'[c].op = "refresh" => current = 0)

LEMMA RequestsMove ==
    ASSUME PanelTypeOK, NEW c \in DOMAIN request, NEW op \in {"start", "refresh"},
           \/ Hold(c, op) /\ (op = "refresh" => current = 0)
           \/ Release(c)
           \/ UNCHANGED request
    PROVE  RequestMoves
<1> PICK S \in SUBSET Client : request \in [S -> Held]
  BY DEF PanelTypeOK
<1>1. current \in Nat
  BY DEF PanelTypeOK
<1>2. CASE Hold(c, op) /\ (op = "refresh" => current = 0)
  <2>1. request' = [request EXCEPT ![c] = [op |-> op, seen |-> current]]
    BY <1>2 DEF Hold
  <2>2. [op |-> op, seen |-> current] \in Held
    BY <1>1 DEF Held
  <2> QED BY <1>2, <2>1, <2>2 DEF RequestMoves
<1>3. CASE Release(c)
  <2>1. NoRequest \in Held /\ NoRequest.op = "none"
    BY DEF NoRequest, Held
  <2> QED BY <1>3, <2>1 DEF Release, RequestMoves
<1>4. CASE UNCHANGED request
  BY <1>4 DEF RequestMoves
<1> QED BY <1>2, <1>3, <1>4

(* Requests go on seeing what they saw, if a record that leaves the map     *)
(* names a run.                                                             *)
LEMMA SeenKept ==
    ASSUME PanelInv, Len(heap) <= Len(heap'), Len(heap') \in Nat,
           \A p \in 1..Len(heap) : p # current' => heap'[p].currentRun = heap[p].currentRun,
           current' = current \/ current = 0 \/ heap[current].currentRun # NoRun,
           NoneLive => NoneLive', RequestMoves
    PROVE  RequestsSee'
<1> SUFFICES ASSUME NEW c \in DOMAIN request, request'[c].op # "none"
             PROVE  /\ request'[c].seen \in 0..Len(heap')
                    /\ request'[c].op = "refresh" => request'[c].seen = 0
                    /\ request'[c].seen \notin {0, current'} =>
                          heap'[request'[c].seen].currentRun # NoRun
                    /\ request'[c].seen = 0 => NoneLive' /\ \A d \in DOMAIN request : c = d
  BY DEF RequestsSee, RequestMoves
<1>1. CASE request'[c] = request[c]
  <2>1. /\ request[c].seen \in 0..Len(heap) /\ Len(heap) \in Nat
        /\ request[c].op = "refresh" => request[c].seen = 0
        /\ request[c].seen \notin {0, current} => heap[request[c].seen].currentRun # NoRun
        /\ request[c].seen = 0 => NoneLive /\ \A d \in DOMAIN request : c = d
    BY <1>1 DEF PanelInv, RequestsSee, PanelTypeOK
  <2> QED BY <1>1, <2>1
<1>2. CASE request'[c].seen = current /\ (request'[c].op = "refresh" => current = 0)
  <2>1. current \in 0..Len(heap) /\ Len(heap) \in Nat
    BY DEF PanelInv, PanelTypeOK
  <2> QED BY <1>2, <2>1 DEF PanelInv, FirstRecord
<1> QED BY <1>1, <1>2 DEF RequestMoves

(* A request comes to its await, or ends, without a word to the session. *)
LEMMA RequestKeepsInv ==
    ASSUME PanelInv, UNCHANGED <<heap, current, run>>, RequestMoves
    PROVE  PanelInv'
<1>1. /\ NoneLive' = NoneLive
      /\ \A r \in Run : Live(r)' = Live(r)
  BY DEF NoneLive, Live
<1>2. RequestsSee'
  <2>1. Len(heap) \in Nat
    BY DEF PanelInv, PanelTypeOK
  <2> QED BY <1>1, <2>1, SeenKept
<1>3. PanelTypeOK'
  BY DEF PanelInv, PanelTypeOK, RequestMoves
<1>4. FirstRecord'
  BY <1>1 DEF PanelInv, FirstRecord, RequestMoves
<1>5. RunsHoldRecord' /\ StopFindsRun' /\ IdleSessionStartable' /\ PromptReachesRun'
  BY <1>1 DEF PanelInv, RunsHoldRecord, StopFindsRun, IdleSessionStartable, PromptReachesRun, At
<1> QED BY <1>2, <1>3, <1>4, <1>5 DEF PanelInv

(* A handler that writes the record in one go and leaves its run and its    *)
(* pending permission alone. *)
LEMMA HandlerKeepsInv ==
    ASSUME PanelInv, NEW rec \in Record, Put(current, rec),
           rec.currentRun = At(current).currentRun, rec.controller = At(current).controller,
           rec.pendingPermission = At(current).pendingPermission, UNCHANGED run, RequestMoves
    PROVE  PanelInv'
<1>1. PanelTypeOK /\ current \in 0..Len(heap) /\ Len(heap) \in Nat
  BY DEF PanelInv, PanelTypeOK
<1>2. /\ heap' \in Seq(Record) /\ current' \in 1..Len(heap') /\ heap'[current'] = rec
      /\ Len(heap) <= Len(heap') /\ Len(heap') \in Nat
      /\ \A p \in 1..Len(heap) : p # current' => heap'[p] = heap[p]
      /\ IF current = 0 THEN current' = Len(heap) + 1 ELSE current' = current
  BY <1>1, PutRecord
<1>3. /\ NoneLive' = NoneLive
      /\ \A r \in Run : Live(r)' = Live(r)
  BY DEF NoneLive, Live
<1>4. PanelTypeOK'
  BY <1>1, <1>2 DEF PanelTypeOK, RequestMoves
<1>5. FirstRecord'
  BY <1>2 DEF FirstRecord
<1>6. RunsHoldRecord'
  BY <1>2, <1>3 DEF PanelInv, RunsHoldRecord
<1>7. RequestsSee'
  BY <1>2, <1>3, SeenKept
<1>8. StopFindsRun'
  BY <1>2, <1>3 DEF PanelInv, RunsHoldRecord, StopFindsRun, At
<1>9. IdleSessionStartable'
  BY <1>2, <1>3 DEF PanelInv, IdleSessionStartable, At
<1>10. PromptReachesRun'
  BY <1>2, EmptyIsRecord DEF PanelInv, PromptReachesRun, At, Run, NoRun
<1> QED BY <1>4, <1>5, <1>6, <1>7, <1>8, <1>9, <1>10 DEF PanelInv

(* An answer changes nothing about the run in a record. *)
AnsweredAs(before, after) ==
    /\ after \in Record
    /\ after.currentRun = before.currentRun /\ after.controller = before.controller

LEMMA AnsweredIsRecord ==
    ASSUME NEW rec \in Record
    PROVE  /\ AnsweredAs(rec, Answered(rec)) /\ Answered(rec).pendingPermission = NoRun
           /\ AnsweredAs(rec, [rec EXCEPT !.promptShown = FALSE])
<1>1. 0 \in 0..MaxRuns
  BY PanelAssumption
<1> QED BY <1>1 DEF Answered, AnsweredAs, Record, NoRun

(* The answer to a prompt: the run that waited goes on with the same record. *)
LEMMA AnswerKeepsInv == ASSUME PanelInv, AnswerPermission PROVE PanelInv'
<1> DEFINE r == At(current).pendingPermission
<1>1. PanelTypeOK /\ current \in 0..Len(heap) /\ Len(heap) \in Nat
  BY DEF PanelInv, PanelTypeOK
<1>2. r # NoRun /\ r \in 0..MaxRuns /\ current \in 1..Len(heap) /\ At(current) = heap[current]
  BY <1>1, EmptyIsRecord, AtIsRecord DEF AnswerPermission, At, Record
<1>3. r \in Run /\ run[r].at = "prompting"
  BY <1>2, PanelAssumption DEF PanelInv, PromptReachesRun, Run, NoRun
<1>4. Live(r) /\ \A q \in Run : Live(q) => q = r
  BY <1>3, OneRunNamed DEF Live, AtMostOneRun
<1>5. PICK approved \in BOOLEAN :
        run' = [run EXCEPT ![r].at = Resumed(@, approved),
                           ![r].refused = @ \/ ~approved, ![r].asked = 0]
  BY Zenon DEF AnswerPermission
<1>6. /\ run' \in [Run -> RunState] /\ run'[r].at = "executing" /\ run'[r].rec = run[r].rec
      /\ \A q \in Run : q # r => run'[q] = run[q]
  <2>1. run \in [Run -> RunState] /\ run[r] \in RunState
    BY <1>1, <1>3 DEF PanelTypeOK
  <2>2. Resumed(run[r].at, approved) = "executing"
    BY <1>3 DEF Resumed
  <2>3. run' = [run EXCEPT ![r] = [run[r] EXCEPT !.at = "executing",
                                     !.refused = run[r].refused \/ ~approved, !.asked = 0]]
    BY <1>5, <2>1, <2>2
  <2>4. [run[r] EXCEPT !.at = "executing", !.refused = run[r].refused \/ ~approved,
                       !.asked = 0] \in RunState
    BY <2>1 DEF RunState
  <2> QED BY <2>1, <2>3, <2>4, <1>3 DEF RunState
<1>7. /\ heap' \in Seq(Record) /\ Len(heap') = Len(heap) /\ current' = current
      /\ \A p \in 1..Len(heap) : /\ heap'[p].currentRun = heap[p].currentRun
                                 /\ heap'[p].controller = heap[p].controller
      /\ heap'[current].pendingPermission = NoRun
  <2>1. \A p \in 1..Len(heap) : heap[p] \in Record
    BY <1>1 DEF PanelTypeOK
  <2>2. \A p \in 1..Len(heap) : AnsweredAs(heap[p], Answered(heap[p]))
                               /\ AnsweredAs(heap[p], [heap[p] EXCEPT !.promptShown = FALSE])
    BY <2>1, AnsweredIsRecord
  <2>3. heap' = [p \in 1..Len(heap) |->
                   IF p = current THEN Answered(heap[p])
                   ELSE IF p = run[r].asked THEN [heap[p] EXCEPT !.promptShown = FALSE]
                   ELSE heap[p]]
    BY <1>1 DEF AnswerPermission, PanelTypeOK
  <2>4. /\ heap' \in [1..Len(heap) -> Record]
        /\ \A p \in 1..Len(heap) : AnsweredAs(heap[p], heap'[p])
    BY <2>1, <2>2, <2>3 DEF AnsweredAs
  <2>5. heap' \in Seq(Record) /\ Len(heap') = Len(heap)
    BY <2>4, <1>1
  <2>6. heap'[current].pendingPermission = NoRun
    BY <1>2, <2>1, <2>3, AnsweredIsRecord
  <2> QED BY <2>4, <2>5, <2>6 DEF AnswerPermission, AnsweredAs
<1>8. \A q \in Run : Live(q)' = Live(q)
  BY <1>3, <1>6 DEF Live
<1>9. NoneLive' = NoneLive
  BY <1>8 DEF NoneLive
<1>10. PanelTypeOK'
  BY <1>1, <1>6, <1>7 DEF PanelTypeOK, AnswerPermission
<1>11. FirstRecord' /\ RunsHoldRecord' /\ StopFindsRun'
  BY <1>2, <1>6, <1>7, <1>8
     DEF PanelInv, FirstRecord, RunsHoldRecord, StopFindsRun
<1>12. RequestsSee'
  BY <1>2, <1>7, <1>9 DEF PanelInv, RequestsSee, AnswerPermission
<1>13. IdleSessionStartable'
  BY <1>3, <1>4, <1>8 DEF IdleSessionStartable
<1>14. PromptReachesRun'
  BY <1>2, <1>4, <1>6, <1>7, <1>8 DEF PromptReachesRun, Live, Run, NoRun
<1> QED BY <1>10, <1>11, <1>12, <1>13, <1>14 DEF PanelInv

(* What each request may come to keeps the invariant; one step per action. *)
LEMMA RouteKeepsInv ==
    ASSUME PanelInv, NEW c \in DOMAIN request, Route(c)
    PROVE  PanelInv'
<1>1. PanelTypeOK /\ At(current) \in Record
  BY AtIsRecord DEF PanelInv
<1> DEFINE Kept(rec) == /\ rec \in Record /\ rec.currentRun = At(current).currentRun
                        /\ rec.controller = At(current).controller
                        /\ rec.pendingPermission = At(current).pendingPermission
<1>2. ASSUME NEW rec, Kept(rec), Handle(rec)
      PROVE  PanelInv'
  <2>1. RequestMoves
    BY <1>1, <1>2, RequestsMove DEF Handle
  <2> QED BY <1>2, <2>1, HandlerKeepsInv DEF Handle
<1>3. ASSUME NEW rec, Kept(rec), Put(current, rec), Hold(c, "start"), UNCHANGED run
      PROVE  PanelInv'
  <2>1. RequestMoves
    BY <1>1, <1>3, RequestsMove
  <2> QED BY <1>3, <2>1, HandlerKeepsInv
<1>4. CASE RequestStart(c) \/ RequestRefresh(c)
  <2>1. RequestMoves
    BY <1>1, <1>4, RequestsMove DEF RequestStart, RequestRefresh
  <2> QED BY <1>4, <2>1, RequestKeepsInv DEF RequestStart, RequestRefresh
<1>5. CASE ApproveLaunch(c)
  <2>1. Kept([At(current) EXCEPT !.pendingLaunch = FALSE])
    BY <1>1 DEF Record
  <2> QED BY <1>3, <1>5, <2>1 DEF ApproveLaunch
<1>6. CASE ExecuteDecision(c)
  <2>1. Kept([At(current) EXCEPT !.pendingDecision = "none"])
    BY <1>1 DEF Record
  <2> QED BY <1>3, <1>6, <2>1 DEF ExecuteDecision
<1>7. CASE DecideTask \/ BlockTemplate
  <2>1. \A executes : Kept(Card(At(current), executes))
    BY <1>1 DEF Record, Card, Views
  <2> QED BY <1>2, <1>7, <2>1 DEF DecideTask, BlockTemplate
<1>8. CASE DismissDecision
  <2>1. Kept([Quiet(At(current)) EXCEPT !.pendingDecision = "none"])
    BY <1>1 DEF Record, Quiet, Views
  <2> QED BY <1>2, <1>8, <2>1 DEF DismissDecision
<1>9. CASE AskToLaunch
  <2>1. Kept([Executing(At(current)) EXCEPT !.view = "quiet", !.pendingLaunch = TRUE])
    BY <1>1 DEF Record, Executing, Views
  <2> QED BY <1>2, <1>9, <2>1 DEF AskToLaunch
<1>10. CASE DenyLaunch
  <2>1. Kept([At(current) EXCEPT !.pendingLaunch = FALSE])
    BY <1>1 DEF Record
  <2> QED BY <1>2, <1>10, <2>1 DEF DenyLaunch
<1>11. CASE Stop
  <2>1. Kept([At(current) EXCEPT !.view = "stopped"])
    BY <1>1 DEF Record, Views
  <2>2. RequestMoves
    BY <1>1, <1>11, RequestsMove DEF Stop
  <2> QED BY <1>11, <2>1, <2>2, HandlerKeepsInv DEF Stop
<1>12. CASE AnswerPermission
  BY <1>12, AnswerKeepsInv
<1> QED
  BY <1>4, <1>5, <1>6, <1>7, <1>8, <1>9, <1>10, <1>11, <1>12
  DEF Route, PostTask, PostTaskDecision, PostTemplateLaunch, PostLaunchDecision,
      PostDecisionAction, PostDecisionDismiss, PostStop, PostPermission, GetState

(* A start that finds a record without a run puts its own into it: the      *)
(* record it has seen is still in the map, or there was none and no other   *)
(* request could start a run meanwhile.                                     *)
LEMMA CommitStartKeepsInv ==
    ASSUME PanelInv, NEW c \in DOMAIN request, NEW r \in Run, CommitStart(c, r)
    PROVE  PanelInv'
<1> DEFINE seen == request[c].seen
           rec == [Executing(At(seen)) EXCEPT !.currentRun = r, !.controller = r,
                                              !.pendingDecision = "none"]
<1>1. /\ PanelTypeOK /\ current \in 0..Len(heap) /\ Len(heap) \in Nat
      /\ request[c].op = "start" /\ seen \in 0..Len(heap) /\ At(seen).currentRun = NoRun
      /\ r \in 1..MaxRuns /\ run[r].at = "none"
  BY DEF PanelInv, PanelTypeOK, RequestsSee, CommitStart, IsNextRun, Run
<1>2. seen \in {0, current}
  BY <1>1 DEF PanelInv, RequestsSee, At
<1>3. NoneLive /\ At(seen).pendingPermission = NoRun
  <2>1. CASE seen = 0
    BY <1>1, <2>1, EmptyIsRecord DEF PanelInv, RequestsSee, At
  <2>2. CASE seen # 0
    <3>1. seen = current /\ At(seen) = heap[current] /\ heap[current] \in Record
      BY <1>1, <1>2, <2>2 DEF At, PanelTypeOK
    <3>2. NoneLive
      BY <1>1, <3>1 DEF PanelInv, StopFindsRun, NoneLive, Run, NoRun
    <3>3. heap[current].pendingPermission \in 0..MaxRuns
      BY <3>1 DEF Record
    <3>4. heap[current].pendingPermission \notin Run
      BY <2>2, <3>1, <3>2 DEF PanelInv, PromptReachesRun, NoneLive, Live
    <3> QED BY <3>1, <3>2, <3>3, <3>4, PanelAssumption DEF Run, NoRun
  <2> QED BY <2>1, <2>2
<1>4. rec \in Record /\ rec.currentRun = r /\ rec.controller = r /\ rec.pendingPermission = NoRun
  <2>1. At(seen) \in Record
    BY <1>1, EmptyIsRecord DEF At, PanelTypeOK
  <2>2. /\ Executing(At(seen)) \in Record
        /\ Executing(At(seen)).pendingPermission = At(seen).pendingPermission
    BY <2>1 DEF Record, Executing, Views
  <2>3. r \in 0..MaxRuns
    BY <1>1
  <2> HIDE DEF seen
  <2> QED BY <1>3, <2>2, <2>3 DEF Record
<1>5. /\ heap' \in Seq(Record) /\ current' \in 1..Len(heap') /\ heap'[current'] = rec
      /\ Len(heap) <= Len(heap') /\ Len(heap') \in Nat
      /\ \A p \in 1..Len(heap) : p # current' => heap'[p] = heap[p]
      /\ IF seen = 0 THEN current' = Len(heap) + 1 ELSE current' = seen
  BY <1>1, <1>4, PutRecord DEF CommitStart, StartRun
<1>6. /\ run' \in [Run -> RunState] /\ Live(r)'
      /\ run'[r].at = "preparing" /\ run'[r].rec = current'
      /\ \A q \in Run : q # r => run'[q] = run[q] /\ ~Live(q)'
  <2>1. run' = [run EXCEPT ![r] = NewRun(current')]
    BY <1>1, <1>5 DEF CommitStart, StartRun
  <2>2. NewRun(current') \in RunState
    BY <1>5 DEF NewRun, RunState
  <2> QED BY <1>1, <1>3, <2>1, <2>2 DEF PanelTypeOK, NewRun, Live, NoneLive
<1>7. RequestMoves
  BY <1>1, RequestsMove DEF CommitStart
<1>8. PanelTypeOK'
  BY <1>5, <1>6, <1>7 DEF PanelTypeOK, RequestMoves
<1>9. FirstRecord' /\ RunsHoldRecord' /\ StopFindsRun' /\ IdleSessionStartable'
  BY <1>4, <1>5, <1>6 DEF FirstRecord, RunsHoldRecord, StopFindsRun, IdleSessionStartable
<1>10. PromptReachesRun'
  BY <1>3, <1>4, <1>5, <1>6 DEF PromptReachesRun, NoneLive, Live, Run, NoRun
<1>11. RequestsSee'
  <2> SUFFICES ASSUME NEW d \in DOMAIN request, request'[d].op # "none"
               PROVE  /\ request'[d].seen \in 0..Len(heap')
                      /\ request'[d].op = "refresh" => request'[d].seen = 0
                      /\ request'[d].seen \notin {0, current'} =>
                            heap'[request'[d].seen].currentRun # NoRun
                      /\ request'[d].seen # 0
    BY <1>7 DEF RequestsSee, RequestMoves
  <2>1. d # c /\ request'[d] = request[d]
    BY <1>1 DEF PanelTypeOK, CommitStart, Release, NoRequest
  <2>2. /\ request[d].seen \in 1..Len(heap) /\ request[d].op # "refresh"
        /\ request[d].seen # current => heap[request[d].seen].currentRun # NoRun
    BY <1>1, <2>1 DEF PanelInv, RequestsSee
  <2>3. seen # 0
    BY <1>1, <2>1 DEF PanelInv, RequestsSee
  <2> QED BY <1>2, <1>5, <2>1, <2>2, <2>3
<1> QED BY <1>8, <1>9, <1>10, <1>11 DEF PanelInv

(* What a request at its await goes on to keeps the invariant. *)
LEMMA ResumeKeepsInv ==
    ASSUME PanelInv, NEW c \in DOMAIN request, Resume(c)
    PROVE  PanelInv'
<1>1. PanelTypeOK
  BY DEF PanelInv
<1>2. CASE RefusedStart(c) \/ RequestFails(c)
  <2>1. RequestMoves
    BY <1>1, <1>2, RequestsMove DEF RefusedStart, RequestFails
  <2> QED BY <1>2, <2>1, RequestKeepsInv DEF RefusedStart, RequestFails
<1>3. CASE CommitRefresh(c)
  <2>1. NoneLive /\ \A d \in DOMAIN request : c = d
    BY <1>3 DEF CommitRefresh, PanelInv, RequestsSee
  <2>2. /\ heap' \in Seq(Record) /\ current' \in 1..Len(heap') /\ heap'[current'] = EmptyRecord
    <3>1. 0 \in 0..Len(heap)
      BY <1>1 DEF PanelTypeOK
    <3> QED BY <1>1, <1>3, <3>1, EmptyIsRecord, PutRecord DEF CommitRefresh
  <2>3. RequestMoves
    BY <1>1, <1>3, RequestsMove DEF CommitRefresh
  <2>4. UNCHANGED run /\ NoneLive' /\ \A d \in DOMAIN request' : request'[d].op = "none"
    BY <1>1, <1>3, <2>1, <2>3
       DEF CommitRefresh, NoneLive, Live, Release, NoRequest, PanelTypeOK, RequestMoves
  <2>5. PanelTypeOK'
    BY <1>1, <2>2, <2>3, <2>4 DEF PanelTypeOK, RequestMoves
  <2>6. FirstRecord' /\ RunsHoldRecord' /\ StopFindsRun' /\ RequestsSee'
    BY <2>2, <2>4 DEF FirstRecord, RunsHoldRecord, StopFindsRun, RequestsSee, NoneLive
  <2>7. IdleSessionStartable'
    BY <2>2, EmptyIsRecord DEF IdleSessionStartable, At
  <2>8. PromptReachesRun'
    BY <2>2, <2>4, EmptyIsRecord DEF PromptReachesRun, NoneLive, Live, Run, NoRun
  <2> QED BY <2>5, <2>6, <2>7, <2>8 DEF PanelInv
<1>4. CASE \E r \in Run : CommitStart(c, r)
  BY <1>4, CommitStartKeepsInv
<1> QED BY <1>2, <1>3, <1>4 DEF Resume

(* A run that goes on writes the record it holds, which is the one in the   *)
(* map, and waits for a permission there if it asks for one.                *)
LEMMA RunGoesOnKeepsInv ==
    ASSUME PanelInv, NEW r \in Run, RunPrepared(r) \/ AskPermission(r)
    PROVE  PanelInv'
<1>1. /\ PanelTypeOK /\ current \in 0..Len(heap) /\ Len(heap) \in Nat
      /\ Live(r) /\ current # 0 /\ run[r].rec = current /\ heap[current] \in Record
      /\ run[r] \in RunState /\ r \in 1..MaxRuns
  BY DEF PanelInv, PanelTypeOK, RunsHoldRecord, RunPrepared, AskPermission, Live, Run
<1>2. \A q \in Run : Live(q) => q = r
  BY <1>1, OneRunNamed DEF AtMostOneRun
<1>3. heap[current].pendingPermission = NoRun
  <2>1. heap[current].pendingPermission \in 0..MaxRuns
    BY <1>1 DEF Record
  <2>2. heap[current].pendingPermission \notin Run
    BY <1>1, <1>2 DEF PanelInv, PromptReachesRun, Live, RunPrepared, AskPermission
  <2> QED BY <2>1, <2>2, PanelAssumption DEF Run, NoRun
<1>4. PICK rec \in Record :
        /\ Put(current, rec)
        /\ rec.currentRun = heap[current].currentRun /\ rec.controller = heap[current].controller
        /\ rec.pendingPermission = IF RunPrepared(r) THEN NoRun ELSE r
  <2>1. CASE RunPrepared(r)
    <3>1. /\ Executing(heap[current]) \in Record
          /\ Executing(heap[current]).currentRun = heap[current].currentRun
          /\ Executing(heap[current]).controller = heap[current].controller
          /\ Executing(heap[current]).pendingPermission = NoRun
      BY <1>1, <1>3 DEF Record, Executing, Views
    <3>2. Put(current, Executing(heap[current]))
      BY <1>1, <2>1 DEF RunPrepared
    <3> QED BY <2>1, <3>1, <3>2
  <2>2. CASE ~RunPrepared(r)
    <3> DEFINE rec_ == [heap[current] EXCEPT !.promptShown = TRUE, !.pendingPermission = r]
    <3>1. r \in 0..MaxRuns
      BY <1>1
    <3>2. /\ rec_ \in Record /\ rec_.currentRun = heap[current].currentRun
          /\ rec_.controller = heap[current].controller /\ rec_.pendingPermission = r
      BY <1>1, <3>1 DEF Record
    <3>3. Put(current, rec_)
      BY <2>2 DEF AskPermission
    <3> QED BY <2>2, <3>2, <3>3
  <2> QED BY <2>1, <2>2
<1>5. /\ heap' \in Seq(Record) /\ current' = current /\ heap'[current] = rec
      /\ Len(heap) <= Len(heap') /\ Len(heap') \in Nat
      /\ \A p \in 1..Len(heap) : p # current => heap'[p] = heap[p]
  BY <1>1, <1>4, PutRecord
<1>6. /\ run' \in [Run -> RunState] /\ run'[r].rec = run[r].rec
      /\ run'[r].at = IF RunPrepared(r) THEN "executing" ELSE "prompting"
      /\ \A q \in Run : q # r => run'[q] = run[q]
  <2>1. run \in [Run -> RunState] /\ current \in Nat
    BY <1>1 DEF PanelTypeOK
  <2>2. PICK next \in RunState :
          /\ run' = [run EXCEPT ![r] = next] /\ next.rec = run[r].rec
          /\ next.at = IF RunPrepared(r) THEN "executing" ELSE "prompting"
    <3>1. CASE RunPrepared(r)
      <4>1. run' = [run EXCEPT ![r] = [run[r] EXCEPT !.at = "executing"]]
        BY <3>1 DEF RunPrepared
      <4>2. [run[r] EXCEPT !.at = "executing"] \in RunState
        BY <1>1 DEF RunState
      <4> QED BY <1>1, <3>1, <4>1, <4>2 DEF RunState
    <3>2. CASE ~RunPrepared(r)
      <4> DEFINE next_ == [run[r] EXCEPT !.at = "prompting", !.asked = current]
      <4>1. run' = [run EXCEPT ![r] = next_]
        BY <1>1, <2>1, <3>2 DEF AskPermission
      <4>2. next_ \in RunState /\ next_.rec = run[r].rec /\ next_.at = "prompting"
        BY <1>1, <2>1 DEF RunState
      <4> QED BY <3>2, <4>1, <4>2
    <3> QED BY <3>1, <3>2
  <2> QED BY <2>1, <2>2
<1>7. \A q \in Run : Live(q)' = Live(q)
  <2> SUFFICES ASSUME NEW q \in Run PROVE Live(q)' = Live(q)
    OBVIOUS
  <2>1. CASE q = r
    <3>1. Live(q)'
      BY <1>6, <2>1 DEF Live
    <3> QED BY <1>1, <2>1, <3>1 DEF Live
  <2>2. CASE q # r
    BY <1>6, <2>2 DEF Live
  <2> QED BY <2>1, <2>2
<1>8. NoneLive' = NoneLive
  BY <1>7 DEF NoneLive
<1>9. UNCHANGED request
  BY DEF RunPrepared, AskPermission
<1>10. PanelTypeOK'
  BY <1>1, <1>5, <1>6, <1>9 DEF PanelTypeOK
<1>11. FirstRecord' /\ RunsHoldRecord' /\ StopFindsRun'
  BY <1>1, <1>4, <1>5, <1>6, <1>7 DEF PanelInv, FirstRecord, RunsHoldRecord, StopFindsRun
<1>12. RequestsSee'
  BY <1>1, <1>5, <1>8, <1>9 DEF PanelInv, RequestsSee
<1>13. IdleSessionStartable'
  BY <1>1, <1>7 DEF IdleSessionStartable
<1>14. PromptReachesRun'
  BY <1>1, <1>2, <1>4, <1>5, <1>6, <1>7 DEF PromptReachesRun, Live, Run, NoRun
<1> QED BY <1>10, <1>11, <1>12, <1>13, <1>14 DEF PanelInv

(* A run ends: the record in the map, or the one that replaces it, is free  *)
(* for the next task; the one replaced names the run for ever.              *)
LEMMA RunEndsKeepsInv ==
    ASSUME PanelInv, NEW r \in Run, RunEnds(r)
    PROVE  PanelInv'
<1>1. /\ PanelTypeOK /\ current \in 0..Len(heap) /\ Len(heap) \in Nat
      /\ Live(r) /\ run[r].at # "prompting" /\ current # 0 /\ run[r].rec = current
      /\ heap[current] \in Record /\ heap[current].currentRun # NoRun
      /\ run[r] \in RunState /\ r \in 1..MaxRuns
  BY DEF PanelInv, PanelTypeOK, RunsHoldRecord, StopFindsRun, RunEnds, RunFinished, RunFailed,
         RunFailedUnseen, Live, Run, NoRun
<1>2. \A q \in Run : Live(q) => q = r
  BY <1>1, OneRunNamed DEF AtMostOneRun
<1>3. heap[current].pendingPermission = NoRun
  <2>1. heap[current].pendingPermission \in 0..MaxRuns
    BY <1>1 DEF Record
  <2>2. heap[current].pendingPermission \notin Run
    BY <1>1, <1>2 DEF PanelInv, PromptReachesRun, Live
  <2> QED BY <2>1, <2>2, PanelAssumption DEF Run, NoRun
<1>4. PICK place \in {0, current}, rec \in Record :
        /\ Put(place, rec) /\ rec.currentRun = NoRun /\ rec.controller = NoRun
        /\ rec.pendingPermission = NoRun
  <2>1. CASE RunFinished(r)
    <3>1. \A refused \in BOOLEAN :
            /\ Finished(refused) \in Record /\ Finished(refused).currentRun = NoRun
            /\ Finished(refused).controller = NoRun
            /\ Finished(refused).pendingPermission = NoRun
      BY EmptyIsRecord DEF Finished, Record, Views
    <3>2. run[r].refused \in BOOLEAN
      BY <1>1 DEF RunState
    <3> QED BY <2>1, <3>1, <3>2 DEF RunFinished
  <2>2. CASE RunFailed(r)
    <3> DEFINE failed == [heap[current] EXCEPT !.view = "quiet", !.promptShown = FALSE]
    <3>1. failed \in Record /\ failed.pendingPermission = NoRun
      BY <1>1, <1>3 DEF Record, Views
    <3>2. 0 \in 0..MaxRuns
      BY PanelAssumption
    <3>3. /\ Cleared(failed) \in Record /\ Cleared(failed).currentRun = NoRun
          /\ Cleared(failed).controller = NoRun /\ Cleared(failed).pendingPermission = NoRun
      <4> HIDE DEF failed
      <4> QED BY <3>1, <3>2 DEF Record, Cleared, NoRun
    <3>4. Put(0, Cleared(failed))
      BY <1>1, <2>2 DEF RunFailed
    <3> QED BY <3>3, <3>4
  <2>3. CASE RunFailedUnseen(r)
    <3>1. 0 \in 0..MaxRuns
      BY PanelAssumption
    <3>2. /\ Cleared(heap[current]) \in Record /\ Cleared(heap[current]).currentRun = NoRun
          /\ Cleared(heap[current]).controller = NoRun
          /\ Cleared(heap[current]).pendingPermission = NoRun
      BY <1>1, <1>3, <3>1 DEF Record, Cleared, NoRun
    <3> QED BY <2>3, <3>2 DEF RunFailedUnseen
  <2> QED BY <2>1, <2>2, <2>3 DEF RunEnds
<1>5. /\ heap' \in Seq(Record) /\ current' \in 1..Len(heap') /\ heap'[current'] = rec
      /\ Len(heap) <= Len(heap') /\ Len(heap') \in Nat
      /\ \A p \in 1..Len(heap) : p # current' => heap'[p] = heap[p]
  BY <1>1, <1>4, PutRecord
<1>6. UNCHANGED request /\ run' = [run EXCEPT ![r] = [NewRun(0) EXCEPT !.at = "over"]]
  BY DEF RunEnds, RunFinished, RunFailed, RunFailedUnseen, EndRun
<1>7. /\ run' \in [Run -> RunState] /\ run'[r].at = "over"
      /\ \A q \in Run : q # r => run'[q] = run[q]
  BY <1>1, <1>6 DEF PanelTypeOK, RunState, NewRun
<1>8. NoneLive' /\ \A q \in Run : run'[q].at # "prompting"
  BY <1>2, <1>7 DEF NoneLive, Live
<1>9. PanelTypeOK'
  BY <1>1, <1>5, <1>6, <1>7 DEF PanelTypeOK
<1>10. FirstRecord' /\ RunsHoldRecord' /\ StopFindsRun'
  BY <1>5, <1>8 DEF FirstRecord, RunsHoldRecord, StopFindsRun, NoneLive
<1>11. RequestsSee'
  <2>1. RequestMoves
    BY <1>1, <1>6, RequestsMove, Zenon DEF RequestMoves, PanelTypeOK
  <2> QED BY <1>1, <1>5, <1>8, <2>1, SeenKept
<1>12. IdleSessionStartable'
  BY <1>4, <1>5 DEF IdleSessionStartable, At
<1>13. PromptReachesRun'
  BY <1>4, <1>5, <1>8 DEF PromptReachesRun, Run, NoRun
<1> QED BY <1>9, <1>10, <1>11, <1>12, <1>13 DEF PanelInv

-----------------------------------------------------------------------------
(* Every step of requests and runs keeps the invariant. *)
LEMMA InvNext == PanelInv /\ [Next]_vars => PanelInv'
<1> SUFFICES ASSUME PanelInv, [Next]_vars PROVE PanelInv'
  OBVIOUS
<1>1. CASE \E c \in DOMAIN request : Route(c) \/ Resume(c)
  BY <1>1, RouteKeepsInv, ResumeKeepsInv
<1>2. CASE \E r \in Run : RunStep(r)
  BY <1>2, RunGoesOnKeepsInv, RunEndsKeepsInv DEF RunStep
<1>3. CASE UNCHANGED vars
  <2>1. RequestMoves
    BY <1>3 DEF RequestMoves, PanelInv, PanelTypeOK, vars
  <2> QED BY <1>3, <2>1, RequestKeepsInv DEF vars
<1> QED BY <1>1, <1>2, <1>3 DEF Next

(* For any number of requests and runs, records, requests and runs of a     *)
(* session go together as the invariant says.                               *)
THEOREM PanelCorrect == Spec => []PanelInv
BY InvInit, InvNext, PTL DEF Spec

(* However many start requests cross at their awaits, one task runs         *)
(* (startTask, 'A task is already running in this session.').               *)
THEOREM OneTaskRuns == Spec => []AtMostOneRun
BY PanelCorrect, OneRunNamed, PTL

(* Whatever replaces the record in the map meanwhile, a stop finds the run  *)
(* and its controller there (stopSession).                                  *)
THEOREM StopReachesRun == Spec => []StopFindsRun
<1>1. PanelInv => StopFindsRun
  BY DEF PanelInv
<1> QED BY <1>1, PanelCorrect, PTL

(* A decision of the user reaches the run that waits for it, and no other   *)
(* (confirm, resolvePermissionDecision).                                    *)
THEOREM AnswerReachesRun == Spec => []PromptReachesRun
<1>1. PanelInv => PromptReachesRun
  BY DEF PanelInv
<1> QED BY <1>1, PanelCorrect, PTL

(* No way a run can end leaves the session locked (finally of startTask). *)
THEOREM SessionIsFreed == Spec => []IdleSessionStartable
<1>1. PanelInv => IdleSessionStartable
  BY DEF PanelInv
<1> QED BY <1>1, PanelCorrect, PTL
=============================================================================
