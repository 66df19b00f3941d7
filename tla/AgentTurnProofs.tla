--------------------------- MODULE AgentTurnProofs ---------------------------
(***************************************************************************)
(* Proofs about AgentTurn for any tools, bounds and histories.              *)
(***************************************************************************)
EXTENDS AgentTurn, SelectionProofs, SequenceTheorems

(* What the sets of small records and sequences give, stated once. *)
LEMMA MessageTypes ==
    /\ \A r \in {"user", "system", "assistant", "tool"}, k \in 0..MaxCalls :
          Msg(r, k) \in Message
    /\ NoSlots \in [1..MaxCalls -> SlotStates]
    /\ Settled \subseteq SlotStates /\ Active \subseteq SlotStates
BY DEF Msg, Message, NoSlots, SlotStates, Settled, Active

(* A history with one more message is a history. *)
LEMMA AppendTyped ==
    ASSUME NEW ms \in Seq(Message), NEW m \in Message
    PROVE  Append(ms, m) \in Seq(Message)
OBVIOUS

(* A new engine is within its types. *)
LEMMA InitTyped == Init => TypeOK
<1> SUFFICES ASSUME Init PROVE TypeOK
    OBVIOUS
<1>1. MaxTurns \in Nat /\ MaxCalls \in Nat /\ MaxSubmits \in Nat
    BY AgentTurnAssumption
<1>2. calls \in Seq(Tool) /\ Len(calls) = 0 /\ messages \in Seq(Message)
    BY DEF Init
<1>3. slot \in [1..MaxCalls -> SlotStates]
    BY MessageTypes DEF Init
<1>4. aborted \in BOOLEAN
    BY Zenon DEF Init
<1>5. discovered \subseteq Discoverable /\ outcome \in Outcomes
    BY DEF Init, Outcomes
<1>6. step \in 0..MaxTurns /\ submits \in 0..MaxSubmits /\ answered \in 0..MaxCalls
    BY <1>1 DEF Init
<1>7. Len(calls) <= MaxCalls
    BY <1>1, <1>2
<1> QED
    BY <1>2, <1>3, <1>4, <1>5, <1>6, <1>7, Zenon DEF Init, TypeOK

(* Every step keeps the types; one step of the proof per action. *)
LEMMA StepTyped == TypeOK /\ [Next]_vars => TypeOK'
<1> SUFFICES ASSUME TypeOK, [Next]_vars PROVE TypeOK'
    OBVIOUS
<1> DEFINE Texts == /\ pc' \in {"idle", "ready", "generating", "running",
                                "recording", "closing"}
                    /\ mode' \in {"turn", "direct"}
                    /\ outcome' \in Outcomes
           Counts == /\ step' \in 0..MaxTurns /\ submits' \in 0..MaxSubmits
                     /\ (pc' \in {"generating", "running", "recording"} /\ mode' = "turn")
                          => step' < MaxTurns
           Calls  == /\ calls' \in Seq(Tool) /\ Len(calls') <= MaxCalls
                     /\ slot' \in [1..MaxCalls -> SlotStates]
                     /\ answered' \in 0..MaxCalls
           Known  == /\ messages' \in Seq(Message)
                     /\ discovered' \subseteq Discoverable
           Signal == aborted' \in BOOLEAN
<1> USE DEF Texts, Counts, Calls, Known, Signal
<1>0. MaxTurns \in Nat \ {0} /\ MaxCalls \in Nat \ {0} /\ MaxSubmits \in Nat
    BY AgentTurnAssumption
<1>t. (Texts /\ Counts /\ Calls /\ Known /\ Signal) => TypeOK'
    BY Zenon DEF TypeOK
<1>c. NoCalls => Calls
    <2> SUFFICES ASSUME NoCalls PROVE Calls
        OBVIOUS
    <2> QED  BY <1>0, MessageTypes DEF NoCalls
<1>k. UNCHANGED <<calls, slot, answered>> => Calls
    BY DEF TypeOK
<1>a. aborted' = aborted => Signal
    BY Zenon DEF TypeOK
<1>m. \A r \in {"user", "system", "assistant", "tool"}, k \in 0..MaxCalls :
          Append(messages, Msg(r, k)) \in Seq(Message)
    BY MessageTypes, AppendTyped DEF TypeOK
<1>z. 0 \in 0..MaxCalls
    BY <1>0
<1>s. \A i, s : SetSlot(i, s) /\ s \in SlotStates => TypeOK'
    <2> SUFFICES ASSUME NEW i, NEW s \in SlotStates, SetSlot(i, s) PROVE TypeOK'
        OBVIOUS
    <2>1. Texts /\ Counts /\ Known
        BY DEF SetSlot, TypeOK
    <2>2. Calls
        BY DEF SetSlot, TypeOK
    <2> QED  BY <2>1, <2>2, <1>a, <1>t DEF SetSlot
<1>1. CASE SubmitUserMessage
    <2>0. /\ submits' = submits + 1 /\ submits < MaxSubmits
          /\ \/ pc' = "closing" /\ step' = step
             \/ pc' = "ready" /\ step' = 0
        BY <1>1 DEF SubmitUserMessage, Close
    <2>1. Counts
        BY <2>0, <1>0 DEF TypeOK
    <2>2. Texts /\ Known
        BY <1>1, <1>m, <1>z DEF SubmitUserMessage, Close, Outcomes, TypeOK
    <2>3. Calls /\ Signal
        BY <1>1, <1>k, <1>a DEF SubmitUserMessage
    <2> QED  BY <2>1, <2>2, <2>3, <1>t
<1>2. ASSUME NEW t \in Tool, ExecuteTool(t) PROVE TypeOK'
    <2>1. Texts /\ Counts /\ Known
        BY <1>2, <1>0 DEF ExecuteTool, TypeOK
    <2>2. calls' \in Seq(Tool) /\ Len(calls') <= MaxCalls
        BY <1>2, <1>0 DEF ExecuteTool
    <2>3. slot' \in [1..MaxCalls -> SlotStates] /\ answered' \in 0..MaxCalls
        BY <1>2, MessageTypes DEF ExecuteTool, Settled, TypeOK
    <2> QED  BY <1>2, <2>1, <2>2, <2>3, <1>a, <1>t DEF ExecuteTool
<1>3. CASE Abort
    <2>1. Texts /\ Counts /\ Known /\ Calls
        BY <1>3, <1>k DEF Abort, TypeOK
    <2>2. Signal
        BY <1>3, Zenon DEF Abort
    <2> QED  BY <2>1, <2>2, <1>t
<1>4. CASE BeginRound
    <2>1. Texts /\ Counts /\ Known /\ Calls
        BY <1>4, <1>k, <1>m, <1>z DEF BeginRound, RequestModel, TypeOK
    <2> QED  BY <1>4, <2>1, <1>a, <1>t DEF BeginRound, RequestModel
<1>5. CASE ReachMaxTurns
    <2>1. Texts /\ Counts /\ Known /\ Calls
        BY <1>5, <1>k, <1>m, <1>z DEF ReachMaxTurns, Close, Outcomes, TypeOK
    <2> QED  BY <1>5, <2>1, <1>a, <1>t DEF ReachMaxTurns
<1>6. CASE StopAborted
    <2>1. Texts /\ Counts /\ Known
        BY <1>6, <1>m, <1>z DEF StopAborted, Close, Outcomes, TypeOK
    <2> QED  BY <1>6, <2>1, <1>c, <1>a, <1>t DEF StopAborted
<1>7. CASE ModelAnswersFinal
    <2>1. Texts /\ Counts /\ Known /\ Calls
        BY <1>7, <1>k, <1>m, <1>z DEF ModelAnswersFinal, Close, Outcomes, TypeOK
    <2> QED  BY <1>7, <2>1, <1>a, <1>t DEF ModelAnswersFinal
<1>8. ASSUME NEW cs \in CallsOf, ModelAnswersCalls(cs) PROVE TypeOK'
    <2>1. PICK k \in 0..MaxCalls : cs \in [1..k -> Tool]
        BY DEF CallsOf
    <2>2. cs \in Seq(Tool) /\ Len(cs) = k
        BY <2>1, <1>0
    <2>3. Texts /\ Counts
        BY <1>8 DEF ModelAnswersCalls, TypeOK
    <2>4. Known
        BY <1>8, <2>2, <1>m DEF ModelAnswersCalls, TypeOK
    <2>5. Calls
        BY <1>8, <1>0, <2>2 DEF ModelAnswersCalls, TypeOK
    <2> QED  BY <1>8, <2>3, <2>4, <2>5, <1>a, <1>t DEF ModelAnswersCalls
<1>9. CASE ReturnResult
    <2>1. Texts /\ Counts /\ Known /\ Calls
        BY <1>9, <1>k DEF ReturnResult, TypeOK
    <2> QED  BY <1>9, <2>1, <1>a, <1>t DEF ReturnResult
<1>10. CASE Fail
    <2>1. Texts /\ Counts /\ Known
        BY <1>10 DEF Fail, Outcomes, TypeOK
    <2> QED  BY <1>10, <2>1, <1>c, <1>a, <1>t DEF Fail
<1>11. ASSUME NEW i \in 1..MaxCalls, CallStep(i) PROVE TypeOK'
    <2>1. \E s \in SlotStates : SetSlot(i, s)
        BY <1>11 DEF CallStep, StartCall, DenyCall, PermitCall, ToolReturns,
                     SlotStates, Active, Settled
    <2> QED  BY <2>1, <1>s
<1>12. CASE RoundExecuted
    <2>1. Texts /\ Counts /\ Known /\ Calls
        BY <1>12, <1>k DEF RoundExecuted, TypeOK
    <2> QED  BY <1>12, <2>1, <1>a, <1>t DEF RoundExecuted
<1>13. CASE RecordResult
    <2>1. answered + 1 \in 1..Len(calls) /\ answered + 1 \in 0..MaxCalls
        BY <1>13, <1>0 DEF RecordResult, TypeOK
    <2>2. discovered' \subseteq Discoverable
        BY <1>13, AgentTurnAssumption DEF RecordResult, Learned, TypeOK
    <2>3. Texts /\ Counts /\ Calls
        BY <1>13, <2>1 DEF RecordResult, TypeOK
    <2>4. Known
        BY <1>13, <2>1, <2>2, <1>m DEF RecordResult
    <2> QED  BY <1>13, <2>3, <2>4, <1>a, <1>t DEF RecordResult
<1>14. CASE RoundRecorded
    <2>1. Texts /\ Known
        BY <1>14 DEF RoundRecorded, TypeOK
    <2>2. Counts
        BY <1>14, <1>0 DEF RoundRecorded, TypeOK
    <2> QED  BY <1>14, <2>1, <2>2, <1>c, <1>a, <1>t DEF RoundRecorded
<1>15. CASE UNCHANGED vars
    <2>1. Texts /\ Counts /\ Known /\ Calls
        BY <1>15, <1>k DEF vars, TypeOK
    <2> QED  BY <1>15, <2>1, <1>a, <1>t DEF vars
<1> QED
    BY <1>1, <1>2, <1>3, <1>4, <1>5, <1>6, <1>7, <1>8, <1>9, <1>10, <1>11, <1>12,
       <1>13, <1>14, <1>15, Zenon DEF Next, EngineStep, ModelAnswers

(* One engine, whatever the model answers and whatever tools it calls, keeps *)
(* its state within its types. *)
THEOREM TypeCorrect == Spec => []TypeOK
BY InitTyped, StepTyped, PTL DEF Spec
-----------------------------------------------------------------------------
(* The invariant behind the ordering of calls: a call that has started found *)
(* the batches before its own over, and a call that is over stays over.      *)
Started == \A i \in Round : slot[i] # "waiting" => BatchReached(i)

(* A step of one call of a round, from waiting on, leaves every started call *)
(* with the batches before its own over.                                     *)
LEMMA CallStepKeepsOrder ==
    ASSUME TypeOK, Started, NEW i \in 1..MaxCalls, CallStep(i)
    PROVE  Started'
<1> USE AgentTurnAssumption
<1>1. /\ calls' = calls /\ i \in Round /\ slot[i] \notin Settled
      /\ (slot[i] = "waiting" => BatchReached(i))
      /\ \A k \in 1..MaxCalls : k # i => slot'[k] = slot[k]
    BY DEF CallStep, StartCall, DenyCall, PermitCall, ToolReturns, SetSlot,
           Settled, TypeOK
<1>2. BatchReached(i)
    BY <1>1 DEF Started
<1> SUFFICES ASSUME NEW k \in Round, slot'[k] # "waiting" PROVE BatchReached(k)'
    BY <1>1 DEF Started, Round
<1>3. BatchReached(k)
    BY <1>1, <1>2 DEF Started, Round, TypeOK
<1> SUFFICES ASSUME NEW j \in 1..(k-1) PROVE slot'[j] \in Settled \/ SameBatch(j, k)'
    BY DEF BatchReached
<1>4. SameBatch(j, k) => SameBatch(j, k)'
    BY <1>1 DEF SameBatch, Par
<1>5. slot[j] \in Settled => slot'[j] = slot[j]
    BY <1>1 DEF Round, TypeOK
<1> QED  BY <1>3, <1>4, <1>5 DEF BatchReached

(* Every step keeps a round in its order; one step of the proof per action. *)
LEMMA StepKeepsRound == TypeOK /\ RoundInv /\ [Next]_vars => RoundInv'
<1> SUFFICES ASSUME TypeOK, RoundInv, [Next]_vars PROVE RoundInv'
    OBVIOUS
<1> USE AgentTurnAssumption
<1> DEFINE InRound(p) == p \in {"running", "recording"}
           InLoop(p) == p \in {"ready", "generating", "closing"}
           Quiet == calls = <<>> /\ slot = NoSlots /\ answered = 0
<1>r. RoundInv <=> /\ answered <= Len(calls)
                   /\ ~InRound(pc) => Quiet
                   /\ pc = "running" => answered = 0
                   /\ InLoop(pc) => mode = "turn"
                   /\ Started
    BY DEF RoundInv, Started
<1>q. Quiet' /\ (InLoop(pc') => mode' = "turn") => RoundInv'
    <2> SUFFICES ASSUME Quiet', InLoop(pc') => mode' = "turn" PROVE RoundInv'
        OBVIOUS
    <2>1. Started'
        BY DEF Started, Round
    <2> QED  BY <2>1 DEF RoundInv, Started
<1>n. NoCalls => Quiet'
    BY DEF NoCalls
<1>u. ~InRound(pc) /\ UNCHANGED <<calls, slot, answered>> => Quiet'
    BY <1>r
<1>1. CASE SubmitUserMessage
    BY <1>1, <1>r, <1>u, <1>q DEF SubmitUserMessage, Close
<1>2. ASSUME NEW t \in Tool, ExecuteTool(t) PROVE RoundInv'
    <2>1. Quiet
        BY <1>2, <1>r DEF ExecuteTool
    <2>2. Len(calls') = 1 /\ answered' = 0 /\ InRound(pc')
        BY <1>2, <2>1 DEF ExecuteTool
    <2>3. Started'
        BY <2>2 DEF Started, Round, BatchReached
    <2> QED  BY <2>2, <2>3 DEF RoundInv, Started
<1>3. CASE Abort
    BY <1>3, <1>r DEF Abort, RoundInv, Started, Round, BatchReached, SameBatch, Par
<1>4. CASE BeginRound
    BY <1>4, <1>r, <1>u, <1>q DEF BeginRound, RequestModel
<1>5. CASE ReachMaxTurns
    BY <1>5, <1>r, <1>u, <1>q DEF ReachMaxTurns, Close
<1>6. CASE StopAborted
    BY <1>6, <1>r, <1>n, <1>q DEF StopAborted, Close
<1>7. CASE ModelAnswersFinal
    BY <1>7, <1>r, <1>u, <1>q DEF ModelAnswersFinal, Close
<1>8. ASSUME NEW cs \in CallsOf, ModelAnswersCalls(cs) PROVE RoundInv'
    <2>1. PICK k \in 0..MaxCalls : cs \in [1..k -> Tool]
        BY DEF CallsOf
    <2>2. calls' \in Seq(Tool) /\ Len(calls') = k
        BY <1>8, <2>1 DEF ModelAnswersCalls
    <2>3. slot' = NoSlots /\ answered' = 0 /\ pc' = "running"
        BY <1>8, <1>r DEF ModelAnswersCalls
    <2>4. Started'
        BY <2>2, <2>3 DEF NoSlots, Started, Round
    <2> QED  BY <2>2, <2>3, <2>4 DEF RoundInv, Started
<1>9. CASE ReturnResult
    BY <1>9, <1>r, <1>u, <1>q DEF ReturnResult
<1>10. CASE Fail
    BY <1>10, <1>r, <1>n, <1>q DEF Fail
<1>11. ASSUME NEW i \in 1..MaxCalls, CallStep(i) PROVE RoundInv'
    <2>1. Started'
        BY <1>11, <1>r, CallStepKeepsOrder
    <2>2. pc = "running" /\ UNCHANGED <<pc, calls, answered>>
        BY <1>11 DEF CallStep, StartCall, DenyCall, PermitCall, ToolReturns, SetSlot
    <2> QED  BY <2>1, <2>2 DEF RoundInv, Started
<1>12. CASE RoundExecuted
    BY <1>12, <1>r DEF RoundExecuted, RoundInv, Started, Round, BatchReached, SameBatch, Par
<1>13. CASE RecordResult
    <2>1. answered' <= Len(calls') /\ InRound(pc')  /\ pc' # "running"
        BY <1>13 DEF RecordResult, TypeOK
    <2>2. Started'
        BY <1>13, <1>r DEF RecordResult, Started, Round, BatchReached, SameBatch, Par
    <2> QED  BY <2>1, <2>2 DEF RoundInv, Started
<1>14. CASE RoundRecorded
    BY <1>14, <1>r, <1>n, <1>q DEF RoundRecorded
<1>15. CASE UNCHANGED vars
    BY <1>15, <1>r DEF vars, RoundInv, Started, Round, BatchReached, SameBatch, Par
<1> QED
    BY <1>1, <1>2, <1>3, <1>4, <1>5, <1>6, <1>7, <1>8, <1>9, <1>10, <1>11, <1>12,
       <1>13, <1>14, <1>15, Zenon DEF Next, EngineStep, ModelAnswers

(* Before the first turn there is no round. *)
LEMMA InitRound == Init => RoundInv
BY DEF Init, RoundInv, Round

(* Whatever the model answers, a round is run batch after batch, and nothing *)
(* of it is left over outside it: the inductive invariant of the two         *)
(* theorems on the order of calls.                                           *)
THEOREM RoundCorrect == Spec => []RoundInv
<1>1. Init => TypeOK /\ RoundInv
    BY InitTyped, InitRound
<1>2. TypeOK /\ RoundInv /\ [Next]_vars => (TypeOK /\ RoundInv)'
    BY StepTyped, StepKeepsRound
<1> QED  BY <1>1, <1>2, PTL DEF Spec

(* Whatever mix of tools an answer asks for, a call that is not parallel-safe *)
(* is executed alone and in its place in the order of the calls. *)
THEOREM SerialAlone == Spec => []SerialCallsRunAlone
<1>1. TypeOK /\ RoundInv => SerialCallsRunAlone
    <2> SUFFICES ASSUME TypeOK, RoundInv,
                        NEW i \in Round, NEW j \in Round, i # j,
                        slot[i] \in Active, slot[j] \in Active
                 PROVE  Par(i) /\ Par(j)
        BY DEF SerialCallsRunAlone
    <2>1. \A a, b \in Round : a < b /\ slot[a] \in Active /\ slot[b] \in Active
              => Par(a) /\ Par(b)
        BY DEF RoundInv, BatchReached, SameBatch, Round, Active, Settled, TypeOK
    <2>2. i < j \/ j < i
        BY DEF Round, TypeOK
    <2> QED  BY <2>1, <2>2
<1> QED  BY <1>1, TypeCorrect, RoundCorrect, PTL

(* A call that is not parallel-safe starts when every call before it in the  *)
(* answer is over, and is over before any call behind it starts.             *)
THEOREM SerialInOrder == Spec => []SerialCallsKeepOrder
<1>1. TypeOK /\ RoundInv => SerialCallsKeepOrder
    BY DEF SerialCallsKeepOrder, RoundInv, BatchReached, SameBatch, Round, TypeOK
<1> QED  BY <1>1, TypeCorrect, RoundCorrect, PTL
-----------------------------------------------------------------------------
\* The recursion of PlanUpTo has a solution, so that PlanUpTo is one.
LEMMA PlanUnfolds ==
    ASSUME NEW n \in Nat, NEW P
    PROVE  \A i \in 0..n : PlanUpTo(n, P)[i] =
              IF i = 0 THEN [batches |-> <<>>, pending |-> <<>>]
              ELSE Placed(PlanUpTo(n, P)[i - 1], i, P)
<1> DEFINE Body(f, i) == IF i = 0 THEN [batches |-> <<>>, pending |-> <<>>]
                         ELSE Placed(f[i - 1], i, P)
           Solves(f, m) == f = [i \in 0..m |-> Body(f, i)]
           Known == {m \in Nat : \E f : Solves(f, m)}
<1>1. 0 \in Known
  <2> DEFINE e == [i \in 0..0 |-> [batches |-> <<>>, pending |-> <<>>]]
  <2>1. Solves(e, 0)
    OBVIOUS
  <2> QED BY <2>1
<1>2. ASSUME NEW m \in Nat, m \in Known PROVE m + 1 \in Known
  <2>1. PICK h : Solves(h, m)
    BY <1>2
  <2> DEFINE g == [i \in 0..(m + 1) |-> IF i = m + 1 THEN Body(h, i) ELSE h[i]]
  <2>2. \A i \in 0..m : g[i] = h[i]
    OBVIOUS
  <2>3. \A i \in 0..m : h[i] = Body(h, i)
    BY <2>1, Zenon
  <2>4. \A i \in 0..(m + 1) : Body(g, i) = Body(h, i)
    BY <2>2
  <2>5. \A i \in 0..(m + 1) : g[i] = Body(g, i)
    BY <2>3, <2>4
  <2> HIDE DEF Body
  <2>6. g = [i \in 0..(m + 1) |-> Body(g, i)]
    BY <2>5
  <2>7. Solves(g, m + 1)
    BY <2>6
  <2> HIDE DEF g, Solves
  <2> QED BY <2>7
<1>3. n \in Known
  <2> HIDE DEF Known
  <2> QED BY <1>1, <1>2, SetInduction
<1>4. \E f : Solves(f, n)
  BY <1>3
<1>5. PlanUpTo(n, P) = CHOOSE f : Solves(f, n)
  BY DEF PlanUpTo
<1> HIDE DEF Body
<1>6. Solves(PlanUpTo(n, P), n)
  BY <1>4, <1>5, Zenon
<1>7. \A i \in 0..n : PlanUpTo(n, P)[i] = Body(PlanUpTo(n, P), i)
  BY <1>6, Zenon
<1> QED BY <1>7 DEF Body

\* A batch of a plan has a position.
Has(bs, b, i) == \E k \in DOMAIN bs[b] : bs[b][k] = i

\* The batches are those of the first q positions, of which the ones in P are parallel.
Batches(bs, q, P) ==
    /\ bs \in Seq(Seq(1..q))
    /\ \A b, c \in DOMAIN bs : \A k \in DOMAIN bs[b], l \in DOMAIN bs[c] :
          b < c \/ (b = c /\ k < l) => bs[b][k] < bs[c][l]
    /\ \A i, j \in 1..q : i <= j =>
          ((i = j \/ \A k \in i..j : k \in P) <=> \E b \in DOMAIN bs : Has(bs, b, i) /\ Has(bs, b, j))

\* One batch more, of positions that are parallel or one alone, after one that ends there.
LEMMA BatchAppended ==
    ASSUME NEW P, NEW q \in Nat, NEW bs, Batches(bs, q, P),
           NEW c \in Seq(Nat), c # <<>>, \A k \in 1..Len(c) : c[k] = q + k,
           Len(c) = 1 \/ \A i \in (q + 1)..(q + Len(c)) : i \in P,
           q = 0 \/ q \notin P \/ q + 1 \notin P
    PROVE  Batches(Append(bs, c), q + Len(c), P)
<1> DEFINE new == Append(bs, c)
           n == Len(c)
           r == q + n
           m == Len(bs)
<1>0. /\ n \in Nat /\ n > 0 /\ DOMAIN c = 1..n /\ \A k \in 1..n : c[k] = q + k
      /\ n = 1 \/ \A i \in (q + 1)..(q + n) : i \in P
  OBVIOUS
<1>1. /\ bs \in Seq(Seq(1..q)) /\ m \in Nat /\ DOMAIN bs = 1..m
      /\ DOMAIN new = 1..(m + 1) /\ new[m + 1] = c /\ \A b \in 1..m : new[b] = bs[b]
      /\ Len(new) = m + 1
  BY DEF Batches
<1>2. DOMAIN c = 1..n /\ c \in Seq((q + 1)..r)
  BY <1>0
<1>3. c \in Seq(1..r)
  BY <1>0
<1> HIDE DEF n
<1>4. r \in Nat /\ \A i \in 1..q : i \in 1..r
  BY <1>0
<1>5. \A b \in 1..m : bs[b] \in Seq(1..q) /\ bs[b] \in Seq(1..r)
  BY <1>1, <1>4
<1>6. new \in Seq(Seq(1..r))
  <2> HIDE DEF new, r, m
  <2>1. \A b \in 1..(m + 1) : new[b] \in Seq(1..r)
    BY <1>1, <1>5, <1>3
  <2>2. bs \in Seq(Seq(1..r))
    BY <1>1, <1>5
  <2> QED BY <1>3, <2>2 DEF new
<1>7. \A b \in 1..m : \A i : Has(new, b, i) <=> Has(bs, b, i)
  BY <1>1 DEF Has
<1>8. \A b \in 1..m : \A i : Has(bs, b, i) => i \in 1..q
  BY <1>5 DEF Has
<1>9. \A i : Has(new, m + 1, i) <=> i \in (q + 1)..r
  <2>1. ASSUME NEW i, Has(new, m + 1, i) PROVE i \in (q + 1)..r
    <3>1. PICK k \in DOMAIN c : c[k] = i
      BY <1>1, <2>1 DEF Has
    <3> QED BY <1>0, <3>1
  <2>2. ASSUME NEW i \in (q + 1)..r PROVE Has(new, m + 1, i)
    <3>1. i - q \in 1..n /\ c[i - q] = i
      BY <1>0
    <3> HIDE DEF new
    <3> QED BY <1>1, <1>2, <3>1 DEF Has
  <2> QED BY <2>1, <2>2
<1>10. ASSUME NEW b \in DOMAIN new, NEW d \in DOMAIN new,
              NEW k \in DOMAIN new[b], NEW l \in DOMAIN new[d], b < d \/ (b = d /\ k < l)
       PROVE  new[b][k] < new[d][l]
  <2> HIDE DEF new, m, r
  <2>1. CASE d \in 1..m
    <3>1. b \in 1..m
      BY <1>1, <1>10, <2>1
    <3>2. new[b] = bs[b] /\ new[d] = bs[d] /\ b \in DOMAIN bs /\ d \in DOMAIN bs
      BY <1>1, <2>1, <3>1
    <3> QED BY <1>10, <3>2 DEF Batches
  <2>2. CASE d = m + 1 /\ b \in 1..m
    <3>1. new[b] = bs[b] /\ new[d] = c
      BY <1>1, <2>2
    <3>2. new[b][k] \in 1..q
      BY <1>5, <2>2, <3>1
    <3>3. l \in 1..n /\ new[d][l] = c[l]
      BY <1>2, <3>1
    <3>4. new[d][l] = q + l
      BY <1>0, <3>3
    <3> QED BY <3>2, <3>3, <3>4
  <2>3. CASE d = m + 1 /\ b = m + 1
    <3>1. new[b] = c /\ new[d] = c /\ k < l
      BY <1>1, <1>10, <2>3
    <3>2. k \in 1..n /\ l \in 1..n
      BY <1>2, <3>1
    <3> QED BY <1>0, <3>1, <3>2
  <2> QED BY <1>1, <2>1, <2>2, <2>3
<1>11. ASSUME NEW i \in 1..r, NEW j \in 1..r, i <= j
       PROVE  (i = j \/ \A k \in i..j : k \in P)
                 <=> \E b \in DOMAIN new : Has(new, b, i) /\ Has(new, b, j)
  <2> HIDE DEF Has, new, m
  <2>1. CASE j <= q
    <3>1. i \in 1..q /\ j \in 1..q /\ j \notin (q + 1)..r
      BY <1>11, <2>1
    <3>2. (i = j \/ \A k \in i..j : k \in P)
             <=> \E b \in DOMAIN bs : Has(bs, b, i) /\ Has(bs, b, j)
      BY <1>11, <3>1 DEF Batches
    <3>3. ~Has(new, m + 1, j)
      BY <1>9, <3>1
    <3>4. \A b \in 1..m : Has(new, b, i) /\ Has(new, b, j) <=> Has(bs, b, i) /\ Has(bs, b, j)
      BY <1>7
    <3>5. (\E b \in DOMAIN new : Has(new, b, i) /\ Has(new, b, j))
             <=> \E b \in 1..m : Has(new, b, i) /\ Has(new, b, j)
      <4>1. \A b : b \in DOMAIN new <=> b \in 1..m \/ b = m + 1
        BY <1>1
      <4> QED BY <3>3, <4>1
    <3>6. (\E b \in DOMAIN bs : Has(bs, b, i) /\ Has(bs, b, j))
             <=> \E b \in 1..m : Has(bs, b, i) /\ Has(bs, b, j)
      BY <1>1
    <3> QED BY <3>2, <3>4, <3>5, <3>6
  <2>2. CASE ~(j <= q) /\ i <= q
    <3>1. q \in i..j /\ q + 1 \in i..j /\ i # j /\ q # 0 /\ i \in 1..q
          /\ i \notin (q + 1)..r /\ j \notin 1..q
      BY <1>11, <2>2
    <3>2. ~(i = j \/ \A k \in i..j : k \in P)
      BY <3>1
    <3>3. \A b \in 1..m : ~Has(new, b, j)
      BY <1>7, <1>8, <3>1
    <3>4. ~Has(new, m + 1, i)
      BY <1>9, <3>1
    <3>5. \A b : b \in DOMAIN new <=> b \in 1..m \/ b = m + 1
      BY <1>1
    <3> QED BY <3>2, <3>3, <3>4, <3>5
  <2>3. CASE ~(j <= q) /\ ~(i <= q)
    <3>1. i \in (q + 1)..r /\ j \in (q + 1)..r
      BY <1>11, <2>3
    <3>2. Has(new, m + 1, i) /\ Has(new, m + 1, j)
      BY <1>9, <3>1
    <3>3. i = j \/ \A k \in i..j : k \in P
      <4>1. CASE n = 1
        <5>1. i = q + 1 /\ j = q + 1
          BY <3>1, <4>1
        <5> QED BY <5>1
      <4>2. CASE \A k \in (q + 1)..(q + n) : k \in P
        <5>1. \A k \in i..j : k \in (q + 1)..(q + n)
          BY <1>0, <3>1
        <5> QED BY <4>2, <5>1
      <4> QED BY <1>0, <4>1, <4>2
    <3>4. m + 1 \in DOMAIN new
      BY <1>1
    <3> QED BY <3>2, <3>3, <3>4
  <2> QED BY <2>1, <2>2, <2>3
<1> HIDE DEF new, r, Has
<1>12. Batches(new, r, P)
  BY <1>6, <1>10, <1>11 DEF Batches
<1> QED BY <1>12 DEF new, r, n

\* What is pending is the end of n positions, behind the first q, which end with one that is
\* not parallel.
Pends(p, q, n, P) ==
    /\ p.pending \in Seq(Nat) /\ q + Len(p.pending) = n
    /\ \A k \in 1..Len(p.pending) : p.pending[k] = q + k
    /\ \A i \in (q + 1)..n : i \in P
    /\ q = 0 \/ q \notin P
    /\ Batches(p.batches, q, P)

\* Flushing puts what is pending in a batch.
LEMMA Flushed ==
    ASSUME NEW p, NEW P, NEW q \in Nat, NEW n \in Nat, Pends(p, q, n, P)
    PROVE  Batches(Flush(p), n, P)
<1>1. /\ p.pending \in Seq(Nat) /\ q + Len(p.pending) = n
      /\ \A k \in 1..Len(p.pending) : p.pending[k] = q + k
      /\ \A i \in (q + 1)..(q + Len(p.pending)) : i \in P
      /\ q = 0 \/ q \notin P
      /\ Batches(p.batches, q, P)
  BY DEF Pends
<1> HIDE DEF Batches
<1>2. CASE p.pending = <<>>
  <2>1. Len(p.pending) = 0 /\ q = n
    BY <1>1, <1>2
  <2> QED BY <1>1, <1>2, <2>1 DEF Flush
<1>3. CASE p.pending # <<>>
  <2>1. Batches(Append(p.batches, p.pending), q + Len(p.pending), P)
    BY <1>1, <1>3, BatchAppended
  <2> QED BY <1>1, <1>3, <2>1 DEF Flush
<1> QED BY <1>2, <1>3

LEMMA PlanPends ==
    ASSUME NEW n \in Nat, NEW P
    PROVE  \E q \in Nat : Pends(PlanUpTo(n, P)[n], q, n, P)
<1> DEFINE f == PlanUpTo(n, P)
           Known == {i \in Nat : i <= n => \E q \in Nat : Pends(f[i], q, i, P)}
<1>1. /\ f[0] = [batches |-> <<>>, pending |-> <<>>]
      /\ \A i \in 1..n : f[i] = Placed(f[i - 1], i, P)
  BY PlanUnfolds
<1> HIDE DEF f
<1>2. 0 \in Known
  <2>1. Batches(<<>>, 0, P)
    <3>1. <<>> \in Seq(Seq(1..0)) /\ DOMAIN <<>> = {} /\ 1..0 = {}
      OBVIOUS
    <3> QED BY <3>1 DEF Batches
  <2>2. <<>> \in Seq(Nat) /\ Len(<<>>) = 0
    OBVIOUS
  <2> HIDE DEF Batches
  <2> DEFINE e == f[0]
  <2>3. e.batches = <<>> /\ e.pending = <<>>
    BY <1>1
  <2> HIDE DEF e
  <2>4. Pends(e, 0, 0, P)
    BY <2>1, <2>2, <2>3 DEF Pends
  <2> QED BY <2>4 DEF e
<1>3. ASSUME NEW i \in Nat, i \in Known PROVE i + 1 \in Known
  <2> DEFINE p == f[i]
             r == f[i + 1]
  <2> SUFFICES ASSUME i + 1 <= n PROVE \E q \in Nat : Pends(r, q, i + 1, P)
    OBVIOUS
  <2>1. r = Placed(p, i + 1, P)
    BY <1>1
  <2>2. PICK q \in Nat : Pends(p, q, i, P)
    BY <1>3
  <2> HIDE DEF p, r
  <2>3. CASE i + 1 \in P
    <3>1. r.pending = Append(p.pending, i + 1) /\ r.batches = p.batches
      BY <2>1, <2>3 DEF Placed
    <3> DEFINE l == Len(p.pending)
    <3>2. /\ p.pending \in Seq(Nat) /\ l \in Nat /\ q + l = i
          /\ \A k \in 1..l : p.pending[k] = q + k
          /\ \A k \in (q + 1)..i : k \in P
      BY <2>2 DEF Pends
    <3>3. /\ r.pending \in Seq(Nat) /\ Len(r.pending) = l + 1
          /\ r.pending[l + 1] = i + 1 /\ \A k \in 1..l : r.pending[k] = p.pending[k]
      BY <3>1, <3>2
    <3> HIDE DEF l
    <3>4. \A k \in 1..(l + 1) : r.pending[k] = q + k
      <4> TAKE k \in 1..(l + 1)
      <4>1. CASE k \in 1..l
        BY <3>2, <3>3, <4>1
      <4>2. CASE k = l + 1
        BY <3>2, <3>3, <4>2
      <4> QED BY <3>2, <4>1, <4>2
    <3>5. \A k \in (q + 1)..(i + 1) : k \in P
      BY <2>3, <3>2
    <3>6. q + (l + 1) = i + 1
      BY <3>2
    <3> HIDE DEF Batches
    <3>7. Pends(r, q, i + 1, P)
      BY <2>2, <3>1, <3>3, <3>4, <3>5, <3>6 DEF Pends
    <3> QED BY <3>7
  <2>4. CASE i + 1 \notin P
    <3>1. r.pending = <<>> /\ r.batches = Append(Flush(p), <<i + 1>>)
      BY <2>1, <2>4 DEF Placed
    <3>2. Batches(Flush(p), i, P)
      BY <2>2, Flushed
    <3>3. Batches(Append(Flush(p), <<i + 1>>), i + 1, P)
      <4> DEFINE c == <<i + 1>>
      <4>1. c \in Seq(Nat) /\ c # <<>> /\ Len(c) = 1 /\ \A k \in 1..Len(c) : c[k] = i + k
        OBVIOUS
      <4> HIDE DEF Batches, c
      <4>2. Batches(Append(Flush(p), c), i + Len(c), P)
        BY <2>4, <3>2, <4>1, BatchAppended
      <4> QED BY <4>1, <4>2 DEF c
    <3>4. <<>> \in Seq(Nat) /\ Len(<<>>) = 0 /\ i + 1 \in Nat
      OBVIOUS
    <3> HIDE DEF Batches
    <3>5. Pends(r, i + 1, i + 1, P)
      BY <2>4, <3>1, <3>3, <3>4 DEF Pends
    <3> QED BY <3>4, <3>5
  <2> QED BY <2>3, <2>4
<1>4. n \in Known
  <2> HIDE DEF Known
  <2> QED BY <1>2, <1>3, SetInduction
<1> QED BY <1>4 DEF f

(* So the batches partition the answer in its order, and are those of SameBatch. *)
LEMMA PlanAgrees == TypeOK => BatchPlanAgrees
<1> SUFFICES ASSUME TypeOK PROVE BatchPlanAgrees
    OBVIOUS
<1> DEFINE P == {i \in Round : Par(i)}
           n == Len(calls)
           plan == PlanBatches
<1>1. n \in Nat /\ Round = 1..n
    BY DEF TypeOK, Round
<1>2. Batches(plan, n, P)
  <2> HIDE DEF P, n
  <2>1. \E q \in Nat : Pends(PlanUpTo(n, P)[n], q, n, P)
      BY <1>1, PlanPends
  <2>2. Batches(Flush(PlanUpTo(n, P)[n]), n, P)
      BY <1>1, <2>1, Flushed
  <2> QED BY <2>2 DEF PlanBatches, P, n
<1> HIDE DEF plan
<1>3. \A b \in DOMAIN plan : \A i : i \in ToSet(plan[b]) <=> Has(plan, b, i)
    BY DEF ToSet, Has
<1>4. \A b \in DOMAIN plan : \A i : i \in ToSet(plan[b]) => i \in 1..n
  <2>1. plan \in Seq(Seq(1..n))
      BY <1>2 DEF Batches
  <2>2. \A b \in DOMAIN plan : plan[b] \in Seq(1..n)
      BY <2>1
  <2> QED BY <2>2 DEF ToSet
<1>5. \A i, j \in Round : i <= j =>
          (SameBatch(i, j) <=> \E b \in DOMAIN plan : Has(plan, b, i) /\ Has(plan, b, j))
  <2> SUFFICES ASSUME NEW i \in Round, NEW j \in Round, i <= j
               PROVE  SameBatch(i, j)
                        <=> \E b \in DOMAIN plan : Has(plan, b, i) /\ Has(plan, b, j)
      OBVIOUS
  <2>1. \A k \in i..j : k \in Round
      BY <1>1
  <2>2. SameBatch(i, j) <=> i = j \/ \A k \in i..j : k \in P
      BY <2>1 DEF SameBatch
  <2> HIDE DEF Has, P
  <2> QED BY <1>1, <1>2, <2>2 DEF Batches
<1>6. \A i \in Round : \E b \in DOMAIN plan : Has(plan, b, i)
  <2>1. \A i \in Round : SameBatch(i, i) /\ i <= i
      BY <1>1 DEF SameBatch
  <2> HIDE DEF Has
  <2> QED BY <1>5, <2>1
<1>7. UNION {ToSet(plan[b]) : b \in DOMAIN plan} = Round
  <2> HIDE DEF Has, n
  <2> QED BY <1>1, <1>3, <1>4, <1>6
<1>8. \A b, c \in DOMAIN plan : \A k \in DOMAIN plan[b], l \in DOMAIN plan[c] :
          b < c \/ (b = c /\ k < l) => plan[b][k] < plan[c][l]
    BY <1>2 DEF Batches
<1>9. \A i, j \in Round : i <= j =>
          (SameBatch(i, j) <=> \E b \in DOMAIN plan : {i, j} \subseteq ToSet(plan[b]))
  <2> HIDE DEF Has
  <2> QED BY <1>3, <1>5
<1> QED BY <1>7, <1>8, <1>9, Zenon DEF BatchPlanAgrees, plan

(* The batches that planToolExecutionBatches builds call by call, of any     *)
(* answer of any length, are those that the theorems on scheduling go by.    *)
THEOREM BatchPlanHolds == Spec => []BatchPlanAgrees
BY TypeCorrect, PlanAgrees, PTL
-----------------------------------------------------------------------------
(* The history of a turn.  Of the first len messages, behind each that asks  *)
(* for calls, back to the latest user message, are the results of them all.  *)
PairedTo(ms, len) ==
    \A p \in 1..len :
        (ms[p].role = "assistant" /\ \A q \in p..len : ms[q].role # "user") =>
            /\ p + ms[p].n <= len
            /\ \A k \in 1..ms[p].n : ms[p + k] = Msg("tool", k)
            /\ p + ms[p].n + 1 <= len => ms[p + ms[p].n + 1].role # "tool"

(* The message at a asks for n calls, and k of their results follow.         *)
AskedAt(ms, a, n, k) ==
    /\ a \in 1..Len(ms) /\ Len(ms) = a + k
    /\ ms[a] = Msg("assistant", n)
    /\ \A i \in 1..k : ms[a + i] = Msg("tool", i)

(* Between rounds all earlier ones are complete; in one, all but it, of which *)
(* the results recorded so far end the history.                               *)
HistoryInv ==
    /\ pc \in {"ready", "generating"} => PairedTo(messages, Len(messages))
    /\ pc \in {"running", "recording"} /\ mode = "turn" =>
        /\ AskedAt(messages, Len(messages) - answered, Len(calls), answered)
        /\ PairedTo(messages, Len(messages) - answered - 1)

(* A round that is over ends the history until the next answer.              *)
LatestInv ==
    pc \in {"ready", "generating"} /\ step > 0 =>
        \E n \in 0..MaxCalls : AskedAt(messages, Len(messages) - n, n, n)

(* What holds of the first messages does not depend on a later one, and is   *)
(* kept by a user message and by the system prompt.                          *)
LEMMA PairedAppend ==
    ASSUME NEW ms \in Seq(Message), NEW m \in Message
    PROVE  /\ \A len \in 0..Len(ms) : PairedTo(ms, len) => PairedTo(Append(ms, m), len)
           /\ m.role = "user" => PairedTo(Append(ms, m), Len(ms) + 1)
           /\ m.role = "system" /\ PairedTo(ms, Len(ms))
                 => PairedTo(Append(ms, m), Len(ms) + 1)
<1> DEFINE t == Append(ms, m)
           l == Len(ms)
<1>1. t \in Seq(Message) /\ Len(t) = l + 1 /\ l \in Nat /\ t[l + 1] = m
    OBVIOUS
<1>2. \A i \in 1..l : t[i] = ms[i] /\ ms[i] \in Message
    OBVIOUS
<1>3. MaxCalls \in Nat
    BY AgentTurnAssumption
<1>n. \A i \in 1..l : ms[i].n \in Nat
    BY <1>2, <1>3 DEF Message
<1> HIDE DEF t, l
<1>4. ASSUME NEW len \in 0..l, PairedTo(ms, len) PROVE PairedTo(t, len)
    <2> SUFFICES ASSUME NEW p \in 1..len, ms[p].role = "assistant",
                        \A q \in p..len : ms[q].role # "user"
                 PROVE  /\ p + ms[p].n <= len
                        /\ \A k \in 1..ms[p].n : t[p + k] = Msg("tool", k)
                        /\ p + ms[p].n + 1 <= len => t[p + ms[p].n + 1].role # "tool"
        <3>1. \A q \in 1..len : t[q] = ms[q]
            BY <1>1, <1>2
        <3>2. \A p \in 1..len : \A q \in p..len : q \in 1..len
            BY <1>1
        <3> QED  BY <3>1, <3>2 DEF PairedTo
    <2>1. /\ p + ms[p].n <= len
          /\ \A k \in 1..ms[p].n : ms[p + k] = Msg("tool", k)
          /\ p + ms[p].n + 1 <= len => ms[p + ms[p].n + 1].role # "tool"
        BY <1>4 DEF PairedTo
    <2>2. ms[p].n \in Nat
        BY <1>1, <1>n
    <2> DEFINE n == ms[p].n
    <2> HIDE DEF n
    <2>3. \A k \in 1..n : p + k \in 1..l
        BY <1>1, <2>1, <2>2 DEF n
    <2>4. p + n + 1 <= len => p + n + 1 \in 1..l
        BY <1>1, <2>2 DEF n
    <2> QED  BY <1>2, <2>1, <2>3, <2>4 DEF n
<1>5. ASSUME m.role = "user" PROVE PairedTo(t, l + 1)
    <2>1. \A p \in 1..(l + 1) : l + 1 \in p..(l + 1)
        BY <1>1
    <2> QED  BY <1>1, <1>5, <2>1 DEF PairedTo
<1>6. ASSUME m.role = "system", PairedTo(ms, l) PROVE PairedTo(t, l + 1)
    <2>0. PairedTo(t, l)
        BY <1>1, <1>4, <1>6
    <2> SUFFICES ASSUME NEW p \in 1..(l + 1), t[p].role = "assistant",
                        \A q \in p..(l + 1) : t[q].role # "user"
                 PROVE  /\ p + t[p].n <= l + 1
                        /\ \A k \in 1..t[p].n : t[p + k] = Msg("tool", k)
                        /\ p + t[p].n + 1 <= l + 1 => t[p + t[p].n + 1].role # "tool"
        BY DEF PairedTo
    <2>1. p \in 1..l
        BY <1>1, <1>6
    <2>2. \A q \in p..l : t[q].role # "user"
        BY <1>1
    <2>3. /\ p + t[p].n <= l
          /\ \A k \in 1..t[p].n : t[p + k] = Msg("tool", k)
          /\ p + t[p].n + 1 <= l => t[p + t[p].n + 1].role # "tool"
        BY <2>0, <2>1, <2>2 DEF PairedTo
    <2>4. t[p].n \in Nat
        BY <1>2, <1>n, <2>1
    <2>5. t[l + 1].role # "tool"
        BY <1>1, <1>6
    <2>6. p + t[p].n + 1 <= l \/ p + t[p].n + 1 = l + 1
        BY <1>1, <2>3, <2>4
    <2>7. p + t[p].n <= l + 1
        BY <1>1, <2>3, <2>4
    <2> QED  BY <2>3, <2>5, <2>6, <2>7
<1> QED  BY <1>4, <1>5, <1>6 DEF t, l

(* A round whose results are all recorded completes the history.             *)
LEMMA PairedRound ==
    ASSUME NEW ms \in Seq(Message), NEW n \in Nat, AskedAt(ms, Len(ms) - n, n, n),
           PairedTo(ms, Len(ms) - n - 1)
    PROVE  PairedTo(ms, Len(ms))
<1> DEFINE l == Len(ms)
           a == l - n
<1>1. l \in Nat /\ a \in 1..l /\ l = a + n
    BY DEF AskedAt
<1>2. ms[a] = Msg("assistant", n) /\ \A k \in 1..n : ms[a + k] = Msg("tool", k)
    BY DEF AskedAt
<1>3. PairedTo(ms, a - 1) /\ \A i \in 1..l : ms[i].n \in Nat
    <2>1. MaxCalls \in Nat /\ \A i \in 1..l : ms[i] \in Message
        BY AgentTurnAssumption
    <2>2. \A i \in 1..l : ms[i].n \in Nat
        BY <2>1 DEF Message
    <2> QED  BY <2>2
<1> HIDE DEF l, a
<1> SUFFICES ASSUME NEW p \in 1..l, ms[p].role = "assistant",
                    \A q \in p..l : ms[q].role # "user"
             PROVE  /\ p + ms[p].n <= l
                    /\ \A k \in 1..ms[p].n : ms[p + k] = Msg("tool", k)
                    /\ p + ms[p].n + 1 <= l => ms[p + ms[p].n + 1].role # "tool"
    BY DEF PairedTo, l
<1>4. CASE p < a
    <2>1. p \in 1..(a - 1) /\ \A q \in p..(a - 1) : ms[q].role # "user"
        BY <1>1, <1>4
    <2>2. /\ p + ms[p].n <= a - 1
          /\ \A k \in 1..ms[p].n : ms[p + k] = Msg("tool", k)
          /\ p + ms[p].n + 1 <= a - 1 => ms[p + ms[p].n + 1].role # "tool"
        BY <1>3, <2>1 DEF PairedTo
    <2>3. ms[p].n \in Nat
        BY <1>3
    <2>4. p + ms[p].n + 1 <= a - 1 \/ p + ms[p].n + 1 = a
        <3> DEFINE n1 == ms[p].n
        <3>1. n1 \in Nat /\ p + n1 <= a - 1
            BY <2>2, <2>3
        <3> HIDE DEF n1
        <3>2. p + n1 + 1 <= a - 1 \/ p + n1 + 1 = a
            BY <1>1, <3>1
        <3> QED  BY <3>2 DEF n1
    <2>5. ms[a].role # "tool"
        BY <1>2 DEF Msg
    <2>6. p + ms[p].n <= l
        BY <1>1, <2>2, <2>3
    <2> QED  BY <2>2, <2>4, <2>5, <2>6
<1>5. CASE p = a
    BY <1>1, <1>2, <1>5 DEF Msg
<1>6. CASE p > a
    <2>1. p - a \in 1..n /\ p = a + (p - a)
        BY <1>1, <1>6
    <2>2. ms[p] = Msg("tool", p - a)
        BY <1>2, <2>1
    <2> QED  BY <2>2 DEF Msg
<1> QED  BY <1>1, <1>4, <1>5, <1>6

(* Every step keeps the history of the turn.                                 *)
LEMMA StepKeepsHistory ==
    TypeOK /\ RoundInv /\ HistoryInv /\ LatestInv /\ [Next]_vars
        => HistoryInv' /\ LatestInv'
<1> SUFFICES ASSUME TypeOK, RoundInv, HistoryInv, LatestInv, [Next]_vars
             PROVE  HistoryInv' /\ LatestInv'
    OBVIOUS
<1>0. /\ messages \in Seq(Message) /\ Len(messages) \in Nat /\ answered \in Nat
      /\ Len(calls) \in 0..MaxCalls /\ calls \in Seq(Tool) /\ MaxCalls \in Nat
    BY AgentTurnAssumption DEF TypeOK
<1>i. pc' \in {"idle", "closing"} => HistoryInv' /\ LatestInv'
    BY DEF HistoryInv, LatestInv
<1>u. /\ UNCHANGED <<mode, step, calls, answered, messages>>
      /\ pc' = pc \/ (pc = "running" /\ pc' = "recording")
      => HistoryInv' /\ LatestInv'
    BY DEF HistoryInv, LatestInv
<1>1. CASE SubmitUserMessage
    <2>1. CASE pc' = "closing"
        BY <2>1, <1>i
    <2>2. CASE pc' # "closing"
        <3>1. pc' = "ready" /\ step' = 0 /\ messages' = Append(messages, Msg("user", 0))
            BY <1>1, <2>2 DEF SubmitUserMessage, Close
        <3>2. Msg("user", 0) \in Message /\ Msg("user", 0).role = "user"
            BY <1>0, MessageTypes DEF Msg
        <3>3. PairedTo(messages', Len(messages) + 1) /\ Len(messages') = Len(messages) + 1
            BY <1>0, <3>1, <3>2, PairedAppend
        <3> QED  BY <3>1, <3>3 DEF HistoryInv, LatestInv
    <2> QED  BY <2>1, <2>2
<1>2. ASSUME NEW t \in Tool, ExecuteTool(t) PROVE HistoryInv' /\ LatestInv'
    <2>1. mode' = "direct" /\ pc' \in {"recording", "running"}
        BY <1>2 DEF ExecuteTool
    <2> QED  BY <2>1 DEF HistoryInv, LatestInv
<1>3. CASE Abort
    BY <1>3, <1>u DEF Abort
<1>4. CASE BeginRound
    <2>1. /\ pc = "ready" /\ pc' = "generating" /\ step' = step
          /\ messages' = IF step = 0 THEN Append(messages, Msg("system", 0)) ELSE messages
        BY <1>4 DEF BeginRound, RequestModel
    <2>2. PairedTo(messages, Len(messages))
        BY <2>1 DEF HistoryInv
    <2>3. CASE step = 0
        <3>1. Msg("system", 0) \in Message /\ Msg("system", 0).role = "system"
            BY <1>0, MessageTypes DEF Msg
        <3>2. PairedTo(messages', Len(messages) + 1) /\ Len(messages') = Len(messages) + 1
            BY <1>0, <2>1, <2>2, <2>3, <3>1, PairedAppend
        <3> QED  BY <2>1, <2>3, <3>2 DEF HistoryInv, LatestInv
    <2>4. CASE step # 0
        BY <2>1, <2>2, <2>4 DEF HistoryInv, LatestInv
    <2> QED  BY <2>3, <2>4
<1>5. CASE ReachMaxTurns \/ StopAborted \/ ModelAnswersFinal \/ ReturnResult \/ Fail
    BY <1>5, <1>i DEF ReachMaxTurns, StopAborted, ModelAnswersFinal, ReturnResult, Fail, Close
<1>6. ASSUME NEW cs \in CallsOf, ModelAnswersCalls(cs) PROVE HistoryInv' /\ LatestInv'
    <2>1. PICK k \in 0..MaxCalls : cs \in [1..k -> Tool]
        BY DEF CallsOf
    <2>2. cs \in Seq(Tool) /\ Len(cs) = k
        BY <2>1, <1>0
    <2>3. /\ pc' = "running" /\ calls' = cs /\ pc = "generating" /\ answered' = answered
          /\ messages' = Append(messages, Msg("assistant", Len(cs)))
        BY <1>6 DEF ModelAnswersCalls
    <2>4. answered = 0 /\ PairedTo(messages, Len(messages))
        BY <2>3 DEF RoundInv, HistoryInv
    <2>5. Msg("assistant", k) \in Message
        BY MessageTypes
    <2>6. PairedTo(messages', Len(messages))
        BY <1>0, <2>2, <2>3, <2>4, <2>5, PairedAppend
    <2>7. Len(messages') = Len(messages) + 1 /\ messages'[Len(messages) + 1] = Msg("assistant", k)
        BY <1>0, <2>2, <2>3, <2>5
    <2>8. AskedAt(messages', Len(messages'), k, 0)
        BY <1>0, <2>7 DEF AskedAt
    <2>9. Len(messages') - answered' = Len(messages') /\ Len(messages') - answered' - 1 = Len(messages)
        BY <1>0, <2>3, <2>4, <2>7
    <2>10. HistoryInv'
        BY <2>2, <2>3, <2>4, <2>6, <2>8, <2>9 DEF HistoryInv
    <2> QED  BY <2>3, <2>10 DEF LatestInv
<1>7. ASSUME NEW i \in 1..MaxCalls, CallStep(i) PROVE HistoryInv' /\ LatestInv'
    <2>1. UNCHANGED <<pc, mode, step, calls, answered, messages>>
        BY <1>7 DEF CallStep, StartCall, DenyCall, PermitCall, ToolReturns, SetSlot
    <2> QED  BY <2>1, <1>u
<1>8. CASE RoundExecuted
    BY <1>8, <1>u DEF RoundExecuted
<1>9. CASE RecordResult
    <2>1. /\ pc = "recording" /\ pc' = pc /\ mode' = mode /\ calls' = calls
          /\ answered < Len(calls) /\ answered' = answered + 1
          /\ messages' = Append(messages, Msg("tool", answered + 1))
        BY <1>9 DEF RecordResult
    <2>2. CASE mode = "turn"
        <3> DEFINE a == Len(messages) - answered
        <3>1. /\ AskedAt(messages, a, Len(calls), answered) /\ PairedTo(messages, a - 1)
            BY <2>1, <2>2 DEF HistoryInv
        <3>2. Msg("tool", answered + 1) \in Message
            BY <1>0, <2>1, MessageTypes
        <3>3. a \in 1..Len(messages) /\ a + answered = Len(messages)
            BY <3>1, <1>0 DEF AskedAt
        <3>4. /\ Len(messages') = Len(messages) + 1
              /\ messages'[Len(messages) + 1] = Msg("tool", answered + 1)
              /\ \A j \in 1..Len(messages) : messages'[j] = messages[j]
            BY <1>0, <2>1, <3>2
        <3>5. PairedTo(messages', a - 1)
            BY <1>0, <2>1, <3>1, <3>2, <3>3, PairedAppend
        <3>6. messages[a] = Msg("assistant", Len(calls))
              /\ \A j \in 1..answered : messages[a + j] = Msg("tool", j)
            BY <3>1 DEF AskedAt
        <3> HIDE DEF a
        <3>7. AskedAt(messages', a, Len(calls), answered + 1)
            <4>1. a \in 1..Len(messages') /\ Len(messages') = a + (answered + 1)
                BY <1>0, <3>3, <3>4
            <4>2. messages'[a] = Msg("assistant", Len(calls))
                BY <3>3, <3>4, <3>6
            <4>3. ASSUME NEW j \in 1..(answered + 1) PROVE messages'[a + j] = Msg("tool", j)
                <5>1. CASE j \in 1..answered
                    <6>1. a + j \in 1..Len(messages)
                        BY <1>0, <3>3, <5>1
                    <6> QED  BY <3>4, <3>6, <5>1, <6>1
                <5>2. CASE j = answered + 1
                    <6>1. a + j = Len(messages) + 1
                        BY <1>0, <3>3, <5>2
                    <6> QED  BY <3>4, <5>2, <6>1
                <5> QED  BY <1>0, <5>1, <5>2
            <4> QED  BY <4>1, <4>2, <4>3 DEF AskedAt
        <3>8. Len(messages') - answered' = a
            <4>1. Len(messages') = Len(messages) + 1 /\ answered' = answered + 1
                BY <2>1, <3>4
            <4>2. (Len(messages) + 1) - (answered + 1) = a
                BY <1>0, <3>3
            <4> QED  BY <4>1, <4>2
        <3>9. HistoryInv'
            BY <2>1, <3>5, <3>7, <3>8 DEF HistoryInv
        <3> QED  BY <2>1, <3>9 DEF LatestInv
    <2>3. CASE mode # "turn"
        BY <2>1, <2>3 DEF HistoryInv, LatestInv
    <2> QED  BY <2>2, <2>3
<1>10. CASE RoundRecorded
    <2>1. CASE mode = "turn"
        <3>1. /\ pc = "recording" /\ pc' = "ready" /\ answered = Len(calls)
              /\ messages' = messages
            BY <1>10, <2>1 DEF RoundRecorded
        <3>2. /\ AskedAt(messages, Len(messages) - answered, answered, answered)
              /\ PairedTo(messages, Len(messages) - answered - 1)
            BY <2>1, <3>1 DEF HistoryInv
        <3>3. PairedTo(messages, Len(messages))
            BY <1>0, <3>2, PairedRound
        <3>4. answered \in 0..MaxCalls
            BY <1>0, <3>1
        <3> QED  BY <3>1, <3>2, <3>3, <3>4 DEF HistoryInv, LatestInv
    <2>2. CASE mode # "turn"
        BY <1>10, <2>2, <1>i DEF RoundRecorded
    <2> QED  BY <2>1, <2>2
<1>11. CASE UNCHANGED vars
    BY <1>11, <1>u DEF vars
<1> QED
    BY <1>1, <1>2, <1>3, <1>4, <1>5, <1>6, <1>7, <1>8, <1>9, <1>10, <1>11, Zenon
       DEF Next, EngineStep, ModelAnswers

(* The history of every engine: the inductive invariant of the next theorems. *)
LEMMA HistoryCorrect == Spec => [](TypeOK /\ HistoryInv /\ LatestInv)
<1>1. Init => TypeOK /\ RoundInv /\ HistoryInv /\ LatestInv
    BY InitTyped, InitRound DEF Init, HistoryInv, LatestInv
<1>2. TypeOK /\ RoundInv /\ HistoryInv /\ LatestInv /\ [Next]_vars
          => (TypeOK /\ RoundInv /\ HistoryInv /\ LatestInv)'
    BY StepTyped, StepKeepsRound, StepKeepsHistory
<1> QED  BY <1>1, <1>2, PTL DEF Spec

(* Whenever the model is asked, every call of the turn has its result in the *)
(* history, once and in call order, however the calls interleaved and        *)
(* whatever aborts, failures and direct calls came before.                   *)
THEOREM HistoryPaired == Spec => []TurnHistoryPaired
<1>1. TypeOK /\ HistoryInv /\ LatestInv => TurnHistoryPaired
    <2> SUFFICES ASSUME TypeOK, HistoryInv, pc = "generating",
                        NEW p \in 1..Len(messages), messages[p].role = "assistant",
                        \A q \in p..Len(messages) : messages[q].role # "user"
                 PROVE  /\ p + messages[p].n <= Len(messages)
                        /\ \A k \in 1..messages[p].n : messages[p + k] = Msg("tool", k)
                        /\ p + messages[p].n + 1 <= Len(messages)
                              => messages[p + messages[p].n + 1].role # "tool"
        BY DEF TurnHistoryPaired
    <2>1. PairedTo(messages, Len(messages))
        BY DEF HistoryInv
    <2> QED  BY <2>1 DEF PairedTo
<1> QED  BY <1>1, HistoryCorrect, PTL

(* Histories that end with the same messages have the same end.              *)
LEMMA SameEnd ==
    ASSUME NEW s \in Seq(Message), NEW t \in Seq(Message), NEW n \in Nat,
           n < Len(s), n < Len(t), \A k \in 0..n : s[Len(s) - k] = t[Len(t) - k]
    PROVE  SubSeq(s, Len(s) - n, Len(s)) = SubSeq(t, Len(t) - n, Len(t))
<1> DEFINE End(u) == SubSeq(u, Len(u) - n, Len(u))
<1>1. ASSUME NEW u \in Seq(Message), n < Len(u)
      PROVE  /\ End(u) \in Seq(Message) /\ Len(End(u)) = n + 1
             /\ \A i \in 1..(n + 1) : End(u)[i] = u[Len(u) - (n + 1 - i)]
    <2> DEFINE l == Len(u)
    <2>1. l \in Nat /\ \A i \in 1..l : u[i] \in Message
        OBVIOUS
    <2> HIDE DEF l
    <2>2. l - n \in Int /\ l \in Int /\ n < l /\ \A i \in (l - n)..l : u[i] \in Message
        BY <1>1, <2>1 DEF l
    <2>3. /\ SubSeq(u, l - n, l) \in Seq(Message)
          /\ Len(SubSeq(u, l - n, l)) = IF l - n <= l THEN l - (l - n) + 1 ELSE 0
          /\ \A i \in 1..(l - (l - n) + 1) : SubSeq(u, l - n, l)[i] = u[l - n + i - 1]
        BY <2>2, SubSeqProperties
    <2> DEFINE e == SubSeq(u, l - n, l)
    <2> HIDE DEF e
    <2>4. e \in Seq(Message) /\ Len(e) = n + 1
        BY <2>1, <2>3 DEF e
    <2>5. ASSUME NEW i \in 1..(n + 1) PROVE e[i] = u[l - (n + 1 - i)]
        <3>1. l - n + i - 1 = l - (n + 1 - i) /\ i \in 1..(l - (l - n) + 1)
            BY <2>1
        <3> QED  BY <2>3, <3>1 DEF e
    <2> QED  BY <2>4, <2>5 DEF e, l
<1>2. \A i \in 1..(n + 1) : n + 1 - i \in 0..n
    OBVIOUS
<1> HIDE DEF End
<1>3. \A i \in 1..(n + 1) : End(s)[i] = End(t)[i]
    BY <1>1, <1>2
<1>4. End(s) = End(t)
    BY <1>1, <1>3, SeqEqual
<1> QED  BY <1>4 DEF End

(* The window of a history that ends with a complete round.                  *)
LEMMA WindowShows ==
    ASSUME NEW ms \in Seq(Message), NEW n \in 0..MaxCalls, AskedAt(ms, Len(ms) - n, n, n)
    PROVE  /\ Window(ms) \in Seq(Message)
           /\ Len(Spoken(Window(ms))) <= MaxContext + 1
           /\ n <= MaxContext =>
                /\ Len(Window(ms)) > n
                /\ \A k \in 0..n : Window(ms)[Len(Window(ms)) - k] = ms[Len(ms) - k]
<1> DEFINE S == [role : {"user", "assistant", "tool"}, n : 0..MaxCalls]
           sp == Spoken(ms)
           l == Len(ms)
           L == Len(sp)
           w == Window(ms)
<1>1. /\ MaxContext \in Nat \ {0} /\ MaxCalls \in Nat /\ l \in Nat /\ n \in Nat
    BY AgentTurnAssumption
<1>2. sp \in Seq(Message) /\ L \in Nat
    BY OnlySelects DEF Spoken
<1>3. /\ l > n /\ ms[l - n] = Msg("assistant", n)
      /\ \A i \in 1..n : ms[(l - n) + i] = Msg("tool", i)
    BY <1>1 DEF AskedAt
<1> HIDE DEF S
<1>4. \A i \in (l - n)..l : ms[i] \in S
    <2>1. ms[l - n] \in S
        BY <1>3 DEF S, Msg
    <2>2. ASSUME NEW i \in (l - n)..l, i # l - n PROVE ms[i] \in S
        <3> DEFINE j == i - (l - n)
        <3>1. j \in 1..n /\ i = (l - n) + j
            BY <1>1, <2>2
        <3> HIDE DEF j
        <3>2. ms[i] = Msg("tool", j) /\ j \in 0..MaxCalls
            BY <1>1, <1>3, <3>1
        <3> QED  BY <3>2 DEF S, Msg
    <2> QED  BY <2>1, <2>2
<1>5. L > n /\ \A k \in 0..n : sp[L - k] = ms[l - k]
    <2> DEFINE b == l - n - 1
    <2>1. b \in 0..l /\ b + 1 = l - n /\ l - b = n + 1 /\ l - b - 1 = n
        BY <1>1, <1>3
    <2> HIDE DEF b, l
    <2>2. b \in 0..Len(ms) /\ \A i \in (b + 1)..Len(ms) : ms[i] \in S
        BY <1>4, <2>1 DEF l
    <2>3. /\ Len(Only(ms, S)) >= Len(ms) - b
          /\ \A k \in 0..(Len(ms) - b - 1) : Only(ms, S)[Len(Only(ms, S)) - k] = ms[Len(ms) - k]
        BY <2>2, OnlyEnd
    <2>4. sp = Only(ms, S)
        BY DEF Spoken, S
    <2>5. L >= l - b /\ \A k \in 0..(l - b - 1) : sp[L - k] = ms[l - k]
        BY <2>3, <2>4 DEF l
    <2> HIDE DEF sp
    <2> QED  BY <1>1, <1>2, <2>1, <2>5
<1>6. CASE L <= MaxContext
    <2>1. w = ms
        BY <1>6 DEF Window
    <2> QED  BY <1>1, <1>2, <1>3, <1>6, <2>1
<1>7. CASE L > MaxContext
    <2> DEFINE c == CutPoint(sp)
               f == L - MaxContext + 1
    <2>1. w = SubSeq(sp, c, L)
        <3>1. ~(L <= MaxContext)
            BY <1>1, <1>2, <1>7
        <3> QED  BY <3>1, Zenon DEF Window
    <2>2. /\ c \in {f - 1, f}
          /\ c = f - 1 <=> sp[f].role = "tool" /\ f > 1 /\ CallsTools(sp[f - 1])
        <3>1. f \in Int
            BY <1>1, <1>2
        <3>2. c = IF sp[f].role = "tool" /\ f > 1 /\ CallsTools(sp[f - 1]) THEN f - 1 ELSE f
            BY DEF CutPoint
        <3> HIDE DEF c, f
        <3> QED  BY <3>1, <3>2
    <2>3. f \in 2..L /\ c \in 1..L
        BY <1>1, <1>2, <1>7, <2>2
    <2> HIDE DEF w, c, sp, L
    <2>4. /\ w \in Seq(Message) /\ Len(w) = L - c + 1
          /\ \A i \in 1..(L - c + 1) : w[i] = sp[c + i - 1]
        <3>1. c \in Int /\ L \in Int /\ \A i \in c..L : sp[i] \in Message
            BY <1>2, <2>3 DEF L
        <3> QED  BY <2>1, <2>3, <3>1, SubSeqProperties
    <2>5. Len(Spoken(w)) <= MaxContext + 1
        <3>1. Len(Spoken(w)) <= Len(w)
            BY <2>4, OnlyShorter DEF Spoken
        <3>2. Len(Spoken(w)) \in Nat
            BY <2>4, OnlySelects DEF Spoken
        <3>3. L - c + 1 <= MaxContext + 1
            BY <1>1, <1>2, <2>2, <2>3
        <3> QED  BY <1>1, <1>2, <2>3, <2>4, <3>1, <3>2, <3>3
    <2>6. ASSUME n <= MaxContext PROVE c <= L - n
        <3>1. CASE n < MaxContext
            BY <1>1, <1>2, <2>2, <2>3, <2>6, <3>1
        <3>2. CASE n = MaxContext
            <4>1. f = L - (n - 1) /\ f - 1 = L - n /\ n - 1 \in 0..n /\ n \in 0..n
                BY <1>1, <1>2, <3>2
            <4>2. sp[f] = ms[l - (n - 1)] /\ sp[f - 1] = ms[l - n]
                BY <1>5, <4>1
            <4>3. l - (n - 1) = (l - n) + 1 /\ 1 \in 1..n
                BY <1>1, <3>2
            <4>4. sp[f] = Msg("tool", 1) /\ sp[f - 1] = Msg("assistant", n)
                BY <1>3, <4>2, <4>3
            <4>5. c = f - 1
                BY <1>1, <2>2, <2>3, <3>2, <4>4 DEF CallsTools, Msg
            <4> QED  BY <1>1, <1>2, <4>1, <4>5
        <3> QED  BY <1>1, <2>6, <3>1, <3>2
    <2>7. ASSUME n <= MaxContext
          PROVE  Len(w) > n /\ \A k \in 0..n : w[Len(w) - k] = ms[l - k]
        <3>1. Len(w) > n
            BY <1>1, <1>2, <2>3, <2>4, <2>6, <2>7
        <3>2. ASSUME NEW k \in 0..n PROVE w[Len(w) - k] = ms[l - k]
            <4>1. (L - c + 1) - k \in 1..(L - c + 1) /\ c + ((L - c + 1) - k) - 1 = L - k
                BY <1>1, <1>2, <2>3, <2>4, <3>1
            <4> QED  BY <1>5, <2>4, <4>1
        <3> QED  BY <3>1, <3>2
    <2> QED  BY <2>4, <2>5, <2>7 DEF w
<1> QED  BY <1>1, <1>2, <1>6, <1>7

(* A request of a later round shows the model its latest round whole, cut or *)
(* not, up to the limit of maxContextMessages and at it, whatever the history *)
(* before it holds.                                                          *)
THEOREM LatestRoundShown == Spec => []LatestRoundInWindow
<1>1. TypeOK /\ HistoryInv /\ LatestInv => LatestRoundInWindow
    <2> SUFFICES ASSUME TypeOK, LatestInv, pc = "generating", step > 0
                 PROVE  LatestRoundInWindow
        BY DEF LatestRoundInWindow
    <2> DEFINE ms == messages
               l == Len(ms)
               asked == {p \in 1..l : ms[p].role = "assistant"}
               last == CHOOSE p \in asked : \A q \in asked : q <= p
    <2>1. PICK n \in 0..MaxCalls : AskedAt(ms, l - n, n, n)
        BY DEF LatestInv
    <2>2. ms \in Seq(Message) /\ l \in Nat /\ n \in Nat
        BY DEF TypeOK
    <2>3. /\ l - n \in 1..l /\ ms[l - n] = Msg("assistant", n)
          /\ \A i \in 1..n : ms[(l - n) + i] = Msg("tool", i)
        BY <2>1 DEF AskedAt
    <2>4. last = l - n
        <3>1. l - n \in asked
            BY <2>3 DEF Msg
        <3>2. ASSUME NEW q \in asked PROVE q <= l - n
            <4> SUFFICES ASSUME q > l - n PROVE FALSE
                BY <2>2
            <4>1. q - (l - n) \in 1..n /\ q = (l - n) + (q - (l - n))
                BY <2>2
            <4>2. ms[q] = Msg("tool", q - (l - n))
                BY <2>3, <4>1
            <4> QED  BY <4>2 DEF Msg
        <3>3. \A p \in asked : (\A q \in asked : q <= p) => p = l - n
            BY <2>2, <3>1, <3>2
        <3> HIDE DEF asked, l
        <3> QED  BY <3>1, <3>2, <3>3
    <2>5. ms[last].n = n
        <3>1. ms[l - n].n = n
            BY <2>3 DEF Msg
        <3> HIDE DEF last
        <3> QED  BY <2>4, <3>1
    <2>6. /\ Window(ms) \in Seq(Message)
          /\ Len(Spoken(Window(ms))) <= MaxContext + 1
          /\ n <= MaxContext =>
                /\ Len(Window(ms)) > n
                /\ \A k \in 0..n : Window(ms)[Len(Window(ms)) - k] = ms[l - k]
        BY <2>1, <2>2, WindowShows
    <2>7. ASSUME n <= MaxContext
          PROVE  SubSeq(Window(ms), Len(Window(ms)) - n, Len(Window(ms))) = SubSeq(ms, l - n, l)
        <3>1. n < l /\ n < Len(Window(ms))
            BY <2>2, <2>3, <2>6, <2>7
        <3> QED  BY <2>2, <2>6, <2>7, <3>1, SameEnd
    <2> QED  BY <2>5, <2>6, <2>7 DEF LatestRoundInWindow
<1> QED  BY <1>1, HistoryCorrect, PTL
-----------------------------------------------------------------------------
(* AgentTurn implements TurnContract: every step of the engine is a step of  *)
(* the contract or leaves all the contract speaks of as it is. *)
LEMMA InitKeepsContract == Init => Contract!Init
BY DEF Init, Contract!Init, Phase, PhaseAt, Owed

(* The step of the refinement; one step of the proof per action. *)
LEMMA StepKeepsContract ==
    ASSUME TypeOK, RoundInv, [Next]_vars
    PROVE  [Contract!Next]_Contract!cvars
<1> USE AgentTurnAssumption
<1> DEFINE Same == /\ Phase' = Phase /\ Owed' = Owed /\ step' = step
                   /\ outcome' = outcome /\ aborted' = aborted
<1>s. Same => [Contract!Next]_Contract!cvars
    BY DEF Contract!cvars
<1>n. Contract!Next => [Contract!Next]_Contract!cvars
    OBVIOUS
<1>q. pc \notin {"running", "recording"} => Owed = 0
    BY DEF RoundInv, Owed
<1>c. NoCalls => Owed' = 0
    BY DEF NoCalls, Owed
<1>1. CASE SubmitUserMessage
    <2>1. Phase = "idle" /\ Owed = 0 /\ Owed' = 0
        BY <1>1, <1>q DEF SubmitUserMessage, Phase, PhaseAt, Owed, RoundInv
    <2>2. CASE aborted
        <3>1. Phase' = "closing"
            BY <1>1, <2>2 DEF SubmitUserMessage, Close, Phase, PhaseAt
        <3>2. Contract!Refuse
            BY <1>1, <2>1, <2>2, <3>1 DEF SubmitUserMessage, Close, Contract!Refuse
        <3> QED  BY <3>2, <1>n DEF Contract!Next
    <2>3. CASE ~aborted
        <3>1. Phase' = "ready"
            BY <1>1, <2>3 DEF SubmitUserMessage, Phase, PhaseAt
        <3>2. Contract!Begin
            BY <1>1, <2>1, <2>3, <3>1 DEF SubmitUserMessage, Contract!Begin
        <3> QED  BY <3>2, <1>n DEF Contract!Next
    <2> QED  BY <2>2, <2>3
<1>2. ASSUME NEW t \in Tool, ExecuteTool(t) PROVE [Contract!Next]_Contract!cvars
    <2>1. Phase = "idle" /\ Phase' = "idle" /\ Owed = 0 /\ Owed' = 0
        BY <1>2, <1>q DEF ExecuteTool, Phase, PhaseAt, Owed
    <2> QED  BY <1>2, <2>1, <1>s DEF ExecuteTool
<1>3. CASE Abort
    <2>1. Phase' = Phase /\ Owed' = Owed
        BY <1>3 DEF Abort, Phase, PhaseAt, Owed
    <2>2. Contract!Stop
        BY <1>3, <2>1 DEF Abort, Contract!Stop
    <2> QED  BY <2>2, <1>n DEF Contract!Next
<1>4. CASE BeginRound
    <2>1. Phase = "ready" /\ Phase' = "asked" /\ Owed' = Owed
        BY <1>4 DEF BeginRound, RequestModel, RoundInv, Phase, PhaseAt, Owed
    <2>2. Contract!Ask
        BY <1>4, <2>1 DEF BeginRound, RequestModel, Contract!Ask
    <2> QED  BY <2>2, <1>n DEF Contract!Next, Contract!TurnStep
<1>5. CASE ReachMaxTurns
    <2>1. Phase = "ready" /\ Phase' = "closing" /\ Owed = 0 /\ Owed' = 0
        BY <1>5, <1>q DEF ReachMaxTurns, Close, RoundInv, Phase, PhaseAt, Owed
    <2>2. Contract!Decide("max_turns")
        BY <1>5, <2>1 DEF ReachMaxTurns, Close, Contract!Decide, Contract!Earned
    <2> QED  BY <2>2, <1>n DEF Contract!Next, Contract!TurnStep
<1>6. CASE StopAborted
    <2>1. Phase \in {"ready", "asked", "acting"} /\ Phase' = "closing" /\ Owed' = 0
        BY <1>6, <1>c DEF StopAborted, Close, RoundInv, Phase, PhaseAt
    <2>2. Contract!Decide("aborted")
        BY <1>6, <2>1 DEF StopAborted, Close, Contract!Decide, Contract!Earned
    <2> QED  BY <2>2, <1>n DEF Contract!Next, Contract!TurnStep
<1>7. CASE ModelAnswersFinal
    <2>1. Phase = "asked" /\ Phase' = "closing" /\ Owed = 0 /\ Owed' = 0
        BY <1>7, <1>q DEF ModelAnswersFinal, Close, RoundInv, Phase, PhaseAt, Owed
    <2>2. Contract!Decide("final")
        BY <1>7, <2>1 DEF ModelAnswersFinal, Close, Contract!Decide, Contract!Earned
    <2> QED  BY <2>2, <1>n DEF Contract!Next, Contract!TurnStep
<1>8. ASSUME NEW cs \in CallsOf, ModelAnswersCalls(cs)
      PROVE  [Contract!Next]_Contract!cvars
    <2>1. PICK k \in 0..MaxCalls : cs \in [1..k -> Tool]
        BY DEF CallsOf
    <2>2. Phase = "asked" /\ Phase' = "acting"
        BY <1>8 DEF ModelAnswersCalls, RoundInv, Phase, PhaseAt
    <2>3. Owed' \in 0..MaxCalls
        BY <1>8, <2>1 DEF ModelAnswersCalls, RoundInv, Owed
    <2>4. Contract!Answer
        BY <1>8, <2>2, <2>3 DEF ModelAnswersCalls, Contract!Answer
    <2> QED  BY <2>4, <1>n DEF Contract!Next, Contract!TurnStep
<1>9. CASE ReturnResult
    <2>1. Phase = "closing" /\ Phase' = "idle" /\ Owed' = Owed
        BY <1>9 DEF ReturnResult, RoundInv, Phase, PhaseAt, Owed
    <2>2. Contract!Return
        BY <1>9, <2>1 DEF ReturnResult, Contract!Return
    <2> QED  BY <2>2, <1>n DEF Contract!Next, Contract!TurnStep
<1>10. CASE Fail
    <2>1. CASE mode = "turn"
        <3>1. Phase # "idle" /\ Phase' = "idle" /\ Owed' = 0
            BY <1>10, <2>1, <1>c DEF Fail, Phase, PhaseAt
        <3>2. Contract!Throw
            BY <1>10, <2>1, <3>1 DEF Fail, Contract!Throw
        <3> QED  BY <3>2, <1>n DEF Contract!Next, Contract!TurnStep
    <2>2. CASE mode # "turn"
        BY <1>10, <2>2, <1>s DEF Fail, Phase, Owed
    <2> QED  BY <2>1, <2>2
<1>11. ASSUME NEW i \in 1..MaxCalls, CallStep(i) PROVE [Contract!Next]_Contract!cvars
    <2>1. UNCHANGED <<pc, mode, step, calls, answered, outcome, aborted>>
        BY <1>11 DEF CallStep, StartCall, DenyCall, PermitCall, ToolReturns, SetSlot
    <2> QED  BY <2>1, <1>s DEF Phase, PhaseAt, Owed
<1>12. CASE RoundExecuted
    BY <1>12, <1>s DEF RoundExecuted, Phase, PhaseAt, Owed
<1>13. CASE RecordResult
    <2>1. CASE mode = "turn"
        <3>1. Phase = "acting" /\ Phase' = "acting"
            BY <1>13, <2>1 DEF RecordResult, Phase, PhaseAt
        <3>2. Owed > 0 /\ Owed' = Owed - 1
            BY <1>13, <2>1 DEF RecordResult, Owed, TypeOK
        <3>3. ~aborted
            BY <1>13, <2>1 DEF RecordResult
        <3>4. Contract!Result
            BY <1>13, <3>1, <3>2, <3>3 DEF RecordResult, Contract!Result
        <3> QED  BY <3>4, <1>n DEF Contract!Next, Contract!TurnStep
    <2>2. CASE mode # "turn"
        BY <1>13, <2>2, <1>s DEF RecordResult, Phase, Owed
    <2> QED  BY <2>1, <2>2
<1>14. CASE RoundRecorded
    <2>1. CASE mode = "turn"
        <3>1. Phase = "acting" /\ Phase' = "ready" /\ Owed = 0 /\ Owed' = 0
            BY <1>14, <2>1, <1>c DEF RoundRecorded, Phase, PhaseAt, Owed, TypeOK
        <3>2. Contract!EndRound
            BY <1>14, <2>1, <3>1 DEF RoundRecorded, Contract!EndRound
        <3> QED  BY <3>2, <1>n DEF Contract!Next, Contract!TurnStep
    <2>2. CASE mode # "turn"
        BY <1>14, <2>2, <1>s DEF RoundRecorded, Phase, Owed
    <2> QED  BY <2>1, <2>2
<1>15. CASE UNCHANGED vars
    BY <1>15, <1>s DEF vars, Phase, PhaseAt, Owed
<1> QED
    BY <1>1, <1>2, <1>3, <1>4, <1>5, <1>6, <1>7, <1>8, <1>9, <1>10, <1>11, <1>12,
       <1>13, <1>14, <1>15, Zenon DEF Next, EngineStep, ModelAnswers

(* The turn of a QueryEngine, with its batches, histories and discovery, is  *)
(* a turn of the contract: no request after a stop, none before every call   *)
(* of the last answer has its result, at most maxTurns rounds, and a stop    *)
(* reason that what happened justifies.                                      *)
THEOREM ContractKept == Spec => KeepsContract
<1>1. Init => Contract!Init
    BY InitKeepsContract
<1>2. TypeOK /\ RoundInv /\ [Next]_vars => [Contract!Next]_Contract!cvars
    BY StepKeepsContract
<1> QED  BY <1>1, <1>2, TypeCorrect, RoundCorrect, PTL
            DEF Spec, KeepsContract, Contract!Spec
=============================================================================
