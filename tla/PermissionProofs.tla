-------------------------- MODULE PermissionProofs --------------------------
(***************************************************************************)
(* Proofs about PermissionChecker for every registry of the tools it knows. *)
(***************************************************************************)
EXTENDS PermissionChecker, TLAPS

(* Every request is of a tool of the registry and has a risk and, if it is  *)
(* one of files, a place (createPermissionRequest).                         *)
LEMMA RequestFields ==
    ASSUME NEW r \in Request
    PROVE  /\ r.tool \in Tool /\ r.risk \in Risk
           /\ r.scope \in {NotAFile, "workspace", "desktop", "external"}
<1>1. CASE "windows.filesystem" \in Tool /\ r \in FileRequest
  BY <1>1 DEF FileRequest, FileRisk, Risk
<1>2. CASE \E t \in Tool : r \in [tool : {t}, risk : RisksOf(t), access : {NotAFile}, scope : {NotAFile}]
  <2>1. PICK t \in Tool : r \in [tool : {t}, risk : RisksOf(t), access : {NotAFile}, scope : {NotAFile}]
    BY <1>2
  <2>2. RisksOf(t) \subseteq Risk
    BY ToolAssumption DEF RisksOf, Risk
  <2> QED
    BY <2>1, <2>2
<1> QED
  BY <1>1, <1>2 DEF Request

(* Outside auto mode neither the policy nor the reviewer lets a high-risk   *)
(* call pass, but for files of the workspace.                               *)
LEMMA HighRiskNotAllowed ==
    ASSUME NEW r \in Request, NEW m \in Mode,
           m # "auto", r.risk = "high", Decide(m, r) = "allow"
    PROVE  r.scope = "workspace"
<1>1. ~RequiresReview(r)
  BY DEF Decide, Review
<1>2. Evaluate(m, r) = "allow"
  BY <1>1 DEF Decide
<1>3. r.scope # NotAFile
  BY <1>2 DEF Evaluate, Mode
<1>4. FileDecision(r) = "allow"
  BY <1>2, <1>3 DEF Evaluate
<1> QED
  BY <1>3, <1>4, RequestFields DEF FileDecision

(* What is approved is what the user approved, and a panel remembers        *)
(* nothing.                                                                 *)
Bookkeeping ==
    /\ consents = grants \cup memory
    /\ prompt = "panel" => memory = {}
    /\ asked # Nothing => prompt \in {"panel", "cli"}

(* The inductive invariant behind the two theorems on consent. *)
ConsentInv == TypeOK /\ Bookkeeping /\ HighRiskNeedsConsent /\ AskedOnce

LEMMA ConsentInit == Init => ConsentInv
<1> SUFFICES ASSUME Init PROVE ConsentInv
  OBVIOUS
<1>1. TypeOK
  BY DEF Init, TypeOK, Nothing, Mode
<1>2. Bookkeeping /\ HighRiskNeedsConsent /\ AskedOnce
  BY DEF Init, Bookkeeping, HighRiskNeedsConsent, AskedOnce, Nothing
<1> QED
  BY <1>1, <1>2 DEF ConsentInv

LEMMA ConsentStep == ConsentInv /\ [Next]_vars => ConsentInv'
<1> SUFFICES ASSUME ConsentInv, [Next]_vars PROVE ConsentInv'
  OBVIOUS
<1> USE DEF ConsentInv
<1>1. ASSUME NEW r \in Request, CanUseTool(r) PROVE ConsentInv'
  <2>1. TypeOK'
    BY <1>1 DEF CanUseTool, Verdict, TypeOK
  <2>2. Bookkeeping' /\ AskedOnce'
    BY <1>1 DEF CanUseTool, Bookkeeping, AskedOnce, Covers
  <2>3. last'.request = r /\ mode' = mode /\ consents' = consents
    BY <1>1 DEF CanUseTool, Verdict
  <2>4. HighRiskNeedsConsent'
    <3>1. CASE Covers(grants, r)
      BY <2>3, <3>1 DEF HighRiskNeedsConsent, Bookkeeping, Covers
    <3>2. CASE ~Covers(grants, r) /\ Decide(mode, r) = "allow"
      BY <2>3, <3>2, HighRiskNotAllowed DEF HighRiskNeedsConsent, TypeOK
    <3>3. CASE ~Covers(grants, r) /\ Decide(mode, r) # "allow"
      BY <1>1, <3>3 DEF CanUseTool, Verdict, HighRiskNeedsConsent
    <3> QED
      BY <3>1, <3>2, <3>3
  <2> QED
    BY <2>1, <2>2, <2>4
<1>2. ASSUME NEW r \in Request, AskUser(r) PROVE ConsentInv'
  <2>1. TypeOK'
    BY <1>2 DEF AskUser, TypeOK
  <2>2. Bookkeeping'
    BY <1>2 DEF AskUser, NeedsUser, Bookkeeping, TypeOK
  <2>3. HighRiskNeedsConsent'
    BY <1>2 DEF AskUser, HighRiskNeedsConsent, Covers
  <2>4. AskedOnce'
    BY <1>2 DEF AskUser, NeedsUser, AskedOnce, Bookkeeping, Covers
  <2> QED
    BY <2>1, <2>2, <2>3, <2>4
<1>3. ASSUME NEW r \in Request, Remembered(r) PROVE ConsentInv'
  <2>1. TypeOK'
    BY <1>3 DEF Remembered, Verdict, TypeOK
  <2>2. Bookkeeping' /\ HighRiskNeedsConsent' /\ AskedOnce'
    BY <1>3 DEF Remembered, Verdict, Bookkeeping, HighRiskNeedsConsent, AskedOnce, Covers
  <2> QED
    BY <2>1, <2>2
<1>4. ASSUME NEW approved \in BOOLEAN, NEW scope \in {"once", "tool", "risk"},
             UserAnswers(approved, scope)
      PROVE  ConsentInv'
  <2>1. asked \in Request /\ asked' = Nothing /\ mode' = mode /\ prompt' = prompt
    BY <1>4 DEF UserAnswers, TypeOK
  <2>2. Given(asked, scope) \subseteq Tool \cup Risk
    BY <2>1, RequestFields DEF Given
  <2>3. last' \in [request : {asked}, by : {"user", "nobody"}]
    BY <1>4 DEF UserAnswers, Verdict
  <2>4. \/ UNCHANGED <<grants, memory, consents>>
        \/ /\ consents' = consents \cup Given(asked, scope)
           /\ \/ grants' = grants \cup Given(asked, scope) /\ memory' = memory /\ prompt = "panel"
              \/ memory' = memory \cup Given(asked, scope) /\ grants' = grants /\ prompt = "cli"
    BY <1>4 DEF UserAnswers, Bookkeeping
  <2>5. TypeOK'
    BY <2>1, <2>2, <2>3, <2>4 DEF TypeOK
  <2>6. Bookkeeping' /\ HighRiskNeedsConsent' /\ AskedOnce'
    BY <2>1, <2>3, <2>4 DEF Bookkeeping, HighRiskNeedsConsent, AskedOnce
  <2> QED
    BY <2>5, <2>6
<1>5. CASE NextRun
  <2>1. TypeOK'
    BY <1>5 DEF NextRun, TypeOK
  <2>2. Bookkeeping' /\ HighRiskNeedsConsent' /\ AskedOnce'
    BY <1>5 DEF NextRun, Bookkeeping, HighRiskNeedsConsent, AskedOnce
  <2> QED
    BY <2>1, <2>2
<1>6. CASE UNCHANGED vars
  BY <1>6 DEF vars, TypeOK, Bookkeeping, HighRiskNeedsConsent, AskedOnce, Covers
<1> QED
  BY <1>1, <1>2, <1>3, <1>4, <1>5, <1>6 DEF Next

(* The state of the checker and the prompt stays within its types. *)
THEOREM TypeCorrect == Spec => []TypeOK
<1>1. ConsentInv => TypeOK
  BY DEF ConsentInv
<1> QED
  BY <1>1, ConsentInit, ConsentStep, PTL DEF Spec

(* With any tools, no grant, memory or review lets a high-risk call pass    *)
(* that the user never approved (ToolRuntime.ts:112-222).                   *)
THEOREM ConsentNeeded == Spec => []HighRiskNeedsConsent
<1>1. ConsentInv => HighRiskNeedsConsent
  BY DEF ConsentInv
<1> QED
  BY <1>1, ConsentInit, ConsentStep, PTL DEF Spec

(* A grant is asked for once in a run or CLI session (DEVELOPMENT.md:305). *)
THEOREM ConsentKept == Spec => []AskedOnce
<1>1. ConsentInv => AskedOnce
  BY DEF ConsentInv
<1> QED
  BY <1>1, ConsentInit, ConsentStep, PTL DEF Spec

(* The modes are ordered, the reviewer included (PermissionPolicy.ts:169). *)
THEOREM ModesAreOrdered == ModesOrdered
<1> SUFFICES ASSUME NEW r \in Request
             PROVE  /\ Rank(Decide("read-only", r)) <= Rank(Decide("default", r))
                    /\ Rank(Decide("default", r)) <= Rank(Decide("confirm-high-risk", r))
                    /\ Rank(Decide("confirm-high-risk", r)) <= Rank(Decide("auto", r))
  BY DEF ModesOrdered, Stricter
<1> DEFINE decision(m) == Decide(m, r)
<1>1. r.risk \in Risk /\ r.scope \in {NotAFile, "workspace", "desktop", "external"}
  BY RequestFields
<1>2. CASE r.scope # NotAFile
  <2>1. r.tool = "windows.filesystem"
    BY <1>2 DEF Request, FileRequest
  <2>2. ~RequiresReview(r)
    BY <2>1 DEF RequiresReview
  <2>3. \A m \in Mode : Decide(m, r) = FileDecision(r)
    BY <1>2, <2>2 DEF Decide, Evaluate
  <2>4. FileDecision(r) \in {"deny", "ask", "allow"}
    BY <1>1, <1>2 DEF FileDecision
  <2> QED
    BY <2>3, <2>4 DEF Rank, Mode
<1>3. CASE r.scope = NotAFile
  BY <1>1, <1>3 DEF Decide, Evaluate, Review, Rank, Risk
<1> QED
  BY <1>2, <1>3
=============================================================================
