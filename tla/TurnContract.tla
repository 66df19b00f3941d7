---------------------------- MODULE TurnContract ----------------------------
(***************************************************************************)
(* What QueryEngine.submitUserMessage promises its caller, without tools,   *)
(* batches, history or discovery: a turn makes a bounded number of rounds,  *)
(* each round answers every call the model asked for before the model is    *)
(* asked again, no request follows a stop, and the turn ends with a verdict *)
(* that what happened justifies.  AgentTurn implements it.                  *)
(***************************************************************************)
EXTENDS Naturals

CONSTANTS MaxTurns, MaxCalls

VARIABLES
    phase,    \* idle, ready to ask, asked, acting on the answer, closing
    owed,     \* calls of the latest answer without a result
    rounds,   \* rounds completed in this turn
    verdict,  \* QueryTurnResult.stopReason, or "failed" for an exception
    stopped   \* the caller has asked to stop

cvars == <<phase, owed, rounds, verdict, stopped>>

Init == /\ phase = "idle" /\ owed = 0 /\ rounds = 0
        /\ verdict = "none" /\ stopped = FALSE

Stop == ~stopped /\ stopped' = TRUE /\ UNCHANGED <<phase, owed, rounds, verdict>>

Begin ==
    /\ phase = "idle" /\ ~stopped
    /\ phase' = "ready" /\ rounds' = 0 /\ verdict' = "none"
    /\ UNCHANGED <<owed, stopped>>

Refuse ==
    /\ phase = "idle" /\ stopped
    /\ phase' = "closing" /\ verdict' = "aborted"
    /\ UNCHANGED <<owed, rounds, stopped>>

Ask ==
    /\ phase = "ready" /\ rounds < MaxTurns /\ ~stopped
    /\ phase' = "asked"
    /\ UNCHANGED <<owed, rounds, verdict, stopped>>

Answer ==
    /\ phase = "asked"
    /\ phase' = "acting" /\ owed' \in 0..MaxCalls
    /\ UNCHANGED <<rounds, verdict, stopped>>

Result ==
    /\ phase = "acting" /\ owed > 0 /\ ~stopped
    /\ owed' = owed - 1
    /\ UNCHANGED <<phase, rounds, verdict, stopped>>

EndRound ==
    /\ phase = "acting" /\ owed = 0
    /\ phase' = "ready" /\ rounds' = rounds + 1
    /\ UNCHANGED <<owed, verdict, stopped>>

Earned(v) == \/ v = "final"     /\ phase = "asked" /\ owed = 0
             \/ v = "max_turns" /\ phase = "ready" /\ owed = 0 /\ rounds = MaxTurns
             \/ v = "aborted"   /\ phase \in {"ready", "asked", "acting"} /\ stopped

Decide(v) ==
    /\ Earned(v)
    /\ phase' = "closing" /\ verdict' = v /\ owed' = 0
    /\ UNCHANGED <<rounds, stopped>>

Return ==
    /\ phase = "closing" /\ phase' = "idle"
    /\ UNCHANGED <<owed, rounds, verdict, stopped>>

Throw ==
    /\ phase # "idle"
    /\ phase' = "idle" /\ owed' = 0 /\ verdict' = "failed"
    /\ UNCHANGED <<rounds, stopped>>

TurnStep == \/ Ask \/ Answer \/ Result \/ EndRound \/ Return \/ Throw
            \/ \E v \in {"final", "max_turns", "aborted"} : Decide(v)

Next == Stop \/ Begin \/ Refuse \/ TurnStep

Spec == Init /\ [][Next]_cvars
=============================================================================
