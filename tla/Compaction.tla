----------------------------- MODULE Compaction -----------------------------
(***************************************************************************)
(* What a request shows of the history: the recent messages                 *)
(* (buildMessagesForModel of QueryEngine.ts), compacted by                  *)
(* RuleBasedMicroCompactStrategy (CompactStrategy.ts).  A message is its    *)
(* role; micro-compaction shortens the contents of older tool messages,     *)
(* which changes no role.  Whether a text fits a limit is left open.        *)
(***************************************************************************)
EXTENDS Integers, Sequences, Selection

CONSTANTS
    MaxContext,     \* maxContextMessages
    MinSession,     \* minSessionMemoryMessages
    TailLength,     \* messages kept by a full compaction
    MaxFailures     \* maxConsecutiveCompactFailures

ASSUME CompactionAssumption ==
    {MaxContext, MinSession, TailLength, MaxFailures} \subseteq Nat \ {0}

VARIABLES
    failures,   \* consecutiveCompactFailures
    paused      \* compactPaused

Role == {"user", "system", "assistant", "tool"}

Spoken(ms) == Only(ms, Role \ {"system"})

LastOf(ms, n) == IF Len(ms) <= n THEN ms ELSE SubSeq(ms, Len(ms) - n + 1, Len(ms))

\* buildRecentContextWindow: the asking message comes along when the cut is behind it.
Recent(ms) ==
    LET spoken == Spoken(ms)
        first == Len(spoken) - MaxContext + 1
    IN IF Len(spoken) <= MaxContext THEN ms
       ELSE IF first > 1 /\ spoken[first] = "tool" /\ spoken[first - 1] = "assistant"
            THEN LastOf(spoken, MaxContext + 1) ELSE LastOf(spoken, MaxContext)

\* The summary of the older messages is a system message in front of the others.
SessionSummary(ms) == <<"system">> \o LastOf(ms, MinSession)

\* Mutant: keeps the oldest of the recent messages.
BrokenConversationTail(ms) ==
    LET spoken == Spoken(ms)
    IN IF Len(spoken) <= TailLength THEN spoken ELSE SubSeq(spoken, 1, TailLength)

\* collectRecentConversationTail, what a full compaction keeps.
ConversationTail(ms) == LastOf(Spoken(ms), TailLength)

FullSummary(ms) == <<"system">> \o ConversationTail(ms)

\* markCompactSuccess, markCompactFailure: a success counts anew, a pause is for good.
MarkSuccess == failures' = 0 /\ UNCHANGED paused
MarkFailure ==
    /\ failures' = failures + 1
    /\ paused' = (paused \/ failures + 1 >= MaxFailures)
=============================================================================
