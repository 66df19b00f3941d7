---------------------------- MODULE MemoryFacts ----------------------------
(***************************************************************************)
(* FileMemoryStore (MemoryStore.ts): the facts of a session in one file.    *)
(* appendFact reads the file, puts the fact in, writes all of it to a       *)
(* temporary file and renames that over the old one; each await is a step   *)
(* of its own, and between any two of them the process may crash.           *)
(*                                                                          *)
(* One engine writes at a time: it awaits every appendFact, and a session   *)
(* has one engine.  Of the facts three are kept, those that a later step    *)
(* of the engine reads and the outcome of the last attempt; all three are   *)
(* replaced, never merged.                                                  *)
(***************************************************************************)
EXTENDS Integers, Sequences

VARIABLES
    file,       \* what the facts file holds
    temp,       \* what the temporary file holds, no facts when it is not there
    stage,      \* how far the append under way is
    loaded,     \* the facts it has read
    pending,    \* the facts the engine still has to append before it goes on
    acked       \* what has been appended (history)

memoryVars == <<file, temp, stage, loaded, pending, acked>>

Key == {"last_attempt", "current_target", "recovery_point"}
Content == {"none", "set", "focus", "observe",
            "succeeded", "failed", "verified_failed", "blocked"}
Facts == [Key -> Content]
Fact  == [key : Key, content : Content]
File  == [torn : BOOLEAN, facts : Facts]

NoFacts == [k \in Key |-> "none"]
About(key, content) == [key |-> key, content |-> content]

\* upsertMemoryFact, for a fact with a key that replaces.
Upsert(facts, fact) == [facts EXCEPT ![fact.key] = fact.content]

\* readFactsFromFile: a file that cannot be parsed holds no facts.
ReadFile(f) == IF f.torn THEN NoFacts ELSE f.facts

NoFile == [torn |-> FALSE, facts |-> NoFacts]

MemoryInit ==
    /\ file = NoFile /\ temp = NoFile
    /\ stage = "idle" /\ loaded = NoFacts /\ pending = <<>> /\ acked = NoFacts

ReadFacts ==
    /\ stage = "idle" /\ pending # <<>>
    /\ stage' = "read" /\ loaded' = ReadFile(file)
    /\ UNCHANGED <<file, temp, pending, acked>>

\* Mutant: writes to the file itself.
BrokenBeginWrite ==
    /\ stage = "read"
    /\ stage' = "writing" /\ temp' = [torn |-> TRUE, facts |-> NoFacts] /\ file' = temp'
    /\ UNCHANGED <<loaded, pending, acked>>

\* writeFile truncates first: until it is done the file holds a part of the text.
BeginWrite ==
    /\ stage = "read"
    /\ stage' = "writing" /\ temp' = [torn |-> TRUE, facts |-> NoFacts]
    /\ UNCHANGED <<file, loaded, pending, acked>>

EndWrite ==
    /\ stage = "writing"
    /\ stage' = "written"
    /\ temp' = [torn |-> FALSE, facts |-> Upsert(loaded, Head(pending))]
    /\ UNCHANGED <<file, loaded, pending, acked>>

RenameTemp ==
    /\ stage = "written"
    /\ stage' = "idle" /\ file' = temp /\ temp' = NoFile /\ loaded' = NoFacts
    /\ acked' = Upsert(acked, Head(pending)) /\ pending' = Tail(pending)

AppendStep == ReadFacts \/ BeginWrite \/ EndWrite \/ RenameTemp

\* An append that throws, or a crash: whatever was under way stays as it is on disk.
DropAppends ==
    /\ stage' = "idle" /\ pending' = <<>> /\ loaded' = NoFacts
    /\ UNCHANGED <<file, temp, acked>>

MemoryTypeOK ==
    /\ file \in File /\ temp \in File
    /\ stage \in {"idle", "read", "writing", "written"}
    /\ stage # "idle" => pending # <<>>
    /\ loaded \in Facts /\ pending \in Seq(Fact) /\ acked \in Facts

\* Whatever has been appended is what the next reader finds, also a process that
\* starts after a crash or a failed write at any point of an append: the file is
\* never torn and lags behind by nothing that was acknowledged.
FactsDurable == ~file.torn /\ file.facts = acked
=============================================================================
