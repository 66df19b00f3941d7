-------------------------- MODULE ResultCollection --------------------------
(***************************************************************************)
(* The stored tool results (tools/runtime/ToolResultStorage.ts) and all who *)
(* write and collect them: the turns of a session, whose runtime stores     *)
(* each large result and cleans up after it, and the runs of the daemons    *)
(* (ResultGcDaemon, ResultGcScheduler.ts).  Every session has a directory;  *)
(* collecting removes whole directories.                                    *)
(*                                                                          *)
(* Definitions named Broken... are faulty variants for mutation testing.    *)
(***************************************************************************)
EXTENDS ResultGcDaemon, Selection, SequencesExt, FiniteSetsExt

CONSTANTS
    Session,        \* the sessions that may have a directory
    Default,        \* the session of the command line, which daemons protect
    Writers,        \* the sessions that run turns in this behaviour
    MaxSessionDirs, MaxTotalBytes, PreserveRecent,   \* ResultGcPolicy
    MaxResults      \* bound: results stored for a session

ASSUME CollectionAssumption ==
    /\ IsFiniteSet(Session) /\ Default \in Session /\ Writers \subseteq Session
    /\ Session \cap Proc = {}
    /\ {MaxSessionDirs, MaxTotalBytes, PreserveRecent, MaxResults} \subseteq Nat

VARIABLES
    dirs,      \* the directories by their time of change, the latest first
    stored,    \* the results in the directory of each session, of equal size
    aged,      \* the directories not changed for staleSessionAgeMs
    promised,  \* the pointers that calls of each session have returned
    job,       \* how far the call or the GC run of each collector is
    left       \* the candidates that the collector has still to remove

storeVars == <<dirs, stored, aged, promised, job, left>>
allVars == <<vars, storeVars>>

Collector == Proc \cup Writers

(* The directories of earlier runs; the older ones age first. *)
CollectionInit ==
    /\ Init
    /\ dirs = SetToSeq(Session \ {Default})
    /\ stored \in {f \in [Session -> 0..2] : \A s \in Session : f[s] = 0 <=> s = Default}
    /\ aged = {}
    /\ promised = [s \in Session |-> 0]
    /\ job = [x \in Collector |-> "idle"]
    /\ left = [x \in Collector |-> <<>>]
-----------------------------------------------------------------------------
(* collectResultGcPlan for a list of directories and a protected session. *)
Bytes(ss) == MapThenSumSet(LAMBDA s : stored[s], ss)

BrokenStaleSessions(list, protected) == ToSet(list) \cap aged

StaleSessions(list, protected) == (ToSet(list) \cap aged) \ {protected}

BrokenQuotaPool(list, protected) ==
    Reverse(Only(list, Session \ {protected}))

(* buildQuotaPool: neither the protected session nor the latest others, and *)
(* the oldest first.                                                        *)
QuotaPool(list, protected) ==
    LET removable == Only(list, Session \ {protected})
    IN Reverse(SubSeq(removable, PreserveRecent + 1, Len(removable)))

BrokenCandidates(list, protected) ==
    LET stale == StaleSessions(list, protected)
        rest == Only(list, Session \ stale)
        pool == QuotaPool(rest, protected)
        Enough(n) == /\ Len(list) - n <= MaxSessionDirs
                     /\ Bytes(ToSet(rest) \ ToSet(SubSeq(pool, 1, n))) <= MaxTotalBytes
        n == CHOOSE m \in 0..Len(pool) :
                /\ Enough(m) \/ m = Len(pool)
                /\ \A k \in 0..(m - 1) : ~Enough(k)
        chosen == stale \cup ToSet(SubSeq(pool, 1, n))
    IN Reverse(Only(list, chosen))

(* The stale directories and, of those that are left, the oldest ones of    *)
(* the pool until both quotas hold or it is used up; sorted by age.         *)
Candidates(list, protected) ==
    LET stale == StaleSessions(list, protected)
        rest == Only(list, Session \ stale)
        pool == QuotaPool(rest, protected)
        Enough(n) == /\ Len(rest) - n <= MaxSessionDirs
                     /\ Bytes(ToSet(rest) \ ToSet(SubSeq(pool, 1, n))) <= MaxTotalBytes
        n == CHOOSE m \in 0..Len(pool) :
                /\ Enough(m) \/ m = Len(pool)
                /\ \A k \in 0..(m - 1) : ~Enough(k)
        chosen == stale \cup ToSet(SubSeq(pool, 1, n))
    IN Reverse(Only(list, chosen))

(* listResultSessions reads the directories one after another; when one is  *)
(* removed meanwhile, the list, and with it the plan, is empty.             *)
Plans(x, protected) ==
    {Candidates(dirs, protected)}
        \cup {<<>> : y \in {y \in Collector \ {x} : left[y] # <<>>}}

(* One rm of cleanupResultSessions. *)
RemoveNext(x) ==
    /\ job[x] = "removing" /\ left[x] # <<>>
    /\ dirs' = Only(dirs, Session \ {Head(left[x])})
    /\ stored' = [stored EXCEPT ![Head(left[x])] = 0]
    /\ aged' = aged \ {Head(left[x])}
    /\ left' = [left EXCEPT ![x] = Tail(@)]
    /\ UNCHANGED <<promised, job, vars>>
-----------------------------------------------------------------------------
(* persistIfNeeded of a large result of session s: the directory of the     *)
(* turn is made, which changes that of the session if either is new...      *)
MakeDirectory(s) ==
    /\ job[s] = "idle" /\ promised[s] < MaxResults /\ stored[s] < MaxResults
    /\ \E newTurn \in BOOLEAN :
        IF newTurn \/ s \notin ToSet(dirs)
        THEN /\ dirs' = <<s>> \o Only(dirs, Session \ {s})
             /\ aged' = aged \ {s}
        ELSE UNCHANGED <<dirs, aged>>
    /\ job' = [job EXCEPT ![s] = "writing"]
    /\ UNCHANGED <<stored, promised, left, vars>>

BrokenWriteResult(s) ==
    /\ job[s] = "writing"
    /\ stored' = [stored EXCEPT ![s] = @ + 1]
    /\ job' = [job EXCEPT ![s] = "planning"]
    /\ left' = [left EXCEPT ![s] = Only(dirs, Session \ {s})]
    /\ UNCHANGED <<dirs, aged, promised, vars>>

(* ...and the result written, unless its directory is gone again: the call  *)
(* then fails, though the tool has run.                                     *)
WriteResult(s) ==
    /\ job[s] = "writing"
    /\ IF s \in ToSet(dirs)
       THEN /\ stored' = [stored EXCEPT ![s] = @ + 1]
            /\ job' = [job EXCEPT ![s] = "planning"]
       ELSE /\ job' = [job EXCEPT ![s] = "idle"]
            /\ UNCHANGED stored
    /\ UNCHANGED <<dirs, aged, promised, left, vars>>

(* cleanupResultSessions, which protects the session itself. *)
PlanCleanup(s) ==
    /\ job[s] = "planning"
    /\ \E plan \in Plans(s, s) : left' = [left EXCEPT ![s] = plan]
    /\ job' = [job EXCEPT ![s] = "removing"]
    /\ UNCHANGED <<dirs, stored, aged, promised, vars>>

ReturnPointer(s) ==
    /\ job[s] = "removing" /\ left[s] = <<>>
    /\ promised' = [promised EXCEPT ![s] = @ + 1]
    /\ job' = [job EXCEPT ![s] = "idle"]
    /\ UNCHANGED <<dirs, stored, aged, left, vars>>

(* A directory cannot be read, or a file that is in use not be removed: the *)
(* call fails, and the rest of the candidates stays.                        *)
CleanupFails(s) ==
    /\ job[s] = "planning" \/ (job[s] = "removing" /\ left[s] # <<>>)
    /\ job' = [job EXCEPT ![s] = "idle"]
    /\ left' = [left EXCEPT ![s] = <<>>]
    /\ UNCHANGED <<dirs, stored, aged, promised, vars>>

(* Time passes for the directory that is the next to age. *)
Age ==
    /\ \E i \in DOMAIN dirs :
        /\ dirs[i] \notin aged
        /\ \A j \in (i + 1)..Len(dirs) : dirs[j] \in aged
        /\ aged' = aged \cup {dirs[i]}
    /\ UNCHANGED <<dirs, stored, promised, job, left, vars>>
-----------------------------------------------------------------------------
(* runNow of the scheduler plans once to report and, if there is anything   *)
(* to remove, again to remove it.  The daemons protect the default session. *)
StartRun(p) ==
    job' = [job EXCEPT ![p] = IF gc'[p] /\ ~gc[p] THEN "reporting" ELSE @]

PlanRun(p) ==
    /\ gc[p] /\ job[p] \in {"reporting", "planning"}
    /\ \E plan \in Plans(p, Default) :
        IF job[p] = "reporting"
        THEN /\ job' = [job EXCEPT ![p] = IF plan = <<>> THEN "removing" ELSE "planning"]
             /\ UNCHANGED left
        ELSE /\ job' = [job EXCEPT ![p] = "removing"]
             /\ left' = [left EXCEPT ![p] = plan]
    /\ UNCHANGED <<dirs, stored, aged, promised, vars>>

(* A run ends with its last candidate, fails on the way or dies with its    *)
(* process.                                                                 *)
EndRun(p) ==
    /\ GcEnds(p) \/ Crash(p)
    /\ job' = [job EXCEPT ![p] = "idle"]
    /\ left' = [left EXCEPT ![p] = <<>>]
    /\ UNCHANGED <<dirs, stored, aged, promised>>

(* What a daemon does apart from its runs. *)
DaemonStep(p) ==
    /\ Begin(p) \/ ExitTyped(p) \/ Signal(p) \/ TryLock(p) \/ GiveUp(p)
        \/ Started(p) \/ ShutdownGoesOn(p) \/ ShutdownReturns(p) \/ Release(p)
        \/ MainReturns(p) \/ ProcessExits(p) \/ Beat(p) \/ HeartbeatFails(p)
        \/ Stalls
    /\ UNCHANGED storeVars

DaemonRun(p) ==
    /\ Serve(p) \/ GcTick(p)
    /\ StartRun(p)
    /\ UNCHANGED <<dirs, stored, aged, promised, left>>

CollectionNext ==
    \/ Age
    \/ \E x \in Collector : RemoveNext(x)
    \/ \E s \in Writers :
        \/ MakeDirectory(s) \/ WriteResult(s) \/ PlanCleanup(s)
        \/ ReturnPointer(s) \/ CleanupFails(s)
    \/ \E p \in Proc : DaemonStep(p) \/ DaemonRun(p) \/ PlanRun(p) \/ EndRun(p)

CollectionSpec == CollectionInit /\ [][CollectionNext]_allVars
-----------------------------------------------------------------------------
(* Type invariant: the daemons', and a store without empty listings.  A     *)
(* collector has candidates only while it removes them.                     *)
CollectionTypeOK ==
    /\ TypeOK
    /\ dirs \in Seq(Session) /\ \A i, j \in DOMAIN dirs : dirs[i] = dirs[j] => i = j
    /\ aged \subseteq ToSet(dirs)
    /\ stored \in [Session -> Nat] /\ \A s \in Session : stored[s] > 0 => s \in ToSet(dirs)
    /\ promised \in [Session -> 0..MaxResults]
    /\ job \in [Collector -> {"idle", "writing", "reporting", "planning", "removing"}]
    /\ \A x \in Collector : left[x] # <<>> => job[x] = "removing"
    /\ \A p \in Proc : gc[p] <=> job[p] # "idle"

(* A pointer that the model was given can be read: no cleanup after a later *)
(* result and no daemon collects the results of the running session of the  *)
(* command line (protectedSessionId, ToolResultStorage.ts:124, 168-175,     *)
(* 302-304), as long as no other session runs beside it.                    *)
PointersResolve == \A s \in Writers : promised[s] <= stored[s]

(* However the runs of daemons and the cleanups of the session interleave,  *)
(* they collect no more than one of them would: a directory that is not     *)
(* stale is removed only while the directories exceed a quota (178-224),    *)
(* though each works from a list that the others have made out of date.     *)
NoOverCollection ==
    [][\A s \in Session :
         s \in ToSet(dirs) \ aged /\ s \notin ToSet(dirs')
            => Len(dirs) > MaxSessionDirs \/ Bytes(ToSet(dirs)) > MaxTotalBytes]_allVars

(* ...and only while as many others as are to be preserved are newer than   *)
(* it, not counting the protected one, however far over its quotas the      *)
(* store is (buildQuotaPool, 297-314).                                      *)
RecentKept ==
    [][\A s \in Session :
         s \in ToSet(dirs) \ aged /\ s \notin ToSet(dirs')
            => \E i \in DOMAIN dirs :
                /\ dirs[i] = s
                /\ Cardinality({j \in 1..(i - 1) : dirs[j] # Default}) >= PreserveRecent]_allVars
=============================================================================
