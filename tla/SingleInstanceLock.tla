------------------------- MODULE SingleInstanceLock -------------------------
(***************************************************************************)
(* The lock file of packages/tools/runtime/SingleInstanceLock.ts: acquire,  *)
(* heartbeat and release of the processes that share one lock path.  Every  *)
(* file operation is an action of its own, so the processes interleave      *)
(* between a read of the file and the write or removal that rests on it.    *)
(*                                                                          *)
(* Time is abstracted to whether the file's heartbeatAt is fresh.  A write  *)
(* of the file is atomic; a reader that meets it half-written, or any other *)
(* failing read, is the fault "io".  A process id is not used twice.        *)
(***************************************************************************)
EXTENDS Naturals

CONSTANTS
    Proc,     \* the processes, each started once
    NoOne,    \* owner of a lock file that is not there
    Forcing,  \* those started with takeover 'force'
    Faults    \* of "stall" (an owner misses its heartbeats), "crash", "io"

ASSUME LockAssumption ==
    /\ NoOne \notin Proc /\ Forcing \subseteq Proc
    /\ Faults \subseteq {"stall", "crash", "io"}

VARIABLES
    lockFile,  \* whose metadata is in it, and whether its heartbeat is fresh
    alive,     \* the processes that run
    handle,    \* how far acquire, or release, is
    tries,     \* attempts of acquire that have failed
    hb         \* the heartbeat controller

lockVars == <<lockFile, alive, handle, tries, hb>>

NoFile == [owner |-> NoOne, fresh |-> FALSE]
FileOf(p) == [owner |-> p, fresh |-> TRUE]

MaxTries == 2

BrokenActivelyHeld == lockFile.fresh

(* isLockActivelyHeld; false of a file that is not there. *)
ActivelyHeld == lockFile.fresh /\ lockFile.owner \in alive

LockInit ==
    /\ lockFile = NoFile /\ alive = {}
    /\ handle = [p \in Proc |-> "none"]
    /\ tries = [p \in Proc |-> 0]
    /\ hb = [p \in Proc |-> "off"]

Step(p, from, to) == /\ p \in alive /\ handle[p] = from
                     /\ handle' = [handle EXCEPT ![p] = to]
-----------------------------------------------------------------------------
(* acquireSingleInstanceLock. *)
Acquire(p) ==
    /\ p \notin alive /\ handle[p] = "none"
    /\ alive' = alive \cup {p}
    /\ handle' = [handle EXCEPT ![p] = "creating"]
    /\ UNCHANGED <<lockFile, tries, hb>>

(* writeFile with flag 'wx'.  The caller starts the heartbeat in the same    *)
(* turn of the event loop.                                                   *)
Create(p) ==
    /\ Step(p, "creating", "held")
    /\ lockFile = NoFile /\ lockFile' = FileOf(p)
    /\ hb' = [hb EXCEPT ![p] = "beating"]
    /\ UNCHANGED <<alive, tries>>

CreateExists(p) ==
    /\ Step(p, "creating", "reading")
    /\ lockFile # NoFile
    /\ UNCHANGED <<lockFile, alive, tries, hb>>

(* The file read says that the lock is held: '已在运行'. *)
Refused(p) ==
    /\ \/ Step(p, "reading", "refused") /\ ActivelyHeld /\ p \notin Forcing
       \/ Step(p, "reading", "refused") /\ "io" \in Faults
    /\ UNCHANGED <<lockFile, alive, tries, hb>>

(* It says that the lock may be taken: stale, gone by now, or to be forced. *)
TakeOver(p) ==
    /\ Step(p, "reading", "removing")
    /\ ~ActivelyHeld \/ p \in Forcing
    /\ UNCHANGED <<lockFile, alive, tries, hb>>

(* rm of whatever is there by now, and the next attempt, if there is one.   *)
RemoveLock(p) ==
    /\ Step(p, "removing", IF tries[p] + 1 < MaxTries THEN "creating" ELSE "refused")
    /\ lockFile' = NoFile
    /\ tries' = [tries EXCEPT ![p] = @ + 1]
    /\ UNCHANGED <<alive, hb>>
-----------------------------------------------------------------------------
(* startSingleInstanceLockHeartbeat: the controller is "beating" between    *)
(* refreshes and "writing" between the two halves of one; stop lets the     *)
(* write that is outstanding be the "last".                                 *)
BrokenStopping(h) == IF h = "beating" THEN "stopped" ELSE h

Stopping(h) == CASE h = "beating" -> "stopped" [] h = "writing" -> "last" [] OTHER -> h

(* refresh: the file is read and still carries the instanceId. *)
RefreshRead(p) ==
    /\ p \in alive /\ hb[p] = "beating"
    /\ lockFile.owner = p
    /\ hb' = [hb EXCEPT ![p] = "writing"]
    /\ UNCHANGED <<lockFile, alive, handle, tries>>

(* refresh: a plain writeFile, whatever is there by now. *)
RefreshWrite(p) ==
    /\ p \in alive /\ hb[p] \in {"writing", "last"}
    /\ lockFile' = FileOf(p)
    /\ hb' = [hb EXCEPT ![p] = IF @ = "writing" THEN "beating" ELSE "stopped"]
    /\ UNCHANGED <<alive, handle, tries>>

(* refresh: '守护进程锁已丢失', or the read throws; no further heartbeat.     *)
RefreshLost(p) ==
    /\ p \in alive /\ hb[p] = "beating"
    /\ lockFile.owner # p \/ "io" \in Faults
-----------------------------------------------------------------------------
(* release, in its two halves.  A read that throws leaves the file.         *)
ReleaseRead(p) ==
    /\ \/ lockFile.owner = p /\ Step(p, "checking", "unlinking")
       \/ (lockFile.owner # p \/ "io" \in Faults) /\ Step(p, "checking", "released")
    /\ UNCHANGED <<lockFile, alive, tries, hb>>

ReleaseRemove(p) ==
    /\ Step(p, "unlinking", "released")
    /\ lockFile' = NoFile
    /\ UNCHANGED <<alive, tries, hb>>
-----------------------------------------------------------------------------
(* More than staleAfterMs have passed since the owner's last heartbeat. *)
Stall ==
    /\ "stall" \in Faults
    /\ lockFile.fresh /\ lockFile.owner \in alive
    /\ lockFile' = [lockFile EXCEPT !.fresh = FALSE]
    /\ UNCHANGED <<alive, handle, tries, hb>>

AcquireStep(p) == CreateExists(p) \/ TakeOver(p) \/ RemoveLock(p)
ReleaseStep(p) == ReleaseRead(p) \/ ReleaseRemove(p)

LockTypeOK ==
    /\ lockFile \in [owner : Proc \cup {NoOne}, fresh : BOOLEAN]
    /\ alive \subseteq Proc
    /\ handle \in [Proc -> {"none", "creating", "reading", "removing", "refused",
                            "held", "checking", "unlinking", "released"}]
    /\ tries \in [Proc -> 0..MaxTries]
    /\ hb \in [Proc -> {"off", "beating", "writing", "last", "stopped"}]
=============================================================================
