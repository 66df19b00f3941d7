--------------------------- MODULE ResultGcDaemon ---------------------------
(***************************************************************************)
(* Result GC daemons (apps/cli/result-gc-daemon.ts) that share a lock file  *)
(* (SingleInstanceLock) and a directory of results.  A daemon is several    *)
(* activities on one event loop: main, the heartbeat of its lock, the       *)
(* periodic GC (ResultGcScheduler.ts) and the asynchronous handleShutdown,  *)
(* which signals, a lost lock and main itself call, and of which only the   *)
(* first call does anything.                                                *)
(*                                                                          *)
(* Definitions named Broken... are faulty variants for mutation testing.    *)
(***************************************************************************)
EXTENDS SingleInstanceLock

CONSTANT Signals   \* whether SIGINT and SIGTERM are sent

ASSUME SignalsAssumption == Signals \in BOOLEAN

VARIABLES
    main,   \* how far main is
    down,   \* how far handleShutdown is, "no" before its first call
    timer,  \* the interval of the scheduler is set
    gc,     \* a GC run is in flight
    lost    \* internalShutdown has been resolved

daemonVars == <<main, down, timer, gc, lost>>
vars == <<lockVars, daemonVars>>

Init ==
    /\ LockInit
    /\ main = [p \in Proc |-> "off"]
    /\ down = [p \in Proc |-> "no"]
    /\ timer = [p \in Proc |-> FALSE]
    /\ gc = [p \in Proc |-> FALSE]
    /\ lost = [p \in Proc |-> FALSE]

At(p, place) == p \in alive /\ main[p] = place
-----------------------------------------------------------------------------
(* main first acquires the lock, and ends when it does not get it. *)
Begin(p) == Acquire(p) /\ UNCHANGED daemonVars

TryLock(p) == (AcquireStep(p) \/ Refused(p)) /\ UNCHANGED daemonVars

GiveUp(p) ==
    /\ At(p, "off") /\ handle[p] = "refused"
    /\ main' = [main EXCEPT ![p] = "over"]
    /\ UNCHANGED <<lockVars, down, timer, gc, lost>>

(* With the lock it starts the heartbeat and the scheduler and, if          *)
(* runOnStart, a first GC run, which it awaits.                             *)
Serve(p) ==
    /\ Create(p)
    /\ main' = [main EXCEPT ![p] = "startup"]
    /\ timer' = [timer EXCEPT ![p] = TRUE]
    /\ \E runOnStart \in BOOLEAN : gc' = [gc EXCEPT ![p] = runOnStart]
    /\ UNCHANGED <<down, lost>>

(* handleShutdown: the first call stops the heartbeat, then the scheduler,  *)
(* and waits for the outstanding work of each.                              *)
CallShutdown(p) ==
    IF down[p] = "no"
    THEN /\ down' = [down EXCEPT ![p] = "heartbeat"]
         /\ hb' = [hb EXCEPT ![p] = Stopping(@)]
    ELSE UNCHANGED <<down, hb>>

(* main's own call of it, in its finally at the latest: main waits for the  *)
(* first call only, and goes on to release the lock after any other.        *)
Finalize(p) ==
    /\ CallShutdown(p)
    /\ \/ /\ down[p] = "no"
          /\ main' = [main EXCEPT ![p] = "closing"]
          /\ UNCHANGED handle
       \/ /\ down[p] # "no"
          /\ main' = [main EXCEPT ![p] = "releasing"]
          /\ handle' = [handle EXCEPT ![p] = "checking"]

(* main goes on after the first GC run: to wait for its end, or, with       *)
(* --run-once (the scheduler stopped) or a failed run, to its finally.      *)
Started(p) ==
    /\ At(p, "startup") /\ ~gc[p]
    /\ \/ /\ ~lost[p]
          /\ main' = [main EXCEPT ![p] = "running"]
          /\ UNCHANGED <<handle, hb, down, timer>>
       \/ /\ Finalize(p)
          /\ \E runOnce \in BOOLEAN : timer' = [timer EXCEPT ![p] = @ /\ ~runOnce]
    /\ UNCHANGED <<lockFile, alive, tries, gc, lost>>

(* exit, quit or stop is typed. *)
ExitTyped(p) ==
    /\ At(p, "running")
    /\ Finalize(p)
    /\ UNCHANGED <<lockFile, alive, tries, timer, gc, lost>>

(* SIGINT or SIGTERM.  handleShutdown is called by its own listener, and    *)
(* the one that main waits on, if it does already, resumes main.            *)
Signal(p) ==
    /\ Signals
    /\ main[p] \in {"startup", "running"} /\ p \in alive
    /\ CallShutdown(p)
    /\ \/ main[p] = "startup" /\ UNCHANGED <<main, handle>>
       \/ /\ main[p] = "running"
          /\ main' = [main EXCEPT ![p] = "releasing"]
          /\ handle' = [handle EXCEPT ![p] = "checking"]
    /\ UNCHANGED <<lockFile, alive, tries, timer, gc, lost>>

BrokenHeartbeatFails(p) ==
    /\ RefreshLost(p)
    /\ hb' = [hb EXCEPT ![p] = "stopped"]
    /\ lost' = [lost EXCEPT ![p] = TRUE]
    /\ down' = [down EXCEPT ![p] = IF @ = "no" THEN "heartbeat" ELSE @]
    /\ UNCHANGED <<lockFile, alive, handle, tries, main, timer, gc>>

(* onError of the heartbeat: handleShutdown is called and main told. *)
HeartbeatFails(p) ==
    /\ RefreshLost(p)
    /\ hb' = [hb EXCEPT ![p] = "stopped"]
    /\ lost' = [lost EXCEPT ![p] = TRUE]
    /\ down' = [down EXCEPT ![p] = IF @ = "no" THEN "heartbeat" ELSE @]
    /\ IF main[p] = "running"
       THEN /\ main' = [main EXCEPT ![p] = "releasing"]
            /\ handle' = [handle EXCEPT ![p] = "checking"]
       ELSE UNCHANGED <<main, handle>>
    /\ UNCHANGED <<lockFile, alive, tries, timer, gc>>

Beat(p) == (RefreshRead(p) \/ RefreshWrite(p)) /\ UNCHANGED daemonVars
-----------------------------------------------------------------------------
(* The interval of the scheduler: no second run while one is in flight, and *)
(* none before what the event loop has ready, a shutdown or main, goes on.  *)
GcTick(p) ==
    /\ p \in alive /\ timer[p] /\ ~gc[p] /\ main[p] # "startup"
    /\ down[p] = "heartbeat" => hb[p] = "last"
    /\ gc' = [gc EXCEPT ![p] = TRUE]
    /\ UNCHANGED <<lockVars, main, down, timer, lost>>

(* A run ends, or fails; only the first one's failure has consequences. *)
GcEnds(p) ==
    /\ p \in alive /\ gc[p]
    /\ gc' = [gc EXCEPT ![p] = FALSE]
    /\ UNCHANGED <<lockVars, main, down, timer, lost>>

BrokenShutdownGoesOn(p) ==
    /\ p \in alive
    /\ \/ /\ down[p] = "heartbeat" /\ hb[p] # "last"
          /\ down' = [down EXCEPT ![p] = "collector"]
          /\ timer' = [timer EXCEPT ![p] = FALSE]
       \/ /\ down[p] = "collector"
          /\ down' = [down EXCEPT ![p] = "done"]
          /\ UNCHANGED timer
    /\ UNCHANGED <<lockVars, main, gc, lost>>

(* handleShutdown goes on when the last refresh, and then the last run, end.*)
ShutdownGoesOn(p) ==
    /\ p \in alive
    /\ \/ /\ down[p] = "heartbeat" /\ hb[p] # "last"
          /\ down' = [down EXCEPT ![p] = "collector"]
          /\ timer' = [timer EXCEPT ![p] = FALSE]
       \/ /\ down[p] = "collector" /\ ~gc[p]
          /\ down' = [down EXCEPT ![p] = "done"]
          /\ UNCHANGED timer
    /\ UNCHANGED <<lockVars, main, gc, lost>>

ShutdownReturns(p) ==
    /\ At(p, "closing") /\ down[p] = "done"
    /\ main' = [main EXCEPT ![p] = "releasing"]
    /\ handle' = [handle EXCEPT ![p] = "checking"]
    /\ UNCHANGED <<lockFile, alive, tries, hb, down, timer, gc, lost>>

Release(p) == ReleaseStep(p) /\ UNCHANGED daemonVars

MainReturns(p) ==
    /\ At(p, "releasing") /\ handle[p] = "released"
    /\ main' = [main EXCEPT ![p] = "over"]
    /\ UNCHANGED <<lockVars, down, timer, gc, lost>>

(* The event loop is empty. *)
ProcessExits(p) ==
    /\ At(p, "over") /\ down[p] \in {"no", "done"} /\ ~gc[p] /\ hb[p] # "last"
    /\ alive' = alive \ {p}
    /\ UNCHANGED <<lockFile, handle, tries, hb, daemonVars>>

Crash(p) ==
    /\ "crash" \in Faults /\ p \in alive
    /\ alive' = alive \ {p}
    /\ gc' = [gc EXCEPT ![p] = FALSE]
    /\ UNCHANGED <<lockFile, handle, tries, hb, main, down, timer, lost>>

Stalls == Stall /\ UNCHANGED daemonVars

(* What a daemon does once its work, its files and its timers let it. *)
Progress(p) ==
    \/ TryLock(p) \/ GiveUp(p) \/ Serve(p) \/ Started(p)
    \/ ShutdownGoesOn(p) \/ ShutdownReturns(p) \/ Release(p)
    \/ MainReturns(p) \/ ProcessExits(p)

Next ==
    \/ Stalls
    \/ \E p \in Proc :
        \/ Begin(p) \/ ExitTyped(p) \/ Signal(p) \/ Crash(p)
        \/ Progress(p) \/ Beat(p) \/ HeartbeatFails(p) \/ GcTick(p) \/ GcEnds(p)

Spec == Init /\ [][Next]_vars

(* A daemon that was signalled is told again when it goes on. *)
Insist(p) == down[p] # "no" /\ ~lost[p] /\ (Signal(p) \/ ExitTyped(p))

(* No operation of the file system, and no GC run, hangs, and timers fire.  *)
(* Whether and when a daemon is started, first told to end or stalls is     *)
(* left open.                                                               *)
FairSpec ==
    /\ Spec
    /\ \A p \in Proc :
        /\ WF_vars(Progress(p))
        /\ WF_vars(Beat(p) \/ HeartbeatFails(p))
        /\ WF_vars(GcEnds(p))
        /\ WF_vars(Insist(p))
-----------------------------------------------------------------------------
(* Type invariant of the lock and the daemons; no run outlives its process. *)
TypeOK ==
    /\ LockTypeOK
    /\ main \in [Proc -> {"off", "startup", "running", "closing", "releasing", "over"}]
    /\ down \in [Proc -> {"no", "heartbeat", "collector", "done"}]
    /\ timer \in [Proc -> BOOLEAN] /\ lost \in [Proc -> BOOLEAN]
    /\ gc \in [Proc -> BOOLEAN] /\ \A p \in Proc : gc[p] => p \in alive

(* Two daemons never collect the results at the same time: collection is    *)
(* what the lock is for (result-gc-daemon.ts:39-46), and a daemon that ends *)
(* waits for its run before it releases the lock (58-67, 158-159).          *)
OneCollector == \A p, q \in Proc : gc[p] /\ gc[q] => p = q

(* Daemons that have all ended leave no lock file, which would name a       *)
(* process of the past: no refresh writes it again after the release (66,   *)
(* and refresh and release of SingleInstanceLock.ts:62-86).                 *)
LockGoneAtEnd == (\A p \in Proc : main[p] = "over") => lockFile = NoFile

(* A daemon whose lock another has taken over, or that finds it gone, stops *)
(* serving, unless its own refresh, under way already, takes it back: the   *)
(* next heartbeat fails and main is told (result-gc-daemon.ts:80-90).       *)
DisplacedOwnerStops ==
    \A p \in Proc :
        (At(p, "startup") \/ At(p, "running")) /\ lockFile.owner # p
            ~> p \notin alive \/ lockFile.owner = p

(* A lock whose owner has crashed does not keep a daemon from starting: one *)
(* that is alone from its start on, gets the lock in its second attempt     *)
(* (SingleInstanceLock.ts:93-128, 330-341), however fresh the heartbeat is. *)
CrashedOwnerReplaced ==
    \A p \in Proc :
        (/\ p \in alive /\ handle[p] = "creating" /\ tries[p] = 0
         /\ \A q \in Proc \ {p} : q \notin alive /\ handle[q] # "none")
            ~> handle[p] = "held" \/ (p \notin alive /\ handle[p] # "refused")
=============================================================================
