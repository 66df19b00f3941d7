-------------------------- MODULE CollectionProofs --------------------------
(***************************************************************************)
(* The result GC daemons and the collectors of results.                     *)
(*                                                                          *)
(* The daemons (ResultGcDaemon).  TypeOK holds whatever the constants are.  *)
(* That no two daemons collect at once, and that the lock file is gone in   *)
(* the end, holds of two daemons that are neither signalled nor forced and  *)
(* do not stall, crashes included; any of the rest breaks it (see README).  *)
(* A daemon that has the lock and runs is named by the file (Named), so two *)
(* cannot have it.  What makes this inductive is what the other one may     *)
(* conclude from a file that it has read (Others): once it is about to      *)
(* remove the file, the daemon it was of can no longer write it.            *)
(*                                                                          *)
(* The results (ResultCollection).  The types, and that the daemons go on   *)
(* as ResultGcDaemon says, hold whatever the constants are.  The properties *)
(* of what is collected hold for any number of daemons, with any faults,    *)
(* and whether or not one alone has the lock, as long as only the session   *)
(* of the command line runs turns: every collector protects that one then.  *)
(*                                                                          *)
(* Each collector works from a plan that the others make out of date.  The  *)
(* invariant says what of a plan stays true: what is left of it is sorted   *)
(* by age (Sorted) and has, with a directory, all that are older (Closed),  *)
(* so that no directory goes before an older one, and what made a directory *)
(* a candidate is true of it until it goes (Excess, Old).                   *)
(***************************************************************************)
EXTENDS ResultCollection, SelectionProofs, FiniteSetTheorems, SequenceTheorems, TLAPS

\* What the theorems on the lock assume of the daemons that are started.
PlainDaemons ==
    /\ \A p, q, r \in Proc : p = q \/ p = r \/ q = r
    /\ Forcing = {} /\ ~Signals /\ Faults \subseteq {"crash"}

\* A daemon that acquires the lock has an attempt left, and does not work yet.
Acquiring ==
    \A p \in Proc : handle[p] \in {"none", "creating", "reading", "removing"}
                        => tries[p] < MaxTries /\ ~timer[p] /\ ~gc[p]

Having == {"held", "checking", "unlinking"}
Had == Having \cup {"released"}

\* The file names the daemon that has the lock.
Named ==
    /\ lockFile.owner = NoOne => lockFile = NoFile
    /\ lockFile.owner # NoOne => lockFile.fresh
    /\ \A p \in Proc :
        /\ lockFile.owner = p => handle[p] \in Having
        /\ p \in alive /\ handle[p] \in Having => lockFile.owner = p

\* What a daemon that acquires the lock knows of the other one.
Others ==
    \A p, q \in Proc :
        /\ p # q /\ handle[p] \in {"reading", "removing"} => handle[q] \in Had
        /\ p # q /\ handle[p] = "removing" /\ q \in alive => handle[q] = "released"

\* Main, the lock and the activities of one daemon fit together.
Together ==
    \A p \in Proc :
        /\ ~lost[p]
        /\ main[p] = "off" => handle[p] \notin Had /\ down[p] = "no"
        /\ main[p] \in {"startup", "running"} => handle[p] = "held" /\ down[p] = "no"
        /\ main[p] = "closing" => handle[p] = "held" /\ down[p] # "no"
        /\ main[p] = "releasing" => handle[p] \in Had \ {"held"}
        /\ main[p] = "over" => handle[p] \in {"refused", "released"}
        /\ handle[p] \in Had \ {"held"} => down[p] = "done"
        /\ hb[p] \in {"beating", "writing", "last"} => handle[p] = "held"
        /\ handle[p] = "held" => hb[p] # "off"
        /\ timer[p] \/ gc[p] => handle[p] = "held"
        /\ down[p] # "no" => hb[p] \in {"last", "stopped"}
        /\ down[p] \in {"collector", "done"} => hb[p] = "stopped" /\ ~timer[p]
        /\ down[p] = "done" => ~gc[p]

LockInv == TypeOK /\ Acquiring /\ Named /\ Others /\ Together
-----------------------------------------------------------------------------
\* The initial state is typed.
LEMMA TypeInit == Init => TypeOK /\ Acquiring
BY DEF Init, LockInit, NoFile, TypeOK, LockTypeOK, Acquiring, MaxTries

\* Every step keeps the types, and what is known of a daemon that acquires the lock.
LEMMA TypeNext == TypeOK /\ Acquiring /\ [Next]_vars => TypeOK' /\ Acquiring'
<1> SUFFICES ASSUME TypeOK, Acquiring, [Next]_vars PROVE TypeOK' /\ Acquiring'
  OBVIOUS
<1> USE LockAssumption DEF TypeOK, LockTypeOK, Acquiring, MaxTries, lockVars, daemonVars
<1>1. CASE Stalls
  BY <1>1 DEF Stalls, Stall
<1>2. ASSUME NEW p \in Proc, Begin(p) PROVE TypeOK' /\ Acquiring'
  BY <1>2 DEF Begin, Acquire, FileOf, NoFile
<1>3. ASSUME NEW p \in Proc, TryLock(p) PROVE TypeOK' /\ Acquiring'
  <2> USE DEF Step
  <2>1. CASE CreateExists(p) /\ UNCHANGED daemonVars
    BY <2>1 DEF CreateExists
  <2>2. CASE TakeOver(p) /\ UNCHANGED daemonVars
    BY <2>2 DEF TakeOver
  <2>3. CASE RemoveLock(p) /\ UNCHANGED daemonVars
    BY <2>3 DEF RemoveLock, NoFile
  <2>4. CASE Refused(p) /\ UNCHANGED daemonVars
    BY <2>4 DEF Refused
  <2> QED BY <1>3, <2>1, <2>2, <2>3, <2>4 DEF TryLock, AcquireStep
<1>4. ASSUME NEW p \in Proc, GiveUp(p) PROVE TypeOK' /\ Acquiring'
  BY <1>4 DEF GiveUp, At
<1>5. ASSUME NEW p \in Proc, Serve(p) PROVE TypeOK' /\ Acquiring'
  BY <1>5 DEF Serve, Create, Step, FileOf, NoFile
<1>6. ASSUME NEW p \in Proc, Started(p) PROVE TypeOK' /\ Acquiring'
  BY <1>6 DEF Started, At, Finalize, CallShutdown, Stopping
<1>7. ASSUME NEW p \in Proc, ExitTyped(p) PROVE TypeOK' /\ Acquiring'
  BY <1>7 DEF ExitTyped, At, Finalize, CallShutdown, Stopping
<1>8. ASSUME NEW p \in Proc, Signal(p) PROVE TypeOK' /\ Acquiring'
  BY <1>8 DEF Signal, CallShutdown, Stopping
<1>9. ASSUME NEW p \in Proc, Beat(p) PROVE TypeOK' /\ Acquiring'
  <2>1. CASE RefreshRead(p) /\ UNCHANGED daemonVars
    BY <2>1 DEF RefreshRead
  <2>2. CASE RefreshWrite(p) /\ UNCHANGED daemonVars
    BY <2>2 DEF RefreshWrite, FileOf
  <2> QED BY <1>9, <2>1, <2>2 DEF Beat
<1>10. ASSUME NEW p \in Proc, HeartbeatFails(p) PROVE TypeOK' /\ Acquiring'
  BY <1>10 DEF HeartbeatFails, RefreshLost
<1>11. ASSUME NEW p \in Proc, GcTick(p) PROVE TypeOK' /\ Acquiring'
  BY <1>11 DEF GcTick
<1>12. ASSUME NEW p \in Proc, GcEnds(p) PROVE TypeOK' /\ Acquiring'
  BY <1>12 DEF GcEnds
<1>13. ASSUME NEW p \in Proc, ShutdownGoesOn(p) PROVE TypeOK' /\ Acquiring'
  <2>1. CASE down' = [down EXCEPT ![p] = "collector"] /\ timer' = [timer EXCEPT ![p] = FALSE]
    BY <1>13, <2>1 DEF ShutdownGoesOn
  <2>2. CASE down' = [down EXCEPT ![p] = "done"] /\ UNCHANGED timer
    BY <1>13, <2>2 DEF ShutdownGoesOn
  <2> QED BY <1>13, <2>1, <2>2 DEF ShutdownGoesOn
<1>14. ASSUME NEW p \in Proc, ShutdownReturns(p) PROVE TypeOK' /\ Acquiring'
  BY <1>14 DEF ShutdownReturns, At
<1>15. ASSUME NEW p \in Proc, Release(p) PROVE TypeOK' /\ Acquiring'
  <2> USE DEF Step
  <2>1. CASE ReleaseRead(p) /\ UNCHANGED daemonVars
    BY <2>1 DEF ReleaseRead
  <2>2. CASE ReleaseRemove(p) /\ UNCHANGED daemonVars
    BY <2>2 DEF ReleaseRemove, NoFile
  <2> QED BY <1>15, <2>1, <2>2 DEF Release, ReleaseStep
<1>16. ASSUME NEW p \in Proc, MainReturns(p) PROVE TypeOK' /\ Acquiring'
  BY <1>16 DEF MainReturns, At
<1>17. ASSUME NEW p \in Proc, ProcessExits(p) PROVE TypeOK' /\ Acquiring'
  BY <1>17 DEF ProcessExits, At
<1>18. ASSUME NEW p \in Proc, Crash(p) PROVE TypeOK' /\ Acquiring'
  BY <1>18 DEF Crash
<1>19. CASE UNCHANGED vars
  BY <1>19 DEF vars
<1> QED BY <1>1, <1>2, <1>3, <1>4, <1>5, <1>6, <1>7, <1>8, <1>9, <1>10, <1>11, <1>12, <1>13, <1>14, <1>15, <1>16, <1>17, <1>18, <1>19 DEF Next, Progress

\* Type correctness of the lock and of the daemons, for any number of them, any
\* faults, signals and takeovers; no run outlives its process (TypeOK).
THEOREM DaemonTypesHold == Spec => []TypeOK
<1> QED BY TypeInit, TypeNext, PTL DEF Spec
-----------------------------------------------------------------------------
\* The initial state has the invariant.
LEMMA LockStart == Init => LockInv
BY TypeInit, LockAssumption
   DEF Init, LockInit, NoFile, LockInv, Named, Others, Together, Having, Had

\* Plain daemons are not signalled, do not stall and never find their lock lost.
LEMMA PlainSteps ==
    PlainDaemons /\ LockInv
        => ~Stalls /\ \A p \in Proc : ~Signal(p) /\ ~HeartbeatFails(p)
BY DEF PlainDaemons, Stalls, Stall, Signal, HeartbeatFails, RefreshLost, LockInv,
       Named, Together, Having

\* Every step of plain daemons keeps the invariant.
LEMMA LockNext == PlainDaemons /\ LockInv /\ [Next]_vars => LockInv'
<1> SUFFICES ASSUME PlainDaemons, LockInv, [Next]_vars PROVE Named' /\ Others' /\ Together'
  BY TypeNext DEF LockInv
<1> USE LockAssumption DEF LockInv, TypeOK, LockTypeOK, Named, Others, Together, Having, Had,
        lockVars, daemonVars
<1>1. ASSUME NEW p \in Proc, Begin(p) PROVE Named' /\ Others' /\ Together'
  <2>1. Named'
    BY <1>1 DEF Begin, Acquire
  <2>2. Others'
    BY <1>1 DEF Begin, Acquire
  <2>3. Together'
    BY <1>1 DEF Begin, Acquire
  <2> QED BY <2>1, <2>2, <2>3
<1>2. ASSUME NEW p \in Proc, TryLock(p) PROVE Named' /\ Others' /\ Together'
  <2>1. Named'
    BY <1>2 DEF TryLock, AcquireStep, CreateExists, TakeOver, RemoveLock, Refused, Step, NoFile, ActivelyHeld
  <2>2. Others'
    <3>1. CASE CreateExists(p)
      BY <1>2, <3>1 DEF CreateExists, Step, PlainDaemons
    <3>2. CASE TakeOver(p)
      BY <1>2, <3>2 DEF TakeOver, Step, ActivelyHeld, PlainDaemons
    <3>3. CASE RemoveLock(p) \/ Refused(p)
      BY <1>2, <3>3 DEF RemoveLock, Refused, Step
    <3> QED BY <1>2, <3>1, <3>2, <3>3 DEF TryLock, AcquireStep
  <2>3. Together'
    BY <1>2 DEF TryLock, AcquireStep, CreateExists, TakeOver, RemoveLock, Refused, Step, NoFile, ActivelyHeld
  <2> QED BY <2>1, <2>2, <2>3
<1>3. ASSUME NEW p \in Proc, GiveUp(p) PROVE Named' /\ Others' /\ Together'
  <2>1. Named'
    BY <1>3 DEF GiveUp, At
  <2>2. Others'
    BY <1>3 DEF GiveUp, At
  <2>3. Together'
    BY <1>3 DEF GiveUp, At
  <2> QED BY <2>1, <2>2, <2>3
<1>4. ASSUME NEW p \in Proc, Serve(p) PROVE Named' /\ Others' /\ Together'
  <2>1. Named'
    BY <1>4 DEF Serve, Create, FileOf, NoFile, Step
  <2>2. Others'
    BY <1>4 DEF Serve, Create, FileOf, NoFile, Step
  <2>3. Together'
    BY <1>4 DEF Serve, Create, FileOf, NoFile, Step
  <2> QED BY <2>1, <2>2, <2>3
<1>5. ASSUME NEW p \in Proc, Started(p) PROVE Named' /\ Others' /\ Together'
  <2>1. Named'
    BY <1>5 DEF Started, At, Finalize, CallShutdown, Stopping
  <2>2. Others'
    BY <1>5 DEF Started, At, Finalize, CallShutdown, Stopping
  <2>3. Together'
    <3>1. down[p] = "no" /\ handle[p] = "held" /\ main[p] = "startup"
      BY <1>5 DEF Started, At
    <3>2. CASE main' = [main EXCEPT ![p] = "running"]
      BY <1>5, <3>1, <3>2 DEF Started, Finalize
    <3>3. CASE Finalize(p)
      BY <1>5, <3>1, <3>3 DEF Started, Finalize, CallShutdown, Stopping
    <3> QED BY <1>5, <3>2, <3>3 DEF Started
  <2> QED BY <2>1, <2>2, <2>3
<1>6. ASSUME NEW p \in Proc, ExitTyped(p) PROVE Named' /\ Others' /\ Together'
  <2>1. Named'
    BY <1>6 DEF ExitTyped, At, Finalize, CallShutdown, Stopping
  <2>2. Others'
    BY <1>6 DEF ExitTyped, At, Finalize, CallShutdown, Stopping
  <2>3. Together'
    <3>1. down[p] = "no" /\ handle[p] = "held" /\ main[p] = "running"
      BY <1>6 DEF ExitTyped, At
    <3> QED BY <1>6, <3>1 DEF ExitTyped, Finalize, CallShutdown, Stopping
  <2> QED BY <2>1, <2>2, <2>3
<1>7. ASSUME NEW p \in Proc, Beat(p) PROVE Named' /\ Others' /\ Together'
  <2>1. Named'
    BY <1>7 DEF Beat, RefreshRead, RefreshWrite, FileOf
  <2>2. Others'
    BY <1>7 DEF Beat, RefreshRead, RefreshWrite, FileOf
  <2>3. Together'
    BY <1>7 DEF Beat, RefreshRead, RefreshWrite, FileOf
  <2> QED BY <2>1, <2>2, <2>3
<1>8. ASSUME NEW p \in Proc, GcTick(p) PROVE Named' /\ Others' /\ Together'
  <2>1. Named'
    BY <1>8 DEF GcTick
  <2>2. Others'
    BY <1>8 DEF GcTick
  <2>3. Together'
    BY <1>8 DEF GcTick
  <2> QED BY <2>1, <2>2, <2>3
<1>9. ASSUME NEW p \in Proc, GcEnds(p) PROVE Named' /\ Others' /\ Together'
  <2>1. Named'
    BY <1>9 DEF GcEnds
  <2>2. Others'
    BY <1>9 DEF GcEnds
  <2>3. Together'
    BY <1>9 DEF GcEnds
  <2> QED BY <2>1, <2>2, <2>3
<1>10. ASSUME NEW p \in Proc, ShutdownGoesOn(p) PROVE Named' /\ Others' /\ Together'
  <2>1. Named'
    BY <1>10 DEF ShutdownGoesOn
  <2>2. Others'
    BY <1>10 DEF ShutdownGoesOn
  <2>3. Together'
    BY <1>10 DEF ShutdownGoesOn
  <2> QED BY <2>1, <2>2, <2>3
<1>11. ASSUME NEW p \in Proc, ShutdownReturns(p) PROVE Named' /\ Others' /\ Together'
  <2>1. Named'
    BY <1>11 DEF ShutdownReturns, At
  <2>2. Others'
    BY <1>11 DEF ShutdownReturns, At
  <2>3. Together'
    BY <1>11 DEF ShutdownReturns, At
  <2> QED BY <2>1, <2>2, <2>3
<1>12. ASSUME NEW p \in Proc, Release(p) PROVE Named' /\ Others' /\ Together'
  <2>1. CASE ReleaseRead(p)
    <3>1. Named'
      BY <1>12, <2>1 DEF Release, ReleaseRead, Step, PlainDaemons
    <3>2. Others'
      BY <1>12, <2>1 DEF Release, ReleaseRead, Step
    <3>3. Together'
      BY <1>12, <2>1 DEF Release, ReleaseRead, Step
    <3> QED BY <3>1, <3>2, <3>3
  <2>2. CASE ReleaseRemove(p)
    <3>1. Named'
      BY <1>12, <2>2 DEF Release, ReleaseRemove, Step, NoFile
    <3>2. Others'
      BY <1>12, <2>2 DEF Release, ReleaseRemove, Step
    <3>3. Together'
      BY <1>12, <2>2 DEF Release, ReleaseRemove, Step
    <3> QED BY <3>1, <3>2, <3>3
  <2> QED BY <1>12, <2>1, <2>2 DEF Release, ReleaseStep
<1>13. ASSUME NEW p \in Proc, MainReturns(p) PROVE Named' /\ Others' /\ Together'
  <2>1. Named'
    BY <1>13 DEF MainReturns, At
  <2>2. Others'
    BY <1>13 DEF MainReturns, At
  <2>3. Together'
    BY <1>13 DEF MainReturns, At
  <2> QED BY <2>1, <2>2, <2>3
<1>14. ASSUME NEW p \in Proc, ProcessExits(p) PROVE Named' /\ Others' /\ Together'
  <2>1. Named'
    BY <1>14 DEF ProcessExits, At
  <2>2. Others'
    BY <1>14 DEF ProcessExits, At
  <2>3. Together'
    BY <1>14 DEF ProcessExits, At
  <2> QED BY <2>1, <2>2, <2>3
<1>15. ASSUME NEW p \in Proc, Crash(p) PROVE Named' /\ Others' /\ Together'
  <2>1. Named'
    BY <1>15 DEF Crash
  <2>2. Others'
    BY <1>15 DEF Crash
  <2>3. Together'
    BY <1>15 DEF Crash
  <2> QED BY <2>1, <2>2, <2>3
<1>16. CASE UNCHANGED vars
  BY <1>16 DEF vars
<1> HIDE DEF LockInv, TypeOK, LockTypeOK, Named, Others, Together
<1> QED BY PlainSteps, <1>1, <1>2, <1>3, <1>4, <1>5, <1>6, <1>7, <1>8, <1>9, <1>10, <1>11, <1>12, <1>13, <1>14, <1>15, <1>16 DEF Next, Progress
\* Two daemons never collect the results at the same time, whatever they do up to a
\* crash at any point: each waits for its run before it releases the lock, and takes
\* over only what nobody refreshes any more (OneCollector).
THEOREM OneDaemonCollects == PlainDaemons => (Spec => []OneCollector)
<1> SUFFICES ASSUME PlainDaemons PROVE Spec => []OneCollector
  OBVIOUS
<1>1. LockInv => OneCollector
  BY DEF LockInv, TypeOK, Named, Together, Having, OneCollector
<1>2. LockInv /\ [Next]_vars => LockInv'
  BY LockNext
<1> QED BY LockStart, <1>1, <1>2, PTL DEF Spec

\* Daemons that have ended leave no lock file behind: no refresh that was under way
\* writes it again after the release (LockGoneAtEnd).
THEOREM NoLockIsLeft == PlainDaemons => (Spec => []LockGoneAtEnd)
<1> SUFFICES ASSUME PlainDaemons PROVE Spec => []LockGoneAtEnd
  OBVIOUS
<1>1. LockInv => LockGoneAtEnd
  BY DEF LockInv, TypeOK, LockTypeOK, Named, Together, Having, LockGoneAtEnd
<1>2. LockInv /\ [Next]_vars => LockInv'
  BY LockNext
<1> QED BY LockStart, <1>1, <1>2, PTL DEF Spec
-----------------------------------------------------------------------------
\* Only the session of the command line runs turns.
OneWriter == Writers \subseteq {Default}

Dirs == ToSet(dirs)

\* The variables have the types that the listings and plans need.
StoreTyped ==
    /\ dirs \in Seq(Session) /\ Distinct(dirs)
    /\ aged \subseteq Dirs
    /\ stored \in [Session -> Nat] /\ \A s \in Session : stored[s] > 0 => s \in Dirs
    /\ promised \in [Session -> 0..MaxResults]
    /\ job \in [Collector -> {"idle", "writing", "reporting", "planning", "removing"}]
    /\ left \in [Collector -> Seq(Session)]

\* How far a collector is fits what it has left, and what daemons and turns do.
JobsFit ==
    /\ \A x \in Collector : left[x] # <<>> => job[x] = "removing"
    /\ \A p \in Proc : gc[p] <=> job[p] # "idle"
    /\ \A s \in Writers : job[s] # "idle" => promised[s] < MaxResults

\* No plan names the protected session.
Protected == \A x \in Collector : Default \notin ToSet(left[x])

\* Nor does a result that is stored go before its pointer is returned.
PointerFirst ==
    \A s \in Writers :
        /\ promised[s] <= stored[s]
        /\ job[s] \in {"planning", "removing"} => promised[s] < stored[s]

\* A directory that is older than one that has aged has aged too.
AgedLast == \A d, e \in Dirs : d \in aged /\ Before(dirs, d, e) => e \in aged \cup {Default}

\* What is left of a plan is sorted, the oldest first.
Sorted ==
    \A x \in Collector :
        /\ Distinct(left[x])
        /\ \A d, e \in Dirs : Before(left[x], d, e) => Before(dirs, e, d)

\* With a directory, all older ones are left.
Closed ==
    \A x \in Collector : \A d \in ToSet(left[x]) \cap Dirs : \A e \in Dirs \ {Default} :
        Before(dirs, d, e) => e \in ToSet(left[x])

\* What is there when the older ones than h are gone, but for the protected one.
Keep(h) == {e \in Dirs : e \in {h, Default} \/ Before(dirs, e, h)}

Over(ss) == Cardinality(ss) > MaxSessionDirs \/ Bytes(ss) > MaxTotalBytes

\* A directory that has not aged is removed for a quota...
Excess ==
    \A x \in Collector : \A h \in (ToSet(left[x]) \cap Dirs) \ aged : Over(Keep(h))

\* ...and is none of the latest.
Old ==
    \A x \in Collector : \A h \in (ToSet(left[x]) \cap Dirs) \ aged :
        Cardinality(Keep(h) \ {h, Default}) >= PreserveRecent

PlanInv == Protected /\ PointerFirst /\ AgedLast /\ Sorted /\ Closed /\ Excess /\ Old
StoreInv == StoreTyped /\ JobsFit /\ PlanInv
-----------------------------------------------------------------------------
(* Lists of sessions. *)

\* What is selected is what is in both the list and the set.
LEMMA SelectedSet ==
    ASSUME NEW s \in Seq(Session), NEW S
    PROVE  ToSet(Only(s, S)) = ToSet(s) \cap S
<1> DEFINE t == Only(s, S)
<1>1. \A x : (\E k \in DOMAIN t : t[k] = x) <=> x \in S /\ \E i \in DOMAIN s : s[i] = x
  BY OnlyElements
<1> HIDE DEF t
<1>2. ToSet(t) = ToSet(s) \cap S
  BY <1>1 DEF ToSet
<1> QED BY <1>2 DEF t

\* In a list without repetitions, of two elements one stands before the other.
LEMMA OrderTotal ==
    ASSUME NEW s \in Seq(Session), Distinct(s), NEW a \in ToSet(s), NEW b \in ToSet(s)
    PROVE  /\ a = b \/ Before(s, a, b) \/ Before(s, b, a)
           /\ ~Before(s, a, a) /\ ~(Before(s, a, b) /\ Before(s, b, a))
<1>1. PICK i \in DOMAIN s : s[i] = a
  BY DEF ToSet
<1>2. PICK j \in DOMAIN s : s[j] = b
  BY DEF ToSet
<1>3. DOMAIN s = 1..Len(s) /\ Len(s) \in Nat
  OBVIOUS
<1>4. a = b \/ Before(s, a, b) \/ Before(s, b, a)
  BY <1>1, <1>2, <1>3 DEF Before
<1>5. ~Before(s, a, a)
  BY <1>3 DEF Before, Distinct
<1>6. ~(Before(s, a, b) /\ Before(s, b, a))
  BY <1>3 DEF Before, Distinct
<1> QED BY <1>4, <1>5, <1>6

\* The session that is put first of a list without it stands before the others.
LEMMA OrderFirst ==
    ASSUME NEW t \in Seq(Session), NEW x \in Session, x \notin ToSet(t), Distinct(t)
    PROVE  /\ <<x>> \o t \in Seq(Session) /\ Distinct(<<x>> \o t)
           /\ ToSet(<<x>> \o t) = {x} \cup ToSet(t)
           /\ \A a, b : Before(<<x>> \o t, a, b)
                        <=> Before(t, a, b) \/ (a = x /\ b \in ToSet(t))
<1> DEFINE s == <<x>> \o t
<1>1. s \in Seq(Session) /\ Len(s) = Len(t) + 1 /\ s[1] = x
  OBVIOUS
<1>2. \A i \in 1..Len(t) : s[i + 1] = t[i]
  OBVIOUS
<1>3. DOMAIN t = 1..Len(t) /\ Len(t) \in Nat
  OBVIOUS
<1> HIDE DEF s
<1>4. DOMAIN s = 1..(Len(t) + 1)
  BY <1>1
<1>5. \A i \in DOMAIN s : i = 1 \/ (i - 1 \in DOMAIN t /\ s[i] = t[i - 1])
  BY <1>2, <1>3, <1>4
<1>6. \A i \in DOMAIN t : t[i] # x /\ i + 1 \in DOMAIN s /\ s[i + 1] = t[i]
  BY <1>2, <1>3, <1>4 DEF ToSet
<1>7. Distinct(s)
  BY <1>1, <1>3, <1>4, <1>5, <1>6 DEF Distinct
<1>8. ToSet(s) = {x} \cup ToSet(t)
  <2>1. \A y \in ToSet(s) : y \in {x} \cup ToSet(t)
    BY <1>1, <1>5 DEF ToSet
  <2>2. x \in ToSet(s)
    BY <1>1, <1>3, <1>4 DEF ToSet
  <2>3. \A y \in ToSet(t) : y \in ToSet(s)
    BY <1>6 DEF ToSet
  <2> QED BY <2>1, <2>2, <2>3
<1>9. ASSUME NEW a, NEW b
      PROVE  Before(s, a, b) <=> Before(t, a, b) \/ (a = x /\ b \in ToSet(t))
  <2>1. ASSUME NEW i \in DOMAIN s, NEW j \in DOMAIN s, i < j, s[i] = a, s[j] = b
        PROVE  Before(t, a, b) \/ (a = x /\ b \in ToSet(t))
    <3>1. j - 1 \in DOMAIN t /\ t[j - 1] = b
      BY <1>3, <1>4, <1>5, <2>1
    <3>2. CASE i = 1
      BY <1>1, <2>1, <3>1, <3>2 DEF ToSet
    <3>3. CASE i # 1
      <4>1. i - 1 \in DOMAIN t /\ t[i - 1] = a /\ i - 1 < j - 1
        BY <1>3, <1>4, <1>5, <2>1, <3>3
      <4> QED BY <3>1, <4>1 DEF Before
    <3> QED BY <3>2, <3>3
  <2>2. ASSUME NEW i \in DOMAIN t, NEW j \in DOMAIN t, i < j, t[i] = a, t[j] = b
        PROVE  Before(s, a, b)
    <3>1. i + 1 < j + 1
      BY <1>3, <2>2
    <3> QED BY <1>6, <2>2, <3>1 DEF Before
  <2>3. ASSUME NEW j \in DOMAIN t, a = x, t[j] = b PROVE Before(s, a, b)
    <3>1. 1 < j + 1 /\ 1 \in DOMAIN s
      BY <1>3, <1>4
    <3> QED BY <1>1, <1>6, <2>3, <3>1 DEF Before
  <2> QED BY <2>1, <2>2, <2>3 DEF Before, ToSet
<1> QED BY <1>1, <1>7, <1>8, <1>9 DEF s

\* Of a list without repetitions the tail has all but the head, which was before them.
LEMMA OrderTail ==
    ASSUME NEW s \in Seq(Session), s # <<>>, Distinct(s)
    PROVE  /\ Head(s) \in Session /\ Tail(s) \in Seq(Session) /\ Distinct(Tail(s))
           /\ Head(s) \in ToSet(s) /\ ToSet(Tail(s)) = ToSet(s) \ {Head(s)}
           /\ \A a, b : Before(Tail(s), a, b) => Before(s, a, b)
           /\ \A a \in ToSet(Tail(s)) : Before(s, Head(s), a)
<1> DEFINE t == Tail(s)
           h == Head(s)
<1>1. t \in Seq(Session) /\ h \in Session /\ Len(t) = Len(s) - 1 /\ s[1] = h
  OBVIOUS
<1>2. \A i \in 1..Len(t) : t[i] = s[i + 1]
  OBVIOUS
<1>3. DOMAIN s = 1..Len(s) /\ Len(s) \in Nat \ {0}
  OBVIOUS
<1> HIDE DEF t, h
<1>4. DOMAIN t = 1..(Len(s) - 1) /\ 1 \in DOMAIN s
  BY <1>1, <1>3
<1>5. \A i \in DOMAIN t : i + 1 \in DOMAIN s /\ t[i] = s[i + 1]
  BY <1>1, <1>2, <1>3, <1>4
<1>6. \A i \in DOMAIN s : i = 1 \/ (i - 1 \in DOMAIN t /\ s[i] = t[i - 1])
  <2> SUFFICES ASSUME NEW i \in DOMAIN s, i # 1
               PROVE  i - 1 \in DOMAIN t /\ s[i] = t[i - 1]
    OBVIOUS
  <2>1. i - 1 \in DOMAIN t
    BY <1>3, <1>4
  <2> QED BY <1>3, <1>5, <2>1
<1>7. Distinct(t)
  BY <1>3, <1>4, <1>5 DEF Distinct
<1>8. \A i \in DOMAIN t : t[i] # h
  <2> SUFFICES ASSUME NEW i \in DOMAIN t, t[i] = h PROVE FALSE
    OBVIOUS
  <2>1. i + 1 = 1
    BY <1>1, <1>4, <1>5 DEF Distinct
  <2> QED BY <1>3, <1>4, <2>1
<1>9. ToSet(t) = ToSet(s) \ {h}
  <2>1. \A y \in ToSet(s) : y # h => y \in ToSet(t)
    BY <1>1, <1>6 DEF ToSet
  <2>2. \A y \in ToSet(t) : y \in ToSet(s) /\ y # h
    BY <1>5, <1>8 DEF ToSet
  <2> QED BY <2>1, <2>2
<1>10. h \in ToSet(s)
  BY <1>1, <1>4 DEF ToSet
<1>11. \A a, b : Before(t, a, b) => Before(s, a, b)
  <2> SUFFICES ASSUME NEW i \in DOMAIN t, NEW j \in DOMAIN t, i < j PROVE Before(s, t[i], t[j])
    BY DEF Before
  <2>1. i + 1 < j + 1
    BY <1>3, <1>4
  <2> QED BY <1>5, <2>1 DEF Before
<1>12. \A a \in ToSet(t) : Before(s, h, a)
  <2> SUFFICES ASSUME NEW i \in DOMAIN t PROVE Before(s, h, t[i])
    BY DEF ToSet
  <2>1. 1 < i + 1
    BY <1>3, <1>4
  <2> QED BY <1>1, <1>4, <1>5, <2>1 DEF Before
<1> QED BY <1>1, <1>7, <1>9, <1>10, <1>11, <1>12 DEF t, h

\* Reversing a list turns its order round.
LEMMA OrderReversed ==
    ASSUME NEW s \in Seq(Session)
    PROVE  /\ Reverse(s) \in Seq(Session) /\ Len(Reverse(s)) = Len(s)
           /\ ToSet(Reverse(s)) = ToSet(s)
           /\ Distinct(s) => Distinct(Reverse(s))
           /\ \A a, b : Before(Reverse(s), a, b) => Before(s, b, a)
<1> DEFINE t == Reverse(s)
           n == Len(s)
<1>1. n \in Nat /\ DOMAIN s = 1..n
  OBVIOUS
<1>2. \A i \in 1..n : n - i + 1 \in 1..n /\ t[i] = s[n - i + 1]
  BY <1>1 DEF Reverse
<1>3. t \in Seq(Session) /\ Len(t) = n /\ DOMAIN t = 1..n
  <2>1. t = [i \in 1..n |-> s[n - i + 1]]
    BY DEF Reverse
  <2>2. \A i \in 1..n : s[n - i + 1] \in Session
    BY <1>2
  <2> HIDE DEF t
  <2> QED BY <1>1, <2>1, <2>2
<1> HIDE DEF t, n
<1>4. ToSet(t) = ToSet(s)
  <2>1. \A y \in ToSet(t) : y \in ToSet(s)
    BY <1>1, <1>2, <1>3 DEF ToSet
  <2>2. \A i \in 1..n : n - i + 1 \in 1..n /\ t[n - i + 1] = s[i]
    <3> SUFFICES ASSUME NEW i \in 1..n PROVE n - i + 1 \in 1..n /\ t[n - i + 1] = s[i]
      OBVIOUS
    <3>1. n - i + 1 \in 1..n /\ n - (n - i + 1) + 1 = i
      BY <1>1
    <3> QED BY <1>2, <3>1
  <2>3. \A y \in ToSet(s) : y \in ToSet(t)
    BY <1>1, <1>3, <2>2 DEF ToSet
  <2> QED BY <2>1, <2>3
<1>5. Distinct(s) => Distinct(t)
  BY <1>1, <1>2, <1>3 DEF Distinct
<1>6. \A a, b : Before(t, a, b) => Before(s, b, a)
  <2> SUFFICES ASSUME NEW i \in 1..n, NEW j \in 1..n, i < j PROVE Before(s, t[j], t[i])
    BY <1>3 DEF Before
  <2>1. n - j + 1 < n - i + 1
    BY <1>1
  <2> QED BY <1>1, <1>2, <2>1 DEF Before
<1> QED BY <1>3, <1>4, <1>5, <1>6 DEF t, n
-----------------------------------------------------------------------------
(* The daemons. *)

\* With a store to collect a daemon takes no step that ResultGcDaemon does not have.
LEMMA StepOfDaemons == [CollectionNext]_allVars => [Next]_vars
<1>1. CASE Age \/ UNCHANGED allVars
  BY <1>1 DEF Age, allVars
<1>2. ASSUME NEW x \in Collector, RemoveNext(x) PROVE UNCHANGED vars
  BY <1>2 DEF RemoveNext
<1>3. ASSUME NEW s \in Writers,
             MakeDirectory(s) \/ WriteResult(s) \/ PlanCleanup(s) \/ ReturnPointer(s)
                \/ CleanupFails(s)
      PROVE  UNCHANGED vars
  BY <1>3 DEF MakeDirectory, WriteResult, PlanCleanup, ReturnPointer, CleanupFails
<1>4. ASSUME NEW p \in Proc, DaemonStep(p) PROVE Next
  BY <1>4 DEF DaemonStep, Next, Progress
<1>5. ASSUME NEW p \in Proc, DaemonRun(p) \/ EndRun(p) PROVE Next
  BY <1>5 DEF DaemonRun, EndRun, Next, Progress
<1>6. ASSUME NEW p \in Proc, PlanRun(p) PROVE UNCHANGED vars
  BY <1>6 DEF PlanRun
<1> QED BY <1>1, <1>2, <1>3, <1>4, <1>5, <1>6 DEF CollectionNext

\* Daemons that collect behave towards their lock as daemons do: what is proved of
\* ResultGcDaemon holds of them.
THEOREM CollectionUsesDaemons == CollectionSpec => Spec
<1>1. CollectionInit => Init
  BY DEF CollectionInit
<1> QED BY <1>1, StepOfDaemons, PTL DEF CollectionSpec, Spec

\* Two daemons never collect at the same time, in the composition (OneCollector).
THEOREM OneDaemonCollectsResults == PlainDaemons => (CollectionSpec => []OneCollector)
<1> QED BY CollectionUsesDaemons, OneDaemonCollects, PTL

\* Daemons that have ended leave no lock file, in the composition (LockGoneAtEnd).
THEOREM NoLockIsLeftByCollectors == PlainDaemons => (CollectionSpec => []LockGoneAtEnd)
<1> QED BY CollectionUsesDaemons, NoLockIsLeft, PTL
-----------------------------------------------------------------------------
(* Types. *)

\* SetToSeq lists a finite set without repetitions.
LEMMA SetToSeqLists ==
    ASSUME NEW S \in SUBSET Session
    PROVE  LET s == SetToSeq(S) IN s \in Seq(Session) /\ Distinct(s) /\ ToSet(s) = S
<1> DEFINE n == Cardinality(S)
           s == SetToSeq(S)
<1>1. IsFiniteSet(S)
  BY CollectionAssumption, FS_Subset
<1>2. n \in Nat /\ \E f \in [1..n -> S] : IsInjective(f)
  <2>1. n \in Nat /\ ExistsBijection(1..n, S)
    BY <1>1, FS_CardinalityType
  <2> HIDE DEF n
  <2> QED BY <2>1 DEF ExistsBijection, Bijection, Injection, IsInjective
<1>3. s \in [1..n -> S] /\ IsInjective(s)
  BY <1>2 DEF SetToSeq
<1>4. IsFiniteSet(1..n) /\ Cardinality(1..n) = n
  <2>1. 1 \in Int /\ n \in Int
    BY <1>2
  <2> HIDE DEF n
  <2> QED BY <1>2, <2>1, FS_Interval
<1> HIDE DEF s
<1>5. s \in Surjection(1..n, S)
  <2>1. s \in Injection(1..n, S)
    BY <1>3 DEF Injection, IsInjective
  <2> QED BY <1>1, <1>4, <2>1, FS_Injection
<1> HIDE DEF n
<1>6. s \in Seq(Session)
  BY <1>2, <1>3
<1>7. Distinct(s)
  BY <1>3 DEF IsInjective, Distinct
<1>8. ToSet(s) = S
  BY <1>3, <1>5 DEF Surjection, ToSet
<1> QED BY <1>6, <1>7, <1>8 DEF s
\* Removing a directory takes it out of the list.
LEMMA RemoveOne ==
    ASSUME StoreTyped, NEW h
    PROVE  LET t == Only(dirs, Session \ {h})
           IN  /\ t \in Seq(Session) /\ Distinct(t) /\ ToSet(t) = Dirs \ {h}
               /\ \A a, b : Before(t, a, b) <=> a # h /\ b # h /\ Before(dirs, a, b)
<1> DEFINE t == Only(dirs, Session \ {h})
<1>1. dirs \in Seq(Session) /\ Distinct(dirs)
  BY DEF StoreTyped
<1>2. t \in Seq(Session) /\ Distinct(t)
  BY <1>1, OnlySelects, OnlyDistinct
<1>3. ToSet(t) = Dirs \cap (Session \ {h})
  BY <1>1, SelectedSet DEF Dirs
<1>4. Dirs \subseteq Session
  BY <1>1 DEF Dirs, ToSet
<1>5. \A a, b : Before(t, a, b) <=> a \in Session \ {h} /\ b \in Session \ {h} /\ Before(dirs, a, b)
  BY <1>1, OnlyBefore
<1>6. \A a, b : Before(dirs, a, b) => a \in Session /\ b \in Session
  BY <1>1 DEF Before
<1> HIDE DEF t
<1>7. \A a, b : Before(t, a, b) <=> a # h /\ b # h /\ Before(dirs, a, b)
  BY <1>5, <1>6
<1>8. ToSet(t) = Dirs \ {h}
  BY <1>3, <1>4
<1> QED BY <1>2, <1>7, <1>8 DEF t

\* Changing a directory puts it first.
LEMMA TouchOne ==
    ASSUME StoreTyped, NEW h \in Session
    PROVE  LET t == <<h>> \o Only(dirs, Session \ {h})
           IN  /\ t \in Seq(Session) /\ Distinct(t) /\ ToSet(t) = Dirs \cup {h}
               /\ \A a, b : a # h => (Before(t, a, b) <=> b # h /\ Before(dirs, a, b))
<1> DEFINE u == Only(dirs, Session \ {h})
           t == <<h>> \o u
<1>1. /\ u \in Seq(Session) /\ Distinct(u) /\ ToSet(u) = Dirs \ {h}
      /\ \A a, b : Before(u, a, b) <=> a # h /\ b # h /\ Before(dirs, a, b)
  BY RemoveOne
<1> HIDE DEF u
<1>2. /\ t \in Seq(Session) /\ Distinct(t) /\ ToSet(t) = {h} \cup ToSet(u)
      /\ \A a, b : Before(t, a, b) <=> Before(u, a, b) \/ (a = h /\ b \in ToSet(u))
  BY <1>1, OrderFirst
<1> HIDE DEF t
<1>3. \A a, b : a # h => (Before(t, a, b) <=> b # h /\ Before(dirs, a, b))
  BY <1>1, <1>2
<1> QED BY <1>1, <1>2, <1>3 DEF t, u

\* A plan is a list of sessions.
LEMMA PlanTyped ==
    ASSUME StoreTyped, NEW x, NEW s, NEW plan \in Plans(x, s)
    PROVE  plan \in Seq(Session)
<1>1. \A S : Reverse(Only(dirs, S)) \in Seq(Session)
  BY OnlySelects, OrderReversed DEF StoreTyped
<1>2. Candidates(dirs, s) \in Seq(Session)
  BY <1>1 DEF Candidates
<1>3. plan = Candidates(dirs, s) \/ plan = <<>>
  BY DEF Plans
<1>4. <<>> \in Seq(Session)
  OBVIOUS
<1> QED BY <1>2, <1>3, <1>4

LEMMA StoreInit == CollectionInit => StoreTyped /\ JobsFit
<1> SUFFICES ASSUME CollectionInit PROVE StoreTyped /\ JobsFit
  OBVIOUS
<1>1. dirs \in Seq(Session) /\ Distinct(dirs) /\ Dirs = Session \ {Default}
  BY SetToSeqLists DEF CollectionInit, Dirs
<1>2. \A x \in Collector : left[x] = <<>> /\ job[x] = "idle"
  BY DEF CollectionInit
<1>3. \A s \in Session : stored[s] > 0 => s # Default
  BY DEF CollectionInit
<1>4. StoreTyped
  BY <1>1, <1>3, CollectionAssumption DEF CollectionInit, StoreTyped
<1>5. JobsFit
  BY <1>2 DEF CollectionInit, Init, JobsFit, Collector
<1> QED BY <1>4, <1>5
\* What turns and collectors do to the store keeps the types.
LEMMA StoreNext ==
    TypeOK /\ Acquiring /\ StoreTyped /\ JobsFit /\ [CollectionNext]_allVars
        => StoreTyped' /\ JobsFit'
<1> SUFFICES ASSUME TypeOK, Acquiring, StoreTyped, JobsFit, [CollectionNext]_allVars
             PROVE  StoreTyped' /\ JobsFit'
  OBVIOUS
<1>0. /\ Writers \subseteq Session /\ Session \cap Proc = {} /\ MaxResults \in Nat
      /\ Default \in Session
  BY CollectionAssumption
<1> USE DEF Collector
<1>1. CASE Age
  <2>1. StoreTyped'
    BY <1>1 DEF Age, StoreTyped, Dirs, ToSet
  <2>2. JobsFit'
    BY <1>1 DEF Age, JobsFit, vars, daemonVars
  <2> QED BY <2>1, <2>2
<1>2. ASSUME NEW x \in Collector, RemoveNext(x) PROVE StoreTyped' /\ JobsFit'
  <2> DEFINE h == Head(left[x])
  <2>1. h \in Session /\ Tail(left[x]) \in Seq(Session)
    BY <1>2 DEF RemoveNext, StoreTyped
  <2>2. dirs' \in Seq(Session) /\ Distinct(dirs') /\ ToSet(dirs') = Dirs \ {h}
    BY <1>2, RemoveOne DEF RemoveNext
  <2>3. stored' = [stored EXCEPT ![h] = 0] /\ aged' = aged \ {h}
    BY <1>2 DEF RemoveNext
  <2>4. left' = [left EXCEPT ![x] = Tail(@)] /\ UNCHANGED <<promised, job, gc>>
        /\ job[x] = "removing"
    BY <1>2 DEF RemoveNext, vars, daemonVars
  <2> HIDE DEF h
  <2>5. StoreTyped'
    BY <2>1, <2>2, <2>3, <2>4 DEF StoreTyped, Dirs
  <2>6. JobsFit'
    BY <2>4 DEF JobsFit, StoreTyped
  <2> QED BY <2>5, <2>6
<1>3. ASSUME NEW s \in Writers, MakeDirectory(s) PROVE StoreTyped' /\ JobsFit'
  <2>1. UNCHANGED <<stored, promised, left, gc>> /\ job' = [job EXCEPT ![s] = "writing"]
        /\ job[s] = "idle" /\ promised[s] < MaxResults
    BY <1>3 DEF MakeDirectory, vars, daemonVars
  <2>2. s \in Session /\ s \notin Proc
    BY <1>0
  <2>3. \/ /\ dirs' = <<s>> \o Only(dirs, Session \ {s})
           /\ aged' = aged \ {s}
        \/ UNCHANGED <<dirs, aged>>
    BY <1>3 DEF MakeDirectory
  <2>4. /\ dirs' \in Seq(Session) /\ Distinct(dirs') /\ Dirs \subseteq ToSet(dirs')
        /\ aged' \subseteq aged
    BY <2>2, <2>3, TouchOne DEF StoreTyped, Dirs
  <2>5. StoreTyped'
    BY <2>1, <2>4 DEF StoreTyped, Dirs
  <2>6. JobsFit'
    BY <2>1, <2>2 DEF JobsFit, StoreTyped
  <2> QED BY <2>5, <2>6
<1>4. ASSUME NEW s \in Writers, WriteResult(s) PROVE StoreTyped' /\ JobsFit'
  <2>1. s \in Session /\ s \notin Proc /\ job[s] = "writing"
        /\ UNCHANGED <<dirs, aged, promised, left, gc>>
    BY <1>0, <1>4 DEF WriteResult, vars, daemonVars
  <2>2. CASE s \in ToSet(dirs)
    <3>1. stored' = [stored EXCEPT ![s] = @ + 1] /\ job' = [job EXCEPT ![s] = "planning"]
      BY <1>4, <2>2 DEF WriteResult
    <3>2. StoreTyped'
      BY <2>1, <2>2, <3>1 DEF StoreTyped, Dirs
    <3>3. JobsFit'
      BY <2>1, <3>1 DEF StoreTyped, JobsFit
    <3> QED BY <3>2, <3>3
  <2>3. CASE s \notin ToSet(dirs)
    BY <1>4, <2>1, <2>3 DEF WriteResult, StoreTyped, JobsFit, Dirs
  <2> QED BY <2>2, <2>3
<1>5. ASSUME NEW s \in Writers, PlanCleanup(s) PROVE StoreTyped' /\ JobsFit'
  <2>1. s \in Session /\ s \notin Proc /\ job[s] = "planning"
        /\ job' = [job EXCEPT ![s] = "removing"]
        /\ UNCHANGED <<dirs, stored, aged, promised, gc>>
    BY <1>0, <1>5 DEF PlanCleanup, vars, daemonVars
  <2>2. PICK plan \in Plans(s, s) : left' = [left EXCEPT ![s] = plan]
    BY <1>5 DEF PlanCleanup
  <2>3. plan \in Seq(Session)
    BY PlanTyped
  <2> QED BY <2>1, <2>2, <2>3 DEF StoreTyped, JobsFit, Dirs
<1>6. ASSUME NEW s \in Writers, ReturnPointer(s) \/ CleanupFails(s)
      PROVE  StoreTyped' /\ JobsFit'
  <2>1. s \in Session /\ s \notin Proc /\ job[s] \in {"planning", "removing"}
        /\ job' = [job EXCEPT ![s] = "idle"]
        /\ UNCHANGED <<dirs, stored, aged, gc>>
    BY <1>0, <1>6 DEF ReturnPointer, CleanupFails, vars, daemonVars
  <2>2. CASE ReturnPointer(s)
    <3>1. promised' = [promised EXCEPT ![s] = @ + 1] /\ UNCHANGED left /\ left[s] = <<>>
      BY <2>2 DEF ReturnPointer
    <3>2. promised[s] < MaxResults
      BY <2>1 DEF JobsFit
    <3>3. promised' \in [Session -> 0..MaxResults]
      BY <1>0, <2>1, <3>1, <3>2 DEF StoreTyped
    <3> QED BY <2>1, <3>1, <3>3 DEF StoreTyped, JobsFit, Dirs
  <2>3. CASE CleanupFails(s)
    <3>1. left' = [left EXCEPT ![s] = <<>>] /\ UNCHANGED promised
      BY <2>3 DEF CleanupFails
    <3>2. <<>> \in Seq(Session)
      OBVIOUS
    <3> QED BY <2>1, <3>1, <3>2 DEF StoreTyped, JobsFit, Dirs
  <2> QED BY <1>6, <2>2, <2>3
<1>7. ASSUME NEW p \in Proc, DaemonStep(p) PROVE StoreTyped' /\ JobsFit'
  <2>1. UNCHANGED gc
    BY <1>7 DEF DaemonStep, Begin, ExitTyped, Signal, TryLock, GiveUp, Started, ShutdownGoesOn,
                ShutdownReturns, Release, MainReturns, ProcessExits, Beat, HeartbeatFails,
                Stalls, daemonVars, lockVars
  <2>2. UNCHANGED storeVars
    BY <1>7 DEF DaemonStep
  <2> QED BY <2>1, <2>2 DEF storeVars, StoreTyped, JobsFit, Dirs
<1>8. ASSUME NEW p \in Proc, DaemonRun(p) PROVE StoreTyped' /\ JobsFit'
  <2>1. ~gc[p] /\ \E b \in BOOLEAN : gc' = [gc EXCEPT ![p] = b]
    <3>1. CASE Serve(p)
      <4>1. handle[p] = "creating"
        BY <3>1 DEF Serve, Create, Step
      <4>2. ~gc[p]
        BY <4>1 DEF Acquiring
      <4> QED BY <3>1, <4>2 DEF Serve
    <3>2. CASE GcTick(p)
      BY <3>2 DEF GcTick
    <3> QED BY <1>8, <3>1, <3>2 DEF DaemonRun
  <2>2. UNCHANGED <<dirs, stored, aged, promised, left>>
        /\ job' = [job EXCEPT ![p] = IF gc'[p] /\ ~gc[p] THEN "reporting" ELSE @]
    BY <1>8 DEF DaemonRun, StartRun
  <2>3. p \notin Session
    BY <1>0
  <2> QED BY <1>0, <2>1, <2>2, <2>3 DEF StoreTyped, JobsFit, Dirs, TypeOK
<1>9. ASSUME NEW p \in Proc, PlanRun(p) PROVE StoreTyped' /\ JobsFit'
  <2>1. p \notin Session /\ gc[p] /\ UNCHANGED <<dirs, stored, aged, promised, gc>>
        /\ job[p] \in {"reporting", "planning"}
    BY <1>0, <1>9 DEF PlanRun, vars, daemonVars
  <2>2. PICK plan \in Plans(p, Default) :
            \/ /\ job' = [job EXCEPT ![p] = IF plan = <<>> THEN "removing" ELSE "planning"]
               /\ UNCHANGED left
            \/ /\ job' = [job EXCEPT ![p] = "removing"]
               /\ left' = [left EXCEPT ![p] = plan]
    BY <1>9 DEF PlanRun
  <2>3. plan \in Seq(Session)
    BY PlanTyped
  <2> QED BY <1>0, <2>1, <2>2, <2>3 DEF StoreTyped, JobsFit, Dirs
<1>10. ASSUME NEW p \in Proc, EndRun(p) PROVE StoreTyped' /\ JobsFit'
  <2>1. gc' = [gc EXCEPT ![p] = FALSE]
    BY <1>10 DEF EndRun, GcEnds, Crash
  <2>2. UNCHANGED <<dirs, stored, aged, promised>>
        /\ job' = [job EXCEPT ![p] = "idle"] /\ left' = [left EXCEPT ![p] = <<>>]
    BY <1>10 DEF EndRun
  <2>3. p \notin Session /\ <<>> \in Seq(Session)
    BY <1>0
  <2> QED BY <1>0, <2>1, <2>2, <2>3 DEF StoreTyped, JobsFit, Dirs, TypeOK
<1>11. CASE UNCHANGED allVars
  BY <1>11 DEF allVars, storeVars, vars, daemonVars, StoreTyped, JobsFit, Dirs
<1> QED BY <1>1, <1>2, <1>3, <1>4, <1>5, <1>6, <1>7, <1>8, <1>9, <1>10, <1>11
        DEF CollectionNext

\* Types of the store and the daemons, for any daemons, faults, sessions and quotas: a
\* collector has candidates only while it removes them (CollectionTypeOK).
THEOREM CollectionTypesHold == CollectionSpec => []CollectionTypeOK
<1> DEFINE Inv == TypeOK /\ Acquiring /\ StoreTyped /\ JobsFit
<1>1. CollectionInit => Inv
  BY StoreInit, TypeInit DEF CollectionInit
<1>2. Inv /\ [CollectionNext]_allVars => Inv'
  BY StoreNext, StepOfDaemons, TypeNext
<1>3. Inv => CollectionTypeOK
  BY DEF StoreTyped, JobsFit, Dirs, CollectionTypeOK, Distinct
<1> QED BY <1>1, <1>2, <1>3, PTL DEF CollectionSpec
-----------------------------------------------------------------------------
(* Sizes. *)

\* The sum that MapThenSumSet takes, and its recursion.
SumOf(f, S) == MapThenSumSet(LAMBDA s : f[s], S)
Pick(s) == CHOOSE x \in s : TRUE
SumStep(f, it, s) == IF s = {} THEN 0 ELSE f[Pick(s)] + it[s \ {Pick(s)}]
Sums(f, it, S) == it = [s \in SUBSET S |-> SumStep(f, it, s)]
Iter(f, S) == CHOOSE it : Sums(f, it, S)

LEMMA SumIsIter == \A f, S : SumOf(f, S) = Iter(f, S)[S]
BY Zenon DEF SumOf, MapThenSumSet, MapThenFoldSet, Sums, Iter, SumStep, Pick

\* The number of elements goes down by one when one is taken out.
LEMMA FewerLeft ==
    ASSUME NEW S \in SUBSET Session
    PROVE  /\ Cardinality(S) \in Nat
           /\ Cardinality(S) = 0 <=> S = {}
           /\ \A x \in S : Cardinality(S \ {x}) = Cardinality(S) - 1
           /\ S # {} => Pick(S) \in S
<1>1. IsFiniteSet(S)
  BY CollectionAssumption, FS_Subset
<1>2. Cardinality(S) \in Nat /\ (Cardinality(S) = 0 <=> S = {})
  BY <1>1, FS_CardinalityType, FS_EmptySet
<1>3. \A x \in S : Cardinality(S \ {x}) = Cardinality(S) - 1
  BY <1>1, FS_RemoveElement
<1>4. S # {} => Pick(S) \in S
  BY DEF Pick
<1> QED BY <1>2, <1>3, <1>4

\* The recursion has a solution.
LEMMA IterSums ==
    ASSUME NEW S \in SUBSET Session, NEW f
    PROVE  \A s \in SUBSET S : Iter(f, S)[s] = SumStep(f, Iter(f, S), s)
<1> DEFINE Upto(n, it) == \A s \in SUBSET S : Cardinality(s) <= n => it[s] = SumStep(f, it, s)
           Known == {n \in Nat : \E it : Upto(n, it)}
<1>1. 0 \in Known
  <2> DEFINE it == [s \in SUBSET S |-> 0]
  <2>1. \A s \in SUBSET S : Cardinality(s) <= 0 => s = {}
    BY FewerLeft
  <2>2. Upto(0, it)
    BY <2>1 DEF SumStep
  <2> HIDE DEF it, Upto
  <2> QED BY <2>2
<1>2. ASSUME NEW n \in Nat, n \in Known PROVE n + 1 \in Known
  <2>1. PICK it : Upto(n, it)
    BY <1>2
  <2> DEFINE jt == [s \in SUBSET S |-> IF Cardinality(s) = n + 1 THEN SumStep(f, it, s) ELSE it[s]]
  <2>2. \A s \in SUBSET S : Cardinality(s) <= n => jt[s] = it[s]
    BY FewerLeft
  <2>3. \A s \in SUBSET S : Cardinality(s) = n + 1 => jt[s] = SumStep(f, it, s)
    OBVIOUS
  <2> HIDE DEF jt
  <2>4. ASSUME NEW s \in SUBSET S, Cardinality(s) <= n + 1
        PROVE  SumStep(f, jt, s) = SumStep(f, it, s)
    <3>1. CASE s = {}
      BY <3>1 DEF SumStep
    <3>2. CASE s # {}
      <4>1. s \ {Pick(s)} \in SUBSET S /\ Cardinality(s \ {Pick(s)}) <= n
        BY <2>4, <3>2, FewerLeft
      <4>2. jt[s \ {Pick(s)}] = it[s \ {Pick(s)}]
        BY <2>2, <4>1
      <4> QED BY <4>2 DEF SumStep
    <3> QED BY <3>1, <3>2
  <2>5. ASSUME NEW s \in SUBSET S, Cardinality(s) <= n + 1 PROVE jt[s] = SumStep(f, jt, s)
    <3>1. Cardinality(s) <= n \/ Cardinality(s) = n + 1
      BY <2>5, FewerLeft
    <3> QED BY <2>1, <2>2, <2>3, <2>4, <2>5, <3>1
  <2>6. Upto(n + 1, jt)
    BY <2>5
  <2> HIDE DEF Upto
  <2> QED BY <2>6
<1>3. Cardinality(S) \in Known
  <2>1. Cardinality(S) \in Nat
    BY FewerLeft
  <2> HIDE DEF Known
  <2> QED BY <1>1, <1>2, <2>1, SetInduction
<1>4. PICK it : Upto(Cardinality(S), it)
  BY <1>3
<1>5. \A s \in SUBSET S : Cardinality(s) <= Cardinality(S)
  BY CollectionAssumption, FS_Subset
<1> DEFINE jt == [s \in SUBSET S |-> it[s]]
<1>6. \A s \in SUBSET S : jt[s] = SumStep(f, jt, s)
  <2> SUFFICES ASSUME NEW s \in SUBSET S PROVE it[s] = SumStep(f, jt, s)
    OBVIOUS
  <2>1. it[s] = SumStep(f, it, s)
    BY <1>4, <1>5
  <2>2. SumStep(f, jt, s) = SumStep(f, it, s)
    BY DEF SumStep
  <2> QED BY <2>1, <2>2
<1>7. Sums(f, jt, S)
  <2>1. jt = [s \in SUBSET S |-> jt[s]]
    OBVIOUS
  <2> HIDE DEF jt
  <2> QED BY <1>6, <2>1 DEF Sums
<1>8. Sums(f, Iter(f, S), S)
  <2> HIDE DEF jt
  <2> QED BY <1>7, Zenon DEF Iter
<1> QED BY <1>8, Zenon DEF Sums
\* A sum does not depend on the set that the recursion is over.
LEMMA IterAgrees ==
    ASSUME NEW S \in SUBSET Session, NEW T \in SUBSET S, NEW f
    PROVE  \A s \in SUBSET T : Iter(f, T)[s] = Iter(f, S)[s]
<1> DEFINE Known == {n \in Nat : \A s \in SUBSET T : Cardinality(s) = n => Iter(f, T)[s] = Iter(f, S)[s]}
<1>1. \A s \in SUBSET T : Iter(f, T)[s] = SumStep(f, Iter(f, T), s)
  BY IterSums
<1>2. \A s \in SUBSET T : Iter(f, S)[s] = SumStep(f, Iter(f, S), s)
  BY IterSums
<1>3. 0 \in Known
  <2>1. \A s \in SUBSET T : Cardinality(s) = 0 => s = {}
    BY FewerLeft
  <2> QED BY <1>1, <1>2, <2>1 DEF SumStep
<1>4. ASSUME NEW n \in Nat, n \in Known PROVE n + 1 \in Known
  <2> SUFFICES ASSUME NEW s \in SUBSET T, Cardinality(s) = n + 1
               PROVE  Iter(f, T)[s] = Iter(f, S)[s]
    OBVIOUS
  <2>1. Pick(s) \in s /\ Cardinality(s \ {Pick(s)}) = n
    BY FewerLeft
  <2>2. Iter(f, T)[s \ {Pick(s)}] = Iter(f, S)[s \ {Pick(s)}]
    BY <1>4, <2>1
  <2> QED BY <1>1, <1>2, <2>1, <2>2 DEF SumStep
<1>5. Nat \subseteq Known
  <2> HIDE DEF Known
  <2> QED BY <1>3, <1>4, SetInduction
<1> QED BY <1>5, FewerLeft

\* A sum is that of the elements but one and the one.
LEMMA SumWithout ==
    ASSUME NEW f \in [Session -> Nat]
    PROVE  /\ SumOf(f, {}) = 0
           /\ \A S \in SUBSET Session : SumOf(f, S) \in Nat
           /\ \A S \in SUBSET Session : \A x \in S : SumOf(f, S) = f[x] + SumOf(f, S \ {x})
<1>1. \A S \in SUBSET Session : S # {} => SumOf(f, S) = f[Pick(S)] + SumOf(f, S \ {Pick(S)})
  <2> SUFFICES ASSUME NEW S \in SUBSET Session, S # {}
               PROVE  SumOf(f, S) = f[Pick(S)] + SumOf(f, S \ {Pick(S)})
    OBVIOUS
  <2>1. Iter(f, S)[S] = f[Pick(S)] + Iter(f, S)[S \ {Pick(S)}]
    BY IterSums DEF SumStep
  <2>2. Iter(f, S \ {Pick(S)})[S \ {Pick(S)}] = Iter(f, S)[S \ {Pick(S)}]
    BY IterAgrees
  <2> QED BY <2>1, <2>2, SumIsIter
<1>2. SumOf(f, {}) = 0
  <2>1. {} \in SUBSET Session /\ {} \in SUBSET {}
    OBVIOUS
  <2>2. Iter(f, {})[{}] = 0
    BY <2>1, IterSums DEF SumStep
  <2> QED BY <2>2, SumIsIter
<1> DEFINE Good(S) == /\ SumOf(f, S) \in Nat
                      /\ \A x \in S : /\ SumOf(f, S \ {x}) \in Nat
                                      /\ SumOf(f, S) = f[x] + SumOf(f, S \ {x})
           Known == {n \in Nat : \A S \in SUBSET Session : Cardinality(S) = n => Good(S)}
<1>3. 0 \in Known
  BY <1>2, FewerLeft
<1>4. ASSUME NEW n \in Nat, n \in Known PROVE n + 1 \in Known
  <2> SUFFICES ASSUME NEW S \in SUBSET Session, Cardinality(S) = n + 1 PROVE Good(S)
    OBVIOUS
  <2> DEFINE y == Pick(S)
  <2>1. y \in S /\ S # {}
    BY FewerLeft
  <2> HIDE DEF y
  <2>2. \A x \in S : S \ {x} \in SUBSET Session /\ Cardinality(S \ {x}) = n
    BY FewerLeft
  <2>3. \A x \in S : Good(S \ {x})
    BY <1>4, <2>2
  <2>4. SumOf(f, S) = f[y] + SumOf(f, S \ {y})
    BY <1>1, <2>1 DEF y
  <2>5. SumOf(f, S) \in Nat
    BY <2>1, <2>3, <2>4
  <2>6. ASSUME NEW x \in S, x # y PROVE SumOf(f, S) = f[x] + SumOf(f, S \ {x})
    <3>1. SumOf(f, S \ {y}) = f[x] + SumOf(f, (S \ {y}) \ {x})
      BY <2>1, <2>3, <2>6
    <3>2. SumOf(f, S \ {x}) = f[y] + SumOf(f, (S \ {x}) \ {y})
      BY <2>1, <2>3, <2>6
    <3>3. (S \ {y}) \ {x} = (S \ {x}) \ {y}
      OBVIOUS
    <3>4. SumOf(f, (S \ {y}) \ {x}) \in Nat
      BY <2>1, <2>3, <2>6
    <3> QED BY <2>4, <3>1, <3>2, <3>3, <3>4
  <2> QED BY <2>3, <2>4, <2>5, <2>6
<1>5. Nat \subseteq Known
  <2> HIDE DEF Known
  <2> QED BY <1>3, <1>4, SetInduction
<1>6. \A S \in SUBSET Session : Good(S)
  BY <1>5, FewerLeft
<1> QED BY <1>2, <1>6
\* A sum over a larger set, and of values that are no smaller, is no smaller.
LEMMA SumGrows ==
    ASSUME NEW f \in [Session -> Nat], NEW g \in [Session -> Nat],
           NEW S \in SUBSET Session, NEW T \in SUBSET Session, S \subseteq T,
           \A x \in S : f[x] <= g[x]
    PROVE  SumOf(f, S) <= SumOf(g, T)
<1> DEFINE Known == {n \in Nat : \A U, V \in SUBSET Session :
                        U \subseteq V /\ Cardinality(V) = n /\ (\A x \in U : f[x] <= g[x])
                            => SumOf(f, U) <= SumOf(g, V)}
<1>1. 0 \in Known
  <2> SUFFICES ASSUME NEW U \in SUBSET Session, NEW V \in SUBSET Session, U \subseteq V,
                      Cardinality(V) = 0
               PROVE  SumOf(f, U) <= SumOf(g, V)
    OBVIOUS
  <2>1. U = {} /\ V = {}
    BY FewerLeft
  <2> QED BY <2>1, SumWithout
<1>2. ASSUME NEW n \in Nat, n \in Known PROVE n + 1 \in Known
  <2> SUFFICES ASSUME NEW U \in SUBSET Session, NEW V \in SUBSET Session, U \subseteq V,
                      Cardinality(V) = n + 1, \A x \in U : f[x] <= g[x]
               PROVE  SumOf(f, U) <= SumOf(g, V)
    OBVIOUS
  <2>1. PICK y \in V : TRUE
    BY FewerLeft
  <2>2. Cardinality(V \ {y}) = n /\ V \ {y} \in SUBSET Session /\ U \ {y} \in SUBSET Session
    BY FewerLeft
  <2>3. SumOf(f, U \ {y}) <= SumOf(g, V \ {y})
    BY <1>2, <2>2
  <2>4. SumOf(g, V) = g[y] + SumOf(g, V \ {y}) /\ SumOf(g, V \ {y}) \in Nat
    BY <2>2, SumWithout
  <2>5. CASE y \in U
    <3>1. SumOf(f, U) = f[y] + SumOf(f, U \ {y}) /\ SumOf(f, U \ {y}) \in Nat
      BY <2>2, <2>5, SumWithout
    <3>2. f[y] \in Nat /\ g[y] \in Nat /\ f[y] <= g[y]
      BY <2>5
    <3> QED BY <2>3, <2>4, <3>1, <3>2
  <2>6. CASE y \notin U
    <3>1. U \ {y} = U
      BY <2>6
    <3>2. SumOf(f, U) <= SumOf(g, V \ {y})
      BY <2>3, <3>1
    <3>3. SumOf(f, U) \in Nat /\ g[y] \in Nat
      BY SumWithout
    <3> QED BY <2>4, <3>2, <3>3
  <2> QED BY <2>5, <2>6
<1>3. Nat \subseteq Known
  <2> HIDE DEF Known
  <2> QED BY <1>1, <1>2, SetInduction
<1> QED BY <1>3, FewerLeft
-----------------------------------------------------------------------------
(* Plans that protect the session of the command line. *)

Stale == StaleSessions(dirs, Default)
Rest == Only(dirs, Session \ Stale)
Removable == Only(Rest, Session \ {Default})
Pool == QuotaPool(Rest, Default)
Taken(n) == ToSet(SubSeq(Pool, 1, n))
Enough(n) == /\ Len(Rest) - n <= MaxSessionDirs
             /\ Bytes(ToSet(Rest) \ Taken(n)) <= MaxTotalBytes
PlanSize == CHOOSE m \in 0..Len(Pool) :
                /\ Enough(m) \/ m = Len(Pool)
                /\ \A k \in 0..(m - 1) : ~Enough(k)

LEMMA PlanIs == Candidates(dirs, Default) = Reverse(Only(dirs, Stale \cup Taken(PlanSize)))
BY DEF Candidates, Stale, Rest, Pool, Taken, Enough, PlanSize

\* What may be removed for a quota, in the order of the list.
LEMMA RemovableIs ==
    ASSUME StoreTyped
    PROVE  /\ Rest \in Seq(Session) /\ Distinct(Rest) /\ ToSet(Rest) = Dirs \ Stale
           /\ Removable \in Seq(Session) /\ Distinct(Removable)
           /\ ToSet(Removable) = (Dirs \ Stale) \ {Default}
           /\ \A a, b \in ToSet(Removable) : Before(Removable, a, b) <=> Before(dirs, a, b)
<1>1. dirs \in Seq(Session) /\ Distinct(dirs)
  BY DEF StoreTyped
<1>2. Dirs \subseteq Session
  BY <1>1 DEF Dirs, ToSet
<1>3. Rest \in Seq(Session) /\ Distinct(Rest)
  BY <1>1, OnlySelects, OnlyDistinct DEF Rest
<1>4. ToSet(Rest) = Dirs \ Stale
  <2>1. ToSet(Rest) = Dirs \cap (Session \ Stale)
    BY <1>1, SelectedSet DEF Rest, Dirs
  <2> QED BY <1>2, <2>1
<1>5. Removable \in Seq(Session) /\ Distinct(Removable)
  BY <1>3, OnlySelects, OnlyDistinct DEF Removable
<1>6. ToSet(Removable) = (Dirs \ Stale) \ {Default}
  <2>1. ToSet(Removable) = ToSet(Rest) \cap (Session \ {Default})
    BY <1>3, SelectedSet DEF Removable
  <2> QED BY <1>2, <1>4, <2>1
<1>7. ASSUME NEW a \in ToSet(Removable), NEW b \in ToSet(Removable)
      PROVE  Before(Removable, a, b) <=> Before(dirs, a, b)
  <2>1. a \in Session \ {Default} /\ b \in Session \ {Default}
        /\ a \in Session \ Stale /\ b \in Session \ Stale
    BY <1>2, <1>6
  <2>2. Before(Removable, a, b) <=> Before(Rest, a, b)
    BY <1>3, <2>1, OnlyBefore DEF Removable
  <2>3. Before(Rest, a, b) <=> Before(dirs, a, b)
    BY <1>1, <2>1, OnlyBefore DEF Rest
  <2> QED BY <2>2, <2>3
<1> QED BY <1>3, <1>4, <1>5, <1>6, <1>7

\* The pool is that from its end, without the latest ones.
LEMMA PoolIs ==
    ASSUME StoreTyped
    PROVE  /\ Len(Pool) \in Nat /\ Len(Removable) \in Nat
           /\ Len(Pool) = IF Len(Removable) > PreserveRecent
                          THEN Len(Removable) - PreserveRecent ELSE 0
           /\ \A k \in 1..Len(Pool) : Pool[k] = Removable[Len(Removable) - k + 1]
           /\ Pool \in Seq(Session)
           /\ \A n \in 0..Len(Pool) : Taken(n) = {Pool[k] : k \in 1..n}
<1> DEFINE r == Removable
           len == Len(r)
           t == SubSeq(r, PreserveRecent + 1, len)
<1>1. r \in Seq(Session)
  BY RemovableIs
<1>2. PreserveRecent \in Nat
  BY CollectionAssumption
<1>3. Pool = Reverse(t)
  BY DEF Pool, QuotaPool, Removable
<1> HIDE DEF r
<1>4. len \in Nat /\ \A i \in 1..len : r[i] \in Session
  BY <1>1
<1> DEFINE n == IF len > PreserveRecent THEN len - PreserveRecent ELSE 0
<1>5. /\ t \in Seq(Session) /\ Len(t) = n
      /\ \A i \in 1..n : t[i] = r[PreserveRecent + i]
  <2> HIDE DEF len
  <2>1. PreserveRecent + 1 \in Int /\ len \in Int
    BY <1>2, <1>4
  <2>2. \A i \in (PreserveRecent + 1)..len : r[i] \in Session
    BY <1>2, <1>4
  <2>3. /\ t \in Seq(Session)
        /\ Len(t) = IF PreserveRecent + 1 <= len THEN len - (PreserveRecent + 1) + 1 ELSE 0
        /\ \A i \in 1..(len - (PreserveRecent + 1) + 1) : t[i] = r[PreserveRecent + 1 + i - 1]
    BY <2>1, <2>2, SubSeqProperties
  <2> HIDE DEF t
  <2> QED BY <1>2, <1>4, <2>3
<1> HIDE DEF t
<1>6. Pool \in Seq(Session) /\ Len(Pool) = n /\ n \in Nat
  BY <1>2, <1>3, <1>4, <1>5, OrderReversed
<1>7. ASSUME NEW k \in 1..n PROVE Pool[k] = r[len - k + 1]
  <2>1. Pool[k] = t[n - k + 1] /\ n - k + 1 \in 1..n
    BY <1>3, <1>5, <1>6 DEF Reverse
  <2>2. t[n - k + 1] = r[PreserveRecent + (n - k + 1)]
    BY <1>5, <2>1
  <2>3. PreserveRecent + (n - k + 1) = len - k + 1
    BY <1>2, <1>4
  <2> QED BY <2>1, <2>2, <2>3
<1>8. ASSUME NEW m \in 0..Len(Pool) PROVE Taken(m) = {Pool[k] : k \in 1..m}
  <2> DEFINE u == SubSeq(Pool, 1, m)
  <2>1. m \in Int /\ 1 \in Int /\ \A i \in 1..m : Pool[i] \in Session
    BY <1>6
  <2>2. /\ u \in Seq(Session) /\ Len(u) = IF 1 <= m THEN m - 1 + 1 ELSE 0
        /\ \A i \in 1..(m - 1 + 1) : u[i] = Pool[1 + i - 1]
    BY <2>1, SubSeqProperties
  <2> HIDE DEF u
  <2>3. DOMAIN u = 1..m /\ \A i \in 1..m : u[i] = Pool[i]
    BY <1>6, <2>2
  <2>4. ToSet(u) = {Pool[k] : k \in 1..m}
    BY <2>3 DEF ToSet
  <2> QED BY <2>4 DEF u, Taken
<1> HIDE DEF n
<1> QED BY <1>4, <1>6, <1>7, <1>8 DEF n, r

\* The plan takes the first of the pool until that is enough.
LEMMA PlanSizeIs ==
    ASSUME StoreTyped
    PROVE  PlanSize \in 0..Len(Pool) /\ \A k \in 0..(PlanSize - 1) : ~Enough(k)
<1> DEFINE Fits == {m \in 0..Len(Pool) : Enough(m) \/ m = Len(Pool)}
<1>1. Len(Pool) \in Nat
  BY PoolIs
<1>2. Fits \in SUBSET Nat /\ Fits # {}
  BY <1>1
<1>3. PICK m \in Fits : \A k \in Fits : m <= k
  BY <1>2, LeastElement
<1>4. \A k \in 0..(m - 1) : ~Enough(k)
  BY <1>1, <1>3
<1>5. \E i \in 0..Len(Pool) : /\ Enough(i) \/ i = Len(Pool)
                              /\ \A k \in 0..(i - 1) : ~Enough(k)
  BY <1>3, <1>4
<1> QED BY <1>5, Zenon DEF PlanSize
\* What is taken has, with a session, all older ones that may be removed.
LEMMA TakenIs ==
    ASSUME StoreTyped
    PROVE  /\ Taken(PlanSize) \subseteq ToSet(Removable)
           /\ \A d \in Taken(PlanSize) : \A e \in ToSet(Removable) :
                  Before(Removable, d, e) => e \in Taken(PlanSize)
<1> DEFINE r == Removable
           len == Len(r)
           n == PlanSize
<1>1. r \in Seq(Session) /\ Distinct(r)
  BY RemovableIs
<1>2. /\ Len(Pool) \in Nat /\ PreserveRecent \in Nat /\ n \in 0..Len(Pool)
      /\ Len(Pool) = IF len > PreserveRecent THEN len - PreserveRecent ELSE 0
  BY CollectionAssumption, PoolIs, PlanSizeIs
<1>3. \A k \in 1..Len(Pool) : Pool[k] = r[len - k + 1]
  BY PoolIs
<1>4. Taken(n) = {Pool[k] : k \in 1..n}
  BY <1>2, PoolIs
<1> HIDE DEF r, n
<1>5. len \in Nat /\ DOMAIN r = 1..len
  BY <1>1
<1>6. \A k \in 1..n : len - k + 1 \in 1..len /\ Pool[k] = r[len - k + 1]
  <2>1. n \in Nat /\ n <= Len(Pool) /\ Len(Pool) <= len
    <3> HIDE DEF len
    <3>1. n \in Nat /\ n <= Len(Pool)
      BY <1>2
    <3>2. Len(Pool) <= len
      BY <1>2, <1>5
    <3> QED BY <3>1, <3>2
  <2> SUFFICES ASSUME NEW k \in 1..n
               PROVE  len - k + 1 \in 1..len /\ Pool[k] = r[len - k + 1]
    OBVIOUS
  <2>2. k \in 1..Len(Pool)
    BY <1>2, <2>1
  <2> HIDE DEF len
  <2>3. len - k + 1 \in 1..len
    BY <1>5, <2>1
  <2> QED BY <1>3, <2>2, <2>3
<1>7. Taken(n) \subseteq ToSet(r)
  BY <1>4, <1>5, <1>6 DEF ToSet
<1>8. ASSUME NEW d \in Taken(n), NEW e, Before(r, d, e) PROVE e \in Taken(n)
  <2>1. PICK i \in 1..len, j \in 1..len : i < j /\ r[i] = d /\ r[j] = e
    BY <1>5, <1>8 DEF Before
  <2>2. PICK k \in 1..n : Pool[k] = d
    BY <1>4
  <2>3. len - k + 1 = i
    BY <1>1, <1>5, <1>6, <2>1, <2>2 DEF Distinct
  <2> DEFINE l == len - j + 1
  <2>4. l \in 1..n /\ len - l + 1 = j
    <3>1. n \in Nat /\ k \in 1..n
      BY <1>2
    <3> HIDE DEF len
    <3> QED BY <1>5, <2>1, <2>3, <3>1
  <2> HIDE DEF l
  <2>5. Pool[l] = e
    BY <1>6, <2>1, <2>4
  <2> QED BY <1>4, <2>4, <2>5
<1> QED BY <1>7, <1>8 DEF r, n

\* The plan spares the protected session, is sorted by age, and has with a directory
\* all older ones.
LEMMA PlanSorted ==
    ASSUME StoreTyped, AgedLast, NEW c, c = Candidates(dirs, Default)
    PROVE  /\ c \in Seq(Session) /\ Distinct(c) /\ Default \notin ToSet(c)
           /\ ToSet(c) = Stale \cup Taken(PlanSize)
           /\ \A d, e : Before(c, d, e) => Before(dirs, e, d)
           /\ \A d \in ToSet(c) : \A e \in Dirs \ {Default} :
                  Before(dirs, d, e) => e \in ToSet(c)
<1> DEFINE chosen == Stale \cup Taken(PlanSize)
           t == Only(dirs, chosen)
<1>1. c = Reverse(t)
  BY PlanIs
<1>2. dirs \in Seq(Session) /\ Distinct(dirs)
  BY DEF StoreTyped
<1>3. Stale = (Dirs \cap aged) \ {Default}
  BY DEF Stale, StaleSessions, Dirs
<1>4. chosen \subseteq Dirs \ {Default}
  BY <1>3, RemovableIs, TakenIs
<1>5. t \in Seq(Session) /\ Distinct(t) /\ ToSet(t) = chosen
  <2>1. ToSet(t) = Dirs \cap chosen
    BY <1>2, SelectedSet DEF Dirs
  <2> QED BY <1>2, <1>4, <2>1, OnlySelects, OnlyDistinct
<1>6. \A a, b : Before(t, a, b) => Before(dirs, a, b)
  BY <1>2, OnlyBefore
<1> HIDE DEF t
<1>7. c \in Seq(Session) /\ Distinct(c) /\ ToSet(c) = chosen
  BY <1>1, <1>5, OrderReversed
<1>8. \A d, e : Before(c, d, e) => Before(dirs, e, d)
  BY <1>1, <1>5, <1>6, OrderReversed
<1>9. ASSUME NEW d \in chosen, NEW e \in Dirs \ {Default}, Before(dirs, d, e)
      PROVE  e \in chosen
  <2>1. CASE e \in Stale
    BY <2>1
  <2>2. CASE e \notin Stale /\ d \in Stale
    <3>1. d \in Dirs /\ d \in aged
      BY <1>3, <2>2
    <3> QED BY <1>3, <1>9, <2>2, <3>1 DEF AgedLast
  <2>3. CASE e \notin Stale /\ d \in Taken(PlanSize)
    <3>1. e \in ToSet(Removable) /\ d \in ToSet(Removable)
      BY <2>3, RemovableIs, TakenIs
    <3>2. Before(Removable, d, e)
      BY <1>9, <3>1, RemovableIs
    <3> QED BY <2>3, <3>1, <3>2, TakenIs
  <2> QED BY <1>9, <2>1, <2>2, <2>3
<1>10. Default \notin ToSet(c)
  BY <1>4, <1>7
<1> HIDE DEF chosen
<1> QED BY <1>7, <1>8, <1>9, <1>10 DEF chosen
\* A list without repetitions has as many elements as it is long.
LEMMA CountDistinct ==
    ASSUME NEW s \in Seq(Session), Distinct(s), NEW n \in 0..Len(s)
    PROVE  Cardinality({s[i] : i \in 1..n}) = n
<1> DEFINE T == {s[i] : i \in 1..n}
           f == [i \in 1..n |-> s[i]]
<1>1. DOMAIN s = 1..Len(s) /\ Len(s) \in Nat /\ n \in Nat
  OBVIOUS
<1>2. f \in [1..n -> T] /\ \A i \in 1..n : f[i] = s[i]
  OBVIOUS
<1>3. \A i, j \in 1..n : f[i] = f[j] => i = j
  BY <1>1, <1>2 DEF Distinct
<1>4. \A y \in T : \E i \in 1..n : f[i] = y
  BY <1>2
<1> HIDE DEF f, T
<1>5. f \in Bijection(1..n, T)
  BY <1>2, <1>3, <1>4 DEF Bijection, Injection, Surjection, IsInjective
<1>6. Cardinality(T) = n
  BY <1>1, <1>5, FS_CountingElements DEF ExistsBijection
<1> QED BY <1>6 DEF T

\* The first n elements are n at most.
LEMMA CountFirst ==
    ASSUME NEW s \in Seq(Session), NEW n \in 0..Len(s)
    PROVE  IsFiniteSet({s[i] : i \in 1..n}) /\ Cardinality({s[i] : i \in 1..n}) <= n
<1> DEFINE T == {s[i] : i \in 1..n}
           f == [i \in 1..n |-> s[i]]
<1>1. f \in [1..n -> T] /\ \A y \in T : \E i \in 1..n : f[i] = y
  OBVIOUS
<1>2. n \in Nat /\ n \in Int /\ 1 \in Int
  OBVIOUS
<1> HIDE DEF f, T
<1>3. IsFiniteSet(1..n) /\ Cardinality(1..n) = n
  BY <1>2, FS_Interval
<1>4. f \in Surjection(1..n, T)
  BY <1>1 DEF Surjection
<1>5. IsFiniteSet(T) /\ Cardinality(T) <= n
  BY <1>3, <1>4, FS_Surjection
<1> QED BY <1>5 DEF T

\* What a plan names that has not aged is k-th in the pool; what is not taken before it
\* is what is kept, and the latest that are to be preserved are.
LEMMA PlanPlace ==
    ASSUME StoreTyped, AgedLast, NEW h \in Taken(PlanSize)
    PROVE  \E k \in 1..PlanSize :
              /\ ToSet(Rest) \ Taken(k - 1) \subseteq Keep(h)
              /\ PreserveRecent <= Len(Removable)
              /\ {Removable[i] : i \in 1..PreserveRecent} \subseteq Keep(h) \ {h, Default}
<1> DEFINE r == Removable
           len == Len(r)
           n == PlanSize
<1>1. r \in Seq(Session) /\ Distinct(r)
  BY RemovableIs
<1>2. /\ Len(Pool) \in Nat /\ PreserveRecent \in Nat /\ n \in 0..Len(Pool)
      /\ Len(Pool) = IF len > PreserveRecent THEN len - PreserveRecent ELSE 0
  BY CollectionAssumption, PoolIs, PlanSizeIs
<1>3. PICK k \in 1..n : h = Pool[k]
  BY <1>2, PoolIs
<1>4. /\ k \in 1..Len(Pool) /\ k - 1 \in 0..Len(Pool)
  BY <1>2
<1>5. \A i \in 1..Len(Pool) : Pool[i] = r[len - i + 1]
  BY PoolIs
<1>6. Taken(k - 1) = {Pool[i] : i \in 1..(k - 1)}
  BY <1>4, PoolIs
<1>7. h \in ToSet(r)
  BY TakenIs
<1> HIDE DEF r, n, len
<1>8. len \in Nat /\ DOMAIN r = 1..len
  BY <1>1 DEF len
<1>9. len > PreserveRecent /\ Len(Pool) = len - PreserveRecent
  BY <1>2, <1>4, <1>8
<1> DEFINE p == len - k + 1
<1>10. p \in 1..len /\ r[p] = h /\ PreserveRecent < p
  BY <1>2, <1>3, <1>4, <1>5, <1>8, <1>9
<1>11. \A a \in ToSet(r) : Before(r, a, h) => Before(dirs, a, h)
  BY <1>7, RemovableIs DEF r
<1>12. ToSet(r) = (Dirs \ Stale) \ {Default} /\ ToSet(Rest) = Dirs \ Stale
  BY RemovableIs DEF r
<1>13. ASSUME NEW e \in ToSet(Rest), e \notin Taken(k - 1) PROVE e \in Keep(h)
  <2>1. e \in Dirs
    BY <1>12
  <2>2. CASE e \in {h, Default}
    BY <2>1, <2>2 DEF Keep
  <2>3. CASE e \notin {h, Default}
    <3>1. e \in ToSet(r)
      BY <1>12, <2>3
    <3>2. PICK j \in 1..len : r[j] = e
      BY <1>8, <3>1 DEF ToSet
    <3>3. CASE j <= p
      <4>1. j < p
        BY <1>8, <1>10, <2>3, <3>2, <3>3
      <4>2. Before(r, e, h)
        BY <1>8, <1>10, <3>2, <4>1 DEF Before
      <4> QED BY <1>11, <2>1, <3>1, <4>2 DEF Keep
    <3>4. CASE p < j
      <4> DEFINE l == len - j + 1
      <4>1. l \in 1..(k - 1) /\ l \in 1..Len(Pool) /\ len - l + 1 = j
        BY <1>4, <1>8, <1>9, <3>2, <3>4
      <4> HIDE DEF l
      <4>2. Pool[l] = e
        BY <1>5, <3>2, <4>1
      <4> QED BY <1>6, <1>13, <4>1, <4>2
    <3> QED BY <1>8, <1>10, <3>3, <3>4
  <2> QED BY <2>2, <2>3
<1>14. ASSUME NEW i \in 1..PreserveRecent PROVE r[i] \in Keep(h) \ {h, Default}
  <2>1. i \in 1..len /\ i < p
    BY <1>2, <1>8, <1>9, <1>10
  <2>2. r[i] \in ToSet(r) /\ Before(r, r[i], h) /\ r[i] # h
    BY <1>1, <1>8, <1>10, <2>1 DEF Before, ToSet, Distinct
  <2>3. r[i] \in Dirs /\ r[i] # Default
    BY <1>12, <2>2
  <2> QED BY <1>11, <2>2, <2>3 DEF Keep
<1>15. PreserveRecent <= len
  BY <1>2, <1>8, <1>9
<1> QED BY <1>13, <1>14, <1>15 DEF r, n, len
\* The size of directories, in this state and the next.
LEMMA BytesAreSums ==
    \A S : Bytes(S) = SumOf(stored, S) /\ Bytes(S)' = SumOf(stored', S)
BY Zenon DEF Bytes, SumOf, MapThenSumSet, MapThenFoldSet

\* A plan names a directory that has not aged for a quota only, and none of the latest.
LEMMA PlanNeeded ==
    ASSUME StoreTyped, AgedLast, NEW c, c = Candidates(dirs, Default),
           NEW h \in ToSet(c), h \notin aged
    PROVE  /\ Over(Keep(h))
           /\ Cardinality(Keep(h) \ {h, Default}) >= PreserveRecent
<1>1. h \in Taken(PlanSize)
  BY PlanSorted DEF Stale, StaleSessions
<1>2. PICK k \in 1..PlanSize :
         /\ ToSet(Rest) \ Taken(k - 1) \subseteq Keep(h)
         /\ PreserveRecent <= Len(Removable)
         /\ {Removable[i] : i \in 1..PreserveRecent} \subseteq Keep(h) \ {h, Default}
  BY <1>1, PlanPlace
<1>3. Dirs \subseteq Session /\ Keep(h) \subseteq Dirs
  BY DEF StoreTyped, Dirs, ToSet, Keep
<1>4. Over(Keep(h))
  <2> DEFINE j == k - 1
             R == ToSet(Rest) \ Taken(j)
  <2>1. /\ j \in 0..Len(Pool) /\ j \in 0..(PlanSize - 1) /\ j \in Nat
    BY PoolIs, PlanSizeIs
  <2>2. ~Enough(j)
    BY <2>1, PlanSizeIs
  <2>3. Rest \in Seq(Session) /\ Distinct(Rest) /\ Pool \in Seq(Session)
    BY RemovableIs, PoolIs
  <2>4. Cardinality(ToSet(Rest)) = Len(Rest) /\ Len(Rest) \in Nat
    <3>1. Len(Rest) \in 0..Len(Rest) /\ ToSet(Rest) = {Rest[i] : i \in 1..Len(Rest)}
      BY <2>3 DEF ToSet
    <3> QED BY <2>3, <3>1, CountDistinct
  <2>5. IsFiniteSet(Taken(j)) /\ Cardinality(Taken(j)) <= j
    <3>1. Taken(j) = {Pool[i] : i \in 1..j}
      BY <2>1, PoolIs
    <3> HIDE DEF j
    <3> QED BY <2>1, <2>3, <3>1, CountFirst
  <2> HIDE DEF j
  <2>6. ToSet(Rest) \subseteq Session /\ IsFiniteSet(ToSet(Rest)) /\ R \subseteq Keep(h)
    BY <1>2, <1>3, CollectionAssumption, RemovableIs, FS_Subset DEF j
  <2>7. Cardinality(R) = Len(Rest) - Cardinality(ToSet(Rest) \cap Taken(j))
    BY <2>4, <2>6, FS_Difference
  <2>8. /\ Cardinality(ToSet(Rest) \cap Taken(j)) <= Cardinality(Taken(j))
        /\ Cardinality(ToSet(Rest) \cap Taken(j)) \in Nat /\ Cardinality(Taken(j)) \in Nat
    <3>1. ToSet(Rest) \cap Taken(j) \in SUBSET Taken(j)
      OBVIOUS
    <3> QED BY <2>5, <3>1, FS_Subset, FS_CardinalityType
  <2> HIDE DEF R
  <2>9. Cardinality(R) >= Len(Rest) - j
    BY <2>1, <2>4, <2>5, <2>7, <2>8
  <2>10. R \in SUBSET Session /\ Keep(h) \in SUBSET Session
    BY <1>3, <2>6
  <2>11. /\ Cardinality(R) \in Nat /\ Cardinality(Keep(h)) \in Nat
         /\ Cardinality(R) <= Cardinality(Keep(h))
    BY <2>6, <2>10, CollectionAssumption, FS_Subset, FS_CardinalityType
  <2>12. Bytes(R) \in Nat /\ Bytes(Keep(h)) \in Nat /\ Bytes(R) <= Bytes(Keep(h))
    <3>1. stored \in [Session -> Nat]
      BY DEF StoreTyped
    <3>2. Bytes(R) = SumOf(stored, R) /\ Bytes(Keep(h)) = SumOf(stored, Keep(h))
      BY DEF Bytes, SumOf
    <3>3. \A x \in R : stored[x] <= stored[x]
      BY <2>10, <3>1
    <3>4. SumOf(stored, R) <= SumOf(stored, Keep(h))
      BY <2>6, <2>10, <3>1, <3>3, SumGrows
    <3> QED BY <2>10, <3>1, <3>2, <3>4, SumWithout
  <2>13. MaxSessionDirs \in Nat /\ MaxTotalBytes \in Nat
    BY CollectionAssumption
  <2>14. Len(Rest) - j > MaxSessionDirs \/ Bytes(R) > MaxTotalBytes
    BY <2>1, <2>2, <2>4, <2>12, <2>13 DEF Enough, R
  <2> QED BY <2>1, <2>4, <2>9, <2>11, <2>12, <2>13, <2>14 DEF Over
<1>5. Cardinality(Keep(h) \ {h, Default}) >= PreserveRecent
  <2> DEFINE T == {Removable[i] : i \in 1..PreserveRecent}
  <2>1. Cardinality(T) = PreserveRecent /\ PreserveRecent \in Nat
    <3>1. PreserveRecent \in 0..Len(Removable)
      BY <1>2, CollectionAssumption, PoolIs
    <3> QED BY <3>1, RemovableIs, CountDistinct
  <2>2. T \subseteq Keep(h) \ {h, Default}
    BY <1>2
  <2> HIDE DEF T
  <2>3. IsFiniteSet(Keep(h) \ {h, Default})
    BY <1>3, CollectionAssumption, FS_Subset
  <2>4. Cardinality(T) <= Cardinality(Keep(h) \ {h, Default})
    BY <2>2, <2>3, FS_Subset
  <2>5. Cardinality(Keep(h) \ {h, Default}) \in Nat
    BY <2>3, FS_CardinalityType
  <2> QED BY <2>1, <2>4, <2>5
<1> QED BY <1>4, <1>5
-----------------------------------------------------------------------------
(* Steps. *)

LEMMA KeepNext ==
    \A h : /\ Keep(h)' = {e \in ToSet(dirs') : e \in {h, Default} \/ Before(dirs', e, h)}
           /\ Over(Keep(h)) <=> \/ Cardinality(Keep(h)) > MaxSessionDirs
                                \/ SumOf(stored, Keep(h)) > MaxTotalBytes
           /\ Over(Keep(h))' <=> \/ Cardinality(Keep(h)') > MaxSessionDirs
                                 \/ SumOf(stored', Keep(h)') > MaxTotalBytes
<1> SUFFICES ASSUME NEW h
             PROVE  /\ Keep(h)' = {e \in ToSet(dirs') : e \in {h, Default} \/ Before(dirs', e, h)}
                    /\ Over(Keep(h)) <=> \/ Cardinality(Keep(h)) > MaxSessionDirs
                                         \/ SumOf(stored, Keep(h)) > MaxTotalBytes
                    /\ Over(Keep(h))' <=> \/ Cardinality(Keep(h)') > MaxSessionDirs
                                          \/ SumOf(stored', Keep(h)') > MaxTotalBytes
  OBVIOUS
<1>1. Keep(h)' = {e \in ToSet(dirs') : e \in {h, Default} \/ Before(dirs', e, h)}
  BY DEF Keep, Dirs
<1>2. Bytes(Keep(h)) = SumOf(stored, Keep(h))
  BY BytesAreSums
<1>3. Bytes(Keep(h))' = SumOf(stored', Keep(h)')
  BY Zenon DEF Bytes, SumOf, MapThenSumSet, MapThenFoldSet
<1> QED BY <1>1, <1>2, <1>3 DEF Over

\* What is kept with a directory stays over the quotas, and as many, when nothing of it
\* goes and nothing in it shrinks.
LEMMA OverKept ==
    ASSUME StoreTyped, StoreTyped', NEW h, Keep(h) \subseteq Keep(h)',
           \A e \in Keep(h) : stored[e] <= stored'[e]
    PROVE  /\ Over(Keep(h)) => Over(Keep(h))'
           /\ Cardinality(Keep(h) \ {h, Default}) >= PreserveRecent
                => Cardinality(Keep(h)' \ {h, Default}) >= PreserveRecent
<1>1. /\ dirs \in Seq(Session) /\ dirs' \in Seq(Session)
      /\ stored \in [Session -> Nat] /\ stored' \in [Session -> Nat]
  BY DEF StoreTyped
<1>2. Keep(h) \in SUBSET Session
  BY <1>1 DEF Keep, Dirs, ToSet
<1>3. Keep(h)' \in SUBSET Session
  <2>1. \A e \in ToSet(dirs') : e \in Session
    BY <1>1 DEF ToSet
  <2> QED BY <2>1, KeepNext
<1> DEFINE K == Keep(h)
           L == Keep(h)'
           k == K \ {h, Default}
           l == L \ {h, Default}
<1> HIDE DEF K, L
<1>4. IsFiniteSet(K) /\ IsFiniteSet(L) /\ IsFiniteSet(k) /\ IsFiniteSet(l)
  BY <1>2, <1>3, CollectionAssumption, FS_Subset DEF K, L
<1>5. K \subseteq L /\ k \subseteq l
  BY DEF K, L
<1> HIDE DEF k, l
<1>6. /\ Cardinality(K) \in Nat /\ Cardinality(L) \in Nat /\ Cardinality(K) <= Cardinality(L)
      /\ Cardinality(k) \in Nat /\ Cardinality(l) \in Nat /\ Cardinality(k) <= Cardinality(l)
  BY <1>4, <1>5, FS_Subset, FS_CardinalityType
<1>7. /\ SumOf(stored, K) <= SumOf(stored', L)
      /\ SumOf(stored, K) \in Nat /\ SumOf(stored', L) \in Nat
  BY <1>1, <1>2, <1>3, <1>5, SumGrows, SumWithout DEF K, L
<1>8. MaxSessionDirs \in Nat /\ MaxTotalBytes \in Nat /\ PreserveRecent \in Nat
  BY CollectionAssumption
<1>9. Over(Keep(h)) <=> Cardinality(K) > MaxSessionDirs \/ SumOf(stored, K) > MaxTotalBytes
  BY KeepNext DEF K
<1>10. Over(Keep(h))' <=> Cardinality(L) > MaxSessionDirs \/ SumOf(stored', L) > MaxTotalBytes
  BY KeepNext DEF L
<1>11. Over(Keep(h)) => Over(Keep(h))'
  BY <1>6, <1>7, <1>8, <1>9, <1>10
<1>12. Cardinality(k) >= PreserveRecent => Cardinality(l) >= PreserveRecent
  BY <1>6, <1>8
<1> QED BY <1>11, <1>12 DEF k, l, K, L

\* A step that removes no directory and gives no plan, but may stop one, may age
\* directories, change the protected one and add to it.
Calm ==
    /\ \A x \in Collector : left'[x] \in {left[x], <<>>}
    /\ Dirs \subseteq ToSet(dirs') /\ ToSet(dirs') \subseteq Dirs \cup {Default}
    /\ \A a, b : a # Default /\ b # Default => (Before(dirs', a, b) <=> Before(dirs, a, b))
    /\ \A s \in Session : stored[s] <= stored'[s]
    /\ aged \ {Default} \subseteq aged'

PlansHold == Protected /\ Sorted /\ Closed /\ Excess /\ Old

LEMMA CalmKeepsPlans ==
    ASSUME StoreTyped, StoreTyped', PlansHold, Calm
    PROVE  PlansHold'
<1>1. \A x \in Collector : \A d \in ToSet(left'[x]) : left'[x] = left[x] /\ d # Default
  <2> SUFFICES ASSUME NEW x \in Collector, NEW d \in ToSet(left'[x])
               PROVE  left'[x] = left[x] /\ d # Default
    OBVIOUS
  <2>1. left'[x] # <<>>
    BY DEF ToSet
  <2> QED BY <2>1 DEF Calm, PlansHold, Protected
<1>2. Protected'
  BY <1>1 DEF Protected
<1>3. Sorted'
  <2> SUFFICES ASSUME NEW x \in Collector
               PROVE  /\ Distinct(left'[x])
                      /\ \A d, e \in ToSet(dirs') : Before(left'[x], d, e) => Before(dirs', e, d)
    BY DEF Sorted, Dirs
  <2>1. CASE left'[x] = <<>>
    BY <2>1 DEF Distinct, Before
  <2>2. CASE left'[x] = left[x]
    <3>1. Distinct(left[x])
      BY DEF PlansHold, Sorted
    <3>2. ASSUME NEW d \in ToSet(dirs'), NEW e \in ToSet(dirs'), Before(left[x], d, e)
          PROVE  Before(dirs', e, d)
      <4>1. d \in ToSet(left[x]) /\ e \in ToSet(left[x])
        BY <3>2 DEF Before, ToSet
      <4>2. d # Default /\ e # Default
        BY <1>1, <2>2, <4>1
      <4>3. d \in Dirs /\ e \in Dirs
        BY <4>2 DEF Calm
      <4> QED BY <3>2, <4>2, <4>3 DEF Calm, PlansHold, Sorted
    <3> QED BY <2>2, <3>1, <3>2
  <2> QED BY <2>1, <2>2 DEF Calm
<1>4. ASSUME NEW x \in Collector, NEW d \in ToSet(left'[x]), d \in ToSet(dirs')
      PROVE  d \in ToSet(left[x]) \cap Dirs /\ d # Default /\ left'[x] = left[x]
  BY <1>1, <1>4 DEF Calm
<1>5. Closed'
  <2> SUFFICES ASSUME NEW x \in Collector, NEW d \in ToSet(left'[x]) \cap ToSet(dirs'),
                      NEW e \in ToSet(dirs') \ {Default}, Before(dirs', d, e)
               PROVE  e \in ToSet(left'[x])
    BY DEF Closed, Dirs
  <2>1. d \in ToSet(left[x]) \cap Dirs /\ d # Default /\ left'[x] = left[x]
    BY <1>4
  <2>2. e \in Dirs \ {Default} /\ Before(dirs, d, e)
    BY <2>1 DEF Calm
  <2> QED BY <2>1, <2>2 DEF PlansHold, Closed
<1>6. ASSUME NEW x \in Collector, NEW h \in (ToSet(left'[x]) \cap ToSet(dirs')) \ aged'
      PROVE  Over(Keep(h))' /\ Cardinality(Keep(h)' \ {h, Default}) >= PreserveRecent
  <2>1. h \in (ToSet(left[x]) \cap Dirs) \ aged /\ h # Default
    BY <1>4, <1>6 DEF Calm
  <2>2. Keep(h) \subseteq Keep(h)'
    <3> SUFFICES ASSUME NEW e \in Keep(h) PROVE e \in Keep(h)'
      OBVIOUS
    <3>1. e \in ToSet(dirs') /\ (e \in {h, Default} \/ Before(dirs, e, h))
      BY DEF Keep, Calm
    <3>2. e \in {h, Default} \/ Before(dirs', e, h)
      BY <2>1, <3>1 DEF Calm
    <3> QED BY <3>1, <3>2, KeepNext
  <2>3. \A e \in Keep(h) : stored[e] <= stored'[e]
    BY DEF Keep, Dirs, ToSet, StoreTyped, Calm
  <2>4. Over(Keep(h)) /\ Cardinality(Keep(h) \ {h, Default}) >= PreserveRecent
    BY <2>1 DEF PlansHold, Excess, Old
  <2> QED BY <2>2, <2>3, <2>4, OverKept
<1>7. Excess' /\ Old'
  BY <1>6 DEF Excess, Old, Dirs
<1> QED BY <1>2, <1>3, <1>5, <1>7 DEF PlansHold

\* A removal: of the plans that name a directory, none keeps with it one that is removed.
LEMMA RemovalKeepsPlans ==
    ASSUME StoreTyped, StoreTyped', PlansHold, NEW x \in Collector, RemoveNext(x)
    PROVE  PlansHold'
<1> DEFINE h == Head(left[x])
<1>1. left \in [Collector -> Seq(Session)] /\ left[x] \in Seq(Session) /\ left[x] # <<>>
  BY DEF StoreTyped, RemoveNext
<1>2. \A y \in Collector : Distinct(left[y])
  BY DEF PlansHold, Sorted
<1>3. /\ h \in ToSet(left[x]) /\ Distinct(Tail(left[x]))
      /\ ToSet(Tail(left[x])) = ToSet(left[x]) \ {h}
      /\ \A a, b : Before(Tail(left[x]), a, b) => Before(left[x], a, b)
      /\ \A a \in ToSet(Tail(left[x])) : Before(left[x], h, a)
  BY <1>1, <1>2, OrderTail
<1>4. /\ ToSet(dirs') = Dirs \ {h}
      /\ \A a, b : Before(dirs', a, b) <=> a # h /\ b # h /\ Before(dirs, a, b)
  BY RemoveOne DEF RemoveNext
<1>5. stored' = [stored EXCEPT ![h] = 0] /\ aged' = aged \ {h}
      /\ left' = [left EXCEPT ![x] = Tail(@)]
  BY DEF RemoveNext
<1>6. h # Default
  BY <1>3 DEF PlansHold, Protected
<1> HIDE DEF h
<1>7. \A y \in Collector : left'[y] = IF y = x THEN Tail(left[x]) ELSE left[y]
  BY <1>1, <1>5
<1>8. \A y \in Collector :
          /\ Distinct(left'[y])
          /\ ToSet(left'[y]) \subseteq ToSet(left[y]) /\ ToSet(left[y]) \ {h} \subseteq ToSet(left'[y])
          /\ \A a, b : Before(left'[y], a, b) => Before(left[y], a, b)
  BY <1>2, <1>3, <1>7
<1>9. Protected'
  BY <1>8 DEF PlansHold, Protected
<1>10. Sorted'
  <2>1. ASSUME NEW y \in Collector, NEW d \in ToSet(dirs'), NEW e \in ToSet(dirs'),
               Before(left'[y], d, e)
        PROVE  Before(dirs', e, d)
    <3>1. d \in Dirs /\ e \in Dirs /\ d # h /\ e # h /\ Before(left[y], d, e)
      BY <1>4, <1>8, <2>1
    <3> QED BY <1>4, <3>1 DEF PlansHold, Sorted
  <2> QED BY <1>8, <2>1 DEF Sorted, Dirs
<1>11. Closed'
  <2>1. ASSUME NEW y \in Collector, NEW d \in ToSet(left'[y]) \cap ToSet(dirs'),
               NEW e \in ToSet(dirs') \ {Default}, Before(dirs', d, e)
        PROVE  e \in ToSet(left'[y])
    <3>1. d \in ToSet(left[y]) \cap Dirs /\ e \in Dirs \ {Default} /\ Before(dirs, d, e) /\ e # h
      BY <1>4, <1>8, <2>1
    <3>2. e \in ToSet(left[y])
      BY <3>1 DEF PlansHold, Closed
    <3> QED BY <1>8, <3>1, <3>2
  <2> QED BY <2>1 DEF Closed, Dirs
<1>12. ASSUME NEW y \in Collector, NEW d \in (ToSet(left'[y]) \cap ToSet(dirs')) \ aged'
       PROVE  Over(Keep(d))' /\ Cardinality(Keep(d)' \ {d, Default}) >= PreserveRecent
  <2>1. d \in (ToSet(left[y]) \cap Dirs) \ aged /\ d # h /\ d # Default
    BY <1>4, <1>5, <1>8 DEF PlansHold, Protected
  <2>2. ~Before(dirs, h, d)
    <3> SUFFICES ASSUME Before(dirs, h, d) PROVE FALSE
      OBVIOUS
    <3>1. h \in Dirs
      BY DEF Before, Dirs, ToSet
    <3>2. d \in ToSet(left[x])
      BY <1>3, <2>1, <3>1 DEF PlansHold, Closed
    <3>3. Before(left[x], h, d)
      BY <1>3, <2>1, <3>2
    <3>4. Before(dirs, d, h)
      BY <2>1, <3>1, <3>3 DEF PlansHold, Sorted
    <3> QED BY <2>1, <3>1, <3>4, OrderTotal DEF StoreTyped, Dirs
  <2>3. ASSUME NEW e \in Keep(d) PROVE e # h /\ e \in Keep(d)' /\ stored[e] <= stored'[e]
    <3>1. e \in Dirs /\ (e \in {d, Default} \/ Before(dirs, e, d))
      BY DEF Keep
    <3>2. e # h
      BY <1>6, <2>1, <2>2, <3>1
    <3>3. e \in Keep(d)'
      BY <1>4, <2>1, <3>1, <3>2, KeepNext
    <3>4. e \in Session
      BY <3>1 DEF Dirs, ToSet, StoreTyped
    <3>5. stored'[e] = stored[e] /\ stored[e] \in Nat
      BY <1>5, <3>2, <3>4 DEF StoreTyped
    <3> QED BY <3>2, <3>3, <3>5
  <2>4. Over(Keep(d)) /\ Cardinality(Keep(d) \ {d, Default}) >= PreserveRecent
    BY <2>1 DEF PlansHold, Excess, Old
  <2> QED BY <2>3, <2>4, OverKept
<1>13. Excess' /\ Old'
  BY <1>12 DEF Excess, Old, Dirs
<1> QED BY <1>9, <1>10, <1>11, <1>13 DEF PlansHold

\* Making a plan: what it names satisfies what is to hold of it.
LEMMA PlanningKeepsPlans ==
    ASSUME StoreTyped, StoreTyped', AgedLast, PlansHold, UNCHANGED <<dirs, stored, aged>>,
           NEW x \in Collector, NEW y, NEW plan \in Plans(y, Default),
           left' = [left EXCEPT ![x] = plan]
    PROVE  PlansHold'
<1>1. left \in [Collector -> Seq(Session)]
  BY DEF StoreTyped
<1>2. \A z \in Collector : left'[z] = IF z = x THEN plan ELSE left[z]
  BY <1>1
<1>3. plan = Candidates(dirs, Default) \/ plan = <<>>
  BY DEF Plans
<1>4. /\ Distinct(plan) /\ Default \notin ToSet(plan)
      /\ \A d, e : Before(plan, d, e) => Before(dirs, e, d)
      /\ \A d \in ToSet(plan) : \A e \in Dirs \ {Default} :
             Before(dirs, d, e) => e \in ToSet(plan)
  <2>1. CASE plan = <<>>
    BY <2>1 DEF Distinct, Before, ToSet
  <2>2. CASE plan = Candidates(dirs, Default)
    BY <2>2, PlanSorted
  <2> QED BY <1>3, <2>1, <2>2
<1>5. \A h \in ToSet(plan) \ aged :
          Over(Keep(h)) /\ Cardinality(Keep(h) \ {h, Default}) >= PreserveRecent
  <2>1. CASE plan = <<>>
    BY <2>1 DEF ToSet
  <2>2. CASE plan = Candidates(dirs, Default)
    BY <2>2, PlanNeeded
  <2> QED BY <1>3, <2>1, <2>2
<1>6. Protected'
  BY <1>2, <1>4 DEF PlansHold, Protected
<1>7. Sorted'
  BY <1>2, <1>4 DEF PlansHold, Sorted, Dirs
<1>8. Closed'
  BY <1>2, <1>4 DEF PlansHold, Closed, Dirs
<1>9. \A h : Keep(h)' = Keep(h) /\ (Over(Keep(h)) <=> Over(Keep(h))')
  BY KeepNext DEF Keep, Dirs
<1>10. ASSUME NEW z \in Collector, NEW h \in (ToSet(left'[z]) \cap Dirs) \ aged
       PROVE  Over(Keep(h))' /\ Cardinality(Keep(h)' \ {h, Default}) >= PreserveRecent
  <2>1. Over(Keep(h)) /\ Cardinality(Keep(h) \ {h, Default}) >= PreserveRecent
    BY <1>2, <1>5 DEF PlansHold, Excess, Old
  <2> QED BY <1>9, <2>1
<1>11. Excess' /\ Old'
  BY <1>10 DEF Excess, Old, Dirs
<1> QED BY <1>6, <1>7, <1>8, <1>11 DEF PlansHold

\* A step that leaves the store alone and gives no plan.
LEMMA QuietSteps ==
    ASSUME StoreTyped, StoreTyped', PlanInv, UNCHANGED <<dirs, stored, aged>>,
           \A x \in Collector : left'[x] \in {left[x], <<>>}
    PROVE  PlansHold' /\ AgedLast'
<1>1. Calm
  BY DEF Calm, StoreTyped, Dirs
<1>2. PlansHold'
  BY <1>1, CalmKeepsPlans DEF PlanInv, PlansHold
<1>3. AgedLast'
  BY DEF PlanInv, AgedLast, Dirs
<1> QED BY <1>2, <1>3

\* What the plans leave and the pointers point to, when only the session of the command
\* line runs turns.
LEMMA PlansNext ==
    OneWriter /\ StoreTyped /\ JobsFit /\ StoreTyped' /\ PlanInv /\ [CollectionNext]_allVars
        => PlanInv'
<1> SUFFICES ASSUME OneWriter, StoreTyped, JobsFit, StoreTyped', PlanInv,
                    [CollectionNext]_allVars
             PROVE  PlansHold' /\ AgedLast' /\ PointerFirst'
  BY DEF PlanInv, PlansHold
<1>0. /\ \A s \in Writers : s = Default /\ s \in Session /\ s \in Collector
      /\ \A p \in Proc : p \notin Writers /\ p \in Collector
  BY CollectionAssumption DEF OneWriter, Collector
<1>1. PlansHold /\ AgedLast /\ PointerFirst
  BY DEF PlanInv, PlansHold
<1>2. /\ left \in [Collector -> Seq(Session)] /\ dirs \in Seq(Session) /\ Distinct(dirs)
      /\ stored \in [Session -> Nat] /\ promised \in [Session -> 0..MaxResults]
      /\ job \in [Collector -> {"idle", "writing", "reporting", "planning", "removing"}]
      /\ MaxResults \in Nat
  BY CollectionAssumption DEF StoreTyped
<1>3. CASE Age
  <2>1. PICK i \in DOMAIN dirs : /\ \A j \in (i + 1)..Len(dirs) : dirs[j] \in aged
                                 /\ aged' = aged \cup {dirs[i]}
    BY <1>3 DEF Age
  <2>2. UNCHANGED <<dirs, stored, promised, job, left>>
    BY <1>3 DEF Age
  <2>3. Calm
    BY <1>2, <2>1, <2>2 DEF Calm, Dirs
  <2>4. PlansHold'
    BY <1>1, <2>3, CalmKeepsPlans
  <2>5. ASSUME NEW k \in DOMAIN dirs, NEW j \in DOMAIN dirs, k < j, dirs[k] = dirs[i]
        PROVE  dirs[j] \in aged
    <3>1. k = i
      BY <1>2, <2>5 DEF Distinct
    <3>2. j \in (i + 1)..Len(dirs)
      BY <1>2, <2>5, <3>1
    <3> QED BY <2>1, <3>2
  <2>6. AgedLast'
    BY <1>1, <2>1, <2>2, <2>5 DEF AgedLast, Dirs, Before
  <2>7. PointerFirst'
    BY <1>1, <2>2 DEF PointerFirst
  <2> QED BY <2>4, <2>6, <2>7
<1>4. ASSUME NEW x \in Collector, RemoveNext(x)
      PROVE  PlansHold' /\ AgedLast' /\ PointerFirst'
  <2> DEFINE h == Head(left[x])
  <2>1. PlansHold'
    BY <1>1, <1>4, RemovalKeepsPlans
  <2>2. h # Default
    <3>1. h \in ToSet(left[x])
      BY <1>1, <1>2, <1>4, OrderTail DEF RemoveNext, PlansHold, Sorted
    <3> QED BY <1>1, <3>1 DEF PlansHold, Protected
  <2>3. /\ ToSet(dirs') = Dirs \ {h}
        /\ \A a, b : Before(dirs', a, b) <=> a # h /\ b # h /\ Before(dirs, a, b)
    BY <1>4, RemoveOne DEF RemoveNext
  <2>4. stored' = [stored EXCEPT ![h] = 0] /\ aged' = aged \ {h} /\ UNCHANGED <<promised, job>>
    BY <1>4 DEF RemoveNext
  <2> HIDE DEF h
  <2>5. AgedLast'
    <3> SUFFICES ASSUME NEW d \in ToSet(dirs'), NEW e \in ToSet(dirs'), d \in aged',
                        Before(dirs', d, e)
                 PROVE  e \in aged' \cup {Default}
      BY DEF AgedLast, Dirs
    <3>1. d \in Dirs /\ e \in Dirs /\ d \in aged /\ Before(dirs, d, e) /\ e # h
      BY <2>3, <2>4
    <3> QED BY <1>1, <2>4, <3>1 DEF AgedLast
  <2>6. PointerFirst'
    BY <1>0, <1>1, <1>2, <2>2, <2>4 DEF PointerFirst
  <2> QED BY <2>1, <2>5, <2>6
<1>5. ASSUME NEW s \in Writers, MakeDirectory(s)
      PROVE  PlansHold' /\ AgedLast' /\ PointerFirst'
  <2>1. /\ UNCHANGED <<stored, promised, left>>
        /\ job' = [job EXCEPT ![s] = "writing"]
    BY <1>5 DEF MakeDirectory
  <2>2. PointerFirst'
    BY <1>0, <1>1, <1>2, <2>1 DEF PointerFirst
  <2>3. CASE UNCHANGED <<dirs, aged>>
    <3>1. PlansHold' /\ AgedLast'
      BY <2>1, <2>3, QuietSteps
    <3> QED BY <2>2, <3>1
  <2>4. CASE dirs' = <<s>> \o Only(dirs, Session \ {s}) /\ aged' = aged \ {s}
    <3>1. /\ ToSet(dirs') = Dirs \cup {s}
          /\ \A a, b : a # s => (Before(dirs', a, b) <=> b # s /\ Before(dirs, a, b))
      BY <1>0, <2>4, TouchOne
    <3>2. Calm
      <4>1. \A t \in Session : stored[t] <= stored'[t]
        BY <1>2, <2>1
      <4>2. \A a, b : a # Default /\ b # Default => (Before(dirs', a, b) <=> Before(dirs, a, b))
        BY <1>0, <3>1
      <4> QED BY <1>0, <2>1, <2>4, <3>1, <4>1, <4>2 DEF Calm
    <3>3. PlansHold'
      BY <1>1, <3>2, CalmKeepsPlans
    <3>4. AgedLast'
      <4> SUFFICES ASSUME NEW d \in ToSet(dirs'), NEW e \in ToSet(dirs'), d \in aged',
                          Before(dirs', d, e)
                   PROVE  e \in aged'
        BY DEF AgedLast, Dirs
      <4>1. d \in Dirs /\ d # s /\ e \in Dirs /\ e # s /\ Before(dirs, d, e) /\ d \in aged
        BY <2>4, <3>1
      <4> QED BY <1>0, <1>1, <2>4, <4>1 DEF AgedLast
    <3> QED BY <2>2, <3>3, <3>4
  <2> QED BY <1>5, <2>3, <2>4 DEF MakeDirectory
<1>6. ASSUME NEW s \in Writers, WriteResult(s)
      PROVE  PlansHold' /\ AgedLast' /\ PointerFirst'
  <2>1. UNCHANGED <<dirs, aged, promised, left>> /\ job[s] = "writing"
    BY <1>6 DEF WriteResult
  <2>2. \/ stored' = [stored EXCEPT ![s] = @ + 1] /\ job' = [job EXCEPT ![s] = "planning"]
        \/ stored' = stored /\ job' = [job EXCEPT ![s] = "idle"]
    BY <1>6 DEF WriteResult
  <2>3. \A t \in Session : stored[t] <= stored'[t]
    <3> SUFFICES ASSUME NEW t \in Session PROVE stored[t] <= stored'[t]
      OBVIOUS
    <3>1. stored[t] \in Nat /\ stored'[t] \in {stored[t], stored[t] + 1}
      BY <1>2, <2>2
    <3> QED BY <3>1
  <2>4. Calm
    BY <2>1, <2>3 DEF Calm, Dirs
  <2>5. PlansHold'
    BY <1>1, <2>4, CalmKeepsPlans
  <2>6. AgedLast'
    BY <1>1, <2>1 DEF AgedLast, Dirs
  <2>7. PointerFirst'
    BY <1>0, <1>1, <1>2, <2>1, <2>2 DEF PointerFirst
  <2> QED BY <2>5, <2>6, <2>7
<1>7. ASSUME NEW s \in Writers, PlanCleanup(s)
      PROVE  PlansHold' /\ AgedLast' /\ PointerFirst'
  <2>1. UNCHANGED <<dirs, stored, aged, promised>> /\ job[s] = "planning"
        /\ job' = [job EXCEPT ![s] = "removing"]
    BY <1>7 DEF PlanCleanup
  <2>2. PICK plan \in Plans(s, Default) : left' = [left EXCEPT ![s] = plan]
    BY <1>0, <1>7 DEF PlanCleanup
  <2>3. PlansHold'
    BY <1>0, <1>1, <2>1, <2>2, PlanningKeepsPlans
  <2>4. AgedLast'
    BY <1>1, <2>1 DEF AgedLast, Dirs
  <2>5. PointerFirst'
    BY <1>0, <1>1, <1>2, <2>1 DEF PointerFirst
  <2> QED BY <2>3, <2>4, <2>5
<1>8. ASSUME NEW s \in Writers, ReturnPointer(s) \/ CleanupFails(s)
      PROVE  PlansHold' /\ AgedLast' /\ PointerFirst'
  <2>1. /\ UNCHANGED <<dirs, stored, aged>> /\ job[s] \in {"planning", "removing"}
        /\ job' = [job EXCEPT ![s] = "idle"]
        /\ promised' \in {promised, [promised EXCEPT ![s] = @ + 1]}
        /\ left' \in {left, [left EXCEPT ![s] = <<>>]}
    BY <1>8 DEF ReturnPointer, CleanupFails
  <2>2. PlansHold' /\ AgedLast'
    <3>1. \A x \in Collector : left'[x] \in {left[x], <<>>}
      BY <1>2, <2>1
    <3> QED BY <2>1, <3>1, QuietSteps
  <2>3. PointerFirst'
    BY <1>0, <1>1, <1>2, <2>1 DEF PointerFirst
  <2> QED BY <2>2, <2>3
<1>9. ASSUME NEW p \in Proc, DaemonStep(p) \/ DaemonRun(p) \/ EndRun(p)
      PROVE  PlansHold' /\ AgedLast' /\ PointerFirst'
  <2>1. /\ UNCHANGED <<dirs, stored, aged, promised>>
        /\ left' \in {left, [left EXCEPT ![p] = <<>>]}
        /\ job' = job \/ \E j : job' = [job EXCEPT ![p] = j]
    BY <1>9 DEF DaemonStep, DaemonRun, StartRun, EndRun, storeVars
  <2>2. PlansHold' /\ AgedLast'
    <3>1. \A x \in Collector : left'[x] \in {left[x], <<>>}
      BY <1>2, <2>1
    <3> QED BY <2>1, <3>1, QuietSteps
  <2>3. PointerFirst'
    BY <1>0, <1>1, <1>2, <2>1 DEF PointerFirst
  <2> QED BY <2>2, <2>3
<1>10. ASSUME NEW p \in Proc, PlanRun(p)
       PROVE  PlansHold' /\ AgedLast' /\ PointerFirst'
  <2>1. UNCHANGED <<dirs, stored, aged, promised>>
    BY <1>10 DEF PlanRun
  <2>2. PICK plan \in Plans(p, Default) :
            \/ /\ \E j : job' = [job EXCEPT ![p] = j]
               /\ UNCHANGED left
            \/ /\ job' = [job EXCEPT ![p] = "removing"]
               /\ left' = [left EXCEPT ![p] = plan]
    BY <1>10 DEF PlanRun
  <2>3. PlansHold'
    <3>1. CASE UNCHANGED left
      BY <2>1, <3>1, QuietSteps
    <3>2. CASE left' = [left EXCEPT ![p] = plan]
      BY <1>0, <1>1, <2>1, <3>2, PlanningKeepsPlans
    <3> QED BY <2>2, <3>1, <3>2
  <2>4. AgedLast'
    BY <1>1, <2>1 DEF AgedLast, Dirs
  <2>5. PointerFirst'
    BY <1>0, <1>1, <1>2, <2>1, <2>2 DEF PointerFirst
  <2> QED BY <2>3, <2>4, <2>5
<1>11. CASE UNCHANGED allVars
  <2>1. UNCHANGED <<dirs, stored, aged, promised, job, left>>
    BY <1>11 DEF allVars, storeVars
  <2> QED BY <1>1, <2>1, QuietSteps DEF PointerFirst
<1> QED BY <1>3, <1>4, <1>5, <1>6, <1>7, <1>8, <1>9, <1>10, <1>11 DEF CollectionNext

LEMMA PlansInit == CollectionInit => PlanInv
<1> SUFFICES ASSUME CollectionInit PROVE PlanInv
  OBVIOUS
<1>1. \A x \in Collector : left[x] = <<>> /\ job[x] = "idle"
  BY DEF CollectionInit
<1>2. \A x \in Collector : ToSet(left[x]) = {} /\ Distinct(left[x])
                           /\ \A a, b : ~Before(left[x], a, b)
  BY <1>1 DEF ToSet, Distinct, Before
<1>3. aged = {} /\ \A s \in Session : promised[s] = 0 /\ stored[s] \in Nat
  BY DEF CollectionInit
<1>4. Writers \subseteq Collector /\ Writers \subseteq Session
  BY CollectionAssumption DEF Collector
<1>5. PointerFirst
  BY <1>1, <1>3, <1>4 DEF PointerFirst
<1> QED BY <1>2, <1>3, <1>5 DEF PlanInv, Protected, AgedLast, Sorted, Closed, Excess, Old

\* The invariant, with the types.
AllInv == TypeOK /\ Acquiring /\ StoreInv

LEMMA AllInvHolds ==
    /\ CollectionInit /\ OneWriter => AllInv
    /\ OneWriter /\ AllInv /\ [CollectionNext]_allVars => AllInv'
<1>1. CollectionInit => AllInv
  BY StoreInit, PlansInit, TypeInit DEF CollectionInit, AllInv, StoreInv
<1>2. OneWriter /\ AllInv /\ [CollectionNext]_allVars => AllInv'
  BY StoreNext, PlansNext, StepOfDaemons, TypeNext DEF AllInv, StoreInv
<1> QED BY <1>1, <1>2
-----------------------------------------------------------------------------
(* What is collected. *)

\* The pointers that the model was given can be read, whatever the daemons collect
\* beside the session of the command line (PointersResolve).
THEOREM PointersHold == OneWriter => (CollectionSpec => []PointersResolve)
<1> SUFFICES ASSUME OneWriter PROVE CollectionSpec => []PointersResolve
  OBVIOUS
<1>1. CollectionInit => AllInv
  BY AllInvHolds
<1>2. AllInv /\ [CollectionNext]_allVars => AllInv'
  BY AllInvHolds
<1>3. AllInv => PointersResolve
  BY DEF AllInv, StoreInv, PlanInv, PointerFirst, PointersResolve
<1> QED BY <1>1, <1>2, <1>3, PTL DEF CollectionSpec

\* A directory goes as the next of a plan.
LEMMA GoesByPlan ==
    ASSUME StoreTyped, Sorted, [CollectionNext]_allVars,
           NEW s \in Dirs, s \notin ToSet(dirs')
    PROVE  \E x \in Collector : s \in ToSet(left[x])
<1>1. PICK x \in Collector : RemoveNext(x)
  <2>1. \A t \in Writers : ~MakeDirectory(t)
    <3> SUFFICES ASSUME NEW t \in Writers, MakeDirectory(t) PROVE FALSE
      OBVIOUS
    <3>1. t \in Session
      BY CollectionAssumption
    <3>2. dirs' = dirs \/ dirs' = <<t>> \o Only(dirs, Session \ {t})
      BY DEF MakeDirectory
    <3> QED BY <3>1, <3>2, TouchOne DEF Dirs
  <2>2. dirs' # dirs
    BY DEF Dirs
  <2> QED BY <2>1, <2>2 DEF CollectionNext, Age, WriteResult, PlanCleanup, ReturnPointer,
             CleanupFails, DaemonStep, DaemonRun, PlanRun, EndRun, storeVars, allVars
<1>2. ToSet(dirs') = Dirs \ {Head(left[x])}
  BY <1>1, RemoveOne DEF RemoveNext
<1>3. Head(left[x]) \in ToSet(left[x])
  BY <1>1, OrderTail DEF RemoveNext, Sorted, StoreTyped
<1> QED BY <1>2, <1>3

\* The directories are over a quota if those that are kept with one of them are.
LEMMA OverAll ==
    ASSUME StoreTyped, NEW h, Over(Keep(h))
    PROVE  Len(dirs) > MaxSessionDirs \/ Bytes(ToSet(dirs)) > MaxTotalBytes
<1> DEFINE K == Keep(h)
           D == ToSet(dirs)
<1>1. /\ dirs \in Seq(Session) /\ Distinct(dirs) /\ stored \in [Session -> Nat]
      /\ MaxSessionDirs \in Nat /\ MaxTotalBytes \in Nat
  BY CollectionAssumption DEF StoreTyped
<1>2. K \subseteq D /\ K \in SUBSET Session /\ D \in SUBSET Session
  BY <1>1 DEF Keep, Dirs, ToSet
<1>3. Cardinality(D) = Len(dirs)
  <2>1. Len(dirs) \in 0..Len(dirs) /\ D = {dirs[i] : i \in 1..Len(dirs)}
    BY <1>1 DEF ToSet
  <2> HIDE DEF D
  <2> QED BY <1>1, <2>1, CountDistinct
<1>4. Bytes(K) = SumOf(stored, K) /\ Bytes(D) = SumOf(stored, D)
  BY BytesAreSums
<1>5. Over(K)
  OBVIOUS
<1> HIDE DEF K, D
<1>6. /\ Cardinality(K) \in Nat /\ Cardinality(D) \in Nat /\ Cardinality(K) <= Cardinality(D)
  BY <1>2, CollectionAssumption, FS_Subset, FS_CardinalityType
<1>7. \A x \in K : stored[x] <= stored[x]
  BY <1>1, <1>2
<1>8. Bytes(K) \in Nat /\ Bytes(D) \in Nat /\ Bytes(K) <= Bytes(D)
  BY <1>1, <1>2, <1>4, <1>7, SumGrows, SumWithout
<1>9. Cardinality(D) > MaxSessionDirs \/ Bytes(D) > MaxTotalBytes
  BY <1>1, <1>5, <1>6, <1>8 DEF Over
<1> QED BY <1>3, <1>9 DEF D

\* However the runs and the cleanups interleave, a directory that has not aged goes only
\* while the directories exceed a quota (NoOverCollection).
THEOREM OnlyExcessCollected == OneWriter => (CollectionSpec => NoOverCollection)
<1> SUFFICES ASSUME OneWriter PROVE CollectionSpec => NoOverCollection
  OBVIOUS
<1> DEFINE Step1 == \A s \in Session :
                       s \in ToSet(dirs) \ aged /\ s \notin ToSet(dirs')
                          => Len(dirs) > MaxSessionDirs \/ Bytes(ToSet(dirs)) > MaxTotalBytes
<1>1. CollectionInit => AllInv
  BY AllInvHolds
<1>2. AllInv /\ [CollectionNext]_allVars => AllInv'
  BY AllInvHolds
<1>3. AllInv /\ [CollectionNext]_allVars => [Step1]_allVars
  <2> SUFFICES ASSUME AllInv, [CollectionNext]_allVars,
                      NEW s \in Session, s \in ToSet(dirs) \ aged, s \notin ToSet(dirs')
               PROVE  Len(dirs) > MaxSessionDirs \/ Bytes(ToSet(dirs)) > MaxTotalBytes
    OBVIOUS
  <2>1. StoreTyped /\ Sorted /\ Excess
    BY DEF AllInv, StoreInv, PlanInv
  <2>2. PICK x \in Collector : s \in ToSet(left[x])
    BY <2>1, GoesByPlan DEF Dirs
  <2>3. Over(Keep(s))
    BY <2>1, <2>2 DEF Excess, Dirs
  <2> QED BY <2>1, <2>3, OverAll
<1> QED BY <1>1, <1>2, <1>3, PTL DEF CollectionSpec, NoOverCollection

\* What is kept with a directory, but for the protected one, stands before it.
LEMMA NewerCounted ==
    ASSUME StoreTyped, NEW s \in Dirs
    PROVE  \E i \in DOMAIN dirs :
              /\ dirs[i] = s
              /\ Cardinality(Keep(s) \ {s, Default})
                    <= Cardinality({j \in 1..(i - 1) : dirs[j] # Default})
              /\ Cardinality(Keep(s) \ {s, Default}) \in Nat
              /\ Cardinality({j \in 1..(i - 1) : dirs[j] # Default}) \in Nat
<1>1. dirs \in Seq(Session) /\ Distinct(dirs)
  BY DEF StoreTyped
<1>2. DOMAIN dirs = 1..Len(dirs) /\ Len(dirs) \in Nat
  BY <1>1
<1>3. PICK i \in DOMAIN dirs : dirs[i] = s
  BY DEF Dirs, ToSet
<1> DEFINE J == {j \in 1..(i - 1) : dirs[j] # Default}
           K == Keep(s) \ {s, Default}
           f == [j \in J |-> dirs[j]]
<1>4. \A j \in J : j \in DOMAIN dirs /\ j < i
  BY <1>2, <1>3
<1>5. \A j \in J : f[j] = dirs[j] /\ dirs[j] \in K
  <2> SUFFICES ASSUME NEW j \in J PROVE dirs[j] \in K
    OBVIOUS
  <2>1. dirs[j] # s /\ dirs[j] # Default /\ dirs[j] \in Dirs
    BY <1>1, <1>2, <1>3, <1>4 DEF Distinct, Dirs, ToSet
  <2>2. Before(dirs, dirs[j], s)
    BY <1>3, <1>4 DEF Before
  <2> QED BY <2>1, <2>2 DEF Keep
<1>6. \A e \in K : \E j \in J : f[j] = e
  <2> SUFFICES ASSUME NEW e \in K PROVE \E j \in J : dirs[j] = e
    OBVIOUS
  <2>1. PICK j \in DOMAIN dirs, k \in DOMAIN dirs : j < k /\ dirs[j] = e /\ dirs[k] = s
    BY DEF Keep, Before
  <2>2. k = i
    BY <1>1, <1>3, <2>1 DEF Distinct
  <2> QED BY <1>2, <2>1, <2>2
<1>7. IsFiniteSet(J)
  <2>1. IsFiniteSet(1..(i - 1))
    BY <1>2, FS_Interval
  <2>2. J \in SUBSET (1..(i - 1))
    OBVIOUS
  <2> HIDE DEF J
  <2> QED BY <2>1, <2>2, FS_Subset
<1>8. f \in [J -> K]
  BY <1>5
<1> HIDE DEF J, K, f
<1>9. f \in Surjection(J, K)
  BY <1>6, <1>8 DEF Surjection
<1>10. IsFiniteSet(K) /\ Cardinality(K) <= Cardinality(J)
  BY <1>7, <1>9, FS_Surjection
<1>11. Cardinality(K) \in Nat /\ Cardinality(J) \in Nat
  BY <1>7, <1>10, FS_CardinalityType
<1> QED BY <1>3, <1>10, <1>11 DEF J, K

\* ...and only while as many others as are to be preserved are newer (RecentKept).
THEOREM LatestKept == OneWriter => (CollectionSpec => RecentKept)
<1> SUFFICES ASSUME OneWriter PROVE CollectionSpec => RecentKept
  OBVIOUS
<1> DEFINE Step2 == \A s \in Session :
             s \in ToSet(dirs) \ aged /\ s \notin ToSet(dirs')
                => \E i \in DOMAIN dirs :
                    /\ dirs[i] = s
                    /\ Cardinality({j \in 1..(i - 1) : dirs[j] # Default}) >= PreserveRecent
<1>1. CollectionInit => AllInv
  BY AllInvHolds
<1>2. AllInv /\ [CollectionNext]_allVars => AllInv'
  BY AllInvHolds
<1>3. AllInv /\ [CollectionNext]_allVars => [Step2]_allVars
  <2> SUFFICES ASSUME AllInv, [CollectionNext]_allVars,
                      NEW s \in Session, s \in ToSet(dirs) \ aged, s \notin ToSet(dirs')
               PROVE  \E i \in DOMAIN dirs :
                         /\ dirs[i] = s
                         /\ Cardinality({j \in 1..(i - 1) : dirs[j] # Default}) >= PreserveRecent
    OBVIOUS
  <2>1. StoreTyped /\ Sorted /\ Old
    BY DEF AllInv, StoreInv, PlanInv
  <2>2. PICK x \in Collector : s \in ToSet(left[x])
    BY <2>1, GoesByPlan DEF Dirs
  <2>3. Cardinality(Keep(s) \ {s, Default}) >= PreserveRecent
    BY <2>1, <2>2 DEF Old, Dirs
  <2>4. PICK i \in DOMAIN dirs :
              /\ dirs[i] = s
              /\ Cardinality(Keep(s) \ {s, Default})
                    <= Cardinality({j \in 1..(i - 1) : dirs[j] # Default})
              /\ Cardinality(Keep(s) \ {s, Default}) \in Nat
              /\ Cardinality({j \in 1..(i - 1) : dirs[j] # Default}) \in Nat
    BY <2>1, NewerCounted DEF Dirs
  <2> DEFINE k == Cardinality(Keep(s) \ {s, Default})
             n == Cardinality({j \in 1..(i - 1) : dirs[j] # Default})
  <2>5. PreserveRecent \in Nat /\ k \in Nat /\ n \in Nat /\ k >= PreserveRecent /\ k <= n
    BY <2>3, <2>4, CollectionAssumption
  <2>6. n >= PreserveRecent
    <3> HIDE DEF k, n
    <3> QED BY <2>5
  <2> QED BY <2>4, <2>6
<1> QED BY <1>1, <1>2, <1>3, PTL DEF CollectionSpec, RecentKept
=============================================================================
