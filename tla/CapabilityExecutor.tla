------------------------- MODULE CapabilityExecutor -------------------------
(***************************************************************************)
(* capability-executor.ts: one executor makes sure that there is a desktop  *)
(* server (ensureReady), runs a capability against it (execute), and        *)
(* disposes of its service, while a panel and crashes interfere with the    *)
(* server they share.  A call of the desktop server throws while no server  *)
(* listens at the endpoint; the tools and capabilities go on from there as  *)
(* they do.                                                                 *)
(*                                                                          *)
(* Bound (Quiet): a capability is run only on the first server spawned, and *)
(* in such a behaviour the other clients stay as they are and no client     *)
(* crashes; the server may die at any time.                                 *)
(***************************************************************************)
EXTENDS CapabilityRuns, DesktopService

CONSTANT Runner         \* the executor that runs a capability

ASSUME RunnerAssumption == Runner \in Executor

execVars == <<input, stack, result, selected, haveText, front, clipboard, copies, enters,
              confirmed, doubted, pastedOther,
              at, config, spawned, child, parent, current, owned, tried, restarts, after>>

ExecInit == RunInit /\ ServiceInit

\* The calls that WindowsMcpAdapter.ts hands to the desktop server.
ServerCalls == {"Snapshot", "Screenshot", "AppSwitch", "AppLaunch", "AppList", "ShellLaunch",
                "Click", "ClipboardSet", "ClipboardGet", "AddressBar", "Paste", "Enter",
                "FileInfo", "Type", "TypeOver", "TypePath", "open_file"}

Unreachable == Calls(ServerCalls) /\ ~Endpoint

\* A call that finds no server: it throws, which for some is as good as a failure.
CallFails ==
    /\ Unreachable
    /\ stack' \in {Advance(stack, "no"), Advance(stack, "thrown")}
    /\ UNCHANGED <<input, result, selected, haveText, desktop, serviceVars>>

Quiet ==
    /\ spawned <= 1
    /\ \A c \in Client \ {Runner} : at[c] \in {"idle", "ready"} /\ restarts[c] = 0

\* execute: the capability once ensureReady has not thrown, its answer afterwards.
RunStep ==
    /\ at[Runner] = "ready" /\ Quiet /\ ~Unreachable
    /\ RunNext
    /\ UNCHANGED serviceVars

\* The executor disposes when execute has returned; so does one without a capability
\* to run.
RunnerFinishes == ~Running /\ Finish(Runner) /\ UNCHANGED runVars

\* What a client may do: all of it, or in a behaviour with a capability run only what
\* the executor of the run does to dispose.
ClientStep(c) ==
    \/ GoOn(c) /\ (input.chain = "none" \/ c = Runner)
    \/ input.chain = "none" /\ (ReadConfig(c) \/ Crash(c) \/ (c # Runner /\ Finish(c)))

ServiceStep ==
    /\ UNCHANGED runVars
    /\ \/ \E c \in Client : ClientStep(c)
       \/ \E k \in Child : Serve(k) \/ Die(k)

ExecNext == RunStep \/ CallFails \/ RunnerFinishes \/ ServiceStep

\* Every process goes on, a run of its tools included; nothing makes a user restart a
\* service, a server come up or anything die.
ExecSpec ==
    /\ ExecInit /\ [][ExecNext]_execVars
    /\ WF_execVars(Running /\ (RunStep \/ CallFails))
    /\ WF_execVars(RunnerFinishes)
    /\ \A c \in Client : WF_execVars(GoOn(c) /\ UNCHANGED runVars)

----------------------------------------------------------------------------
\* The variables of the run and of the service stay in their sets.
ExecutorTypeOK == RunTypeOK /\ ServiceTypeOK

\* An executor that has got its server lets go of it in the end: whatever a chain
\* meets, the server's death included, it ends, and the service is disposed of.
ExecutorEnds == (at[Runner] = "ready") ~> (at[Runner] \in {"ended", "crashed"})
=============================================================================
