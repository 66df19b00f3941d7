--------------------------- MODULE DesktopService ---------------------------
(***************************************************************************)
(* WindowsMcpService.ts and WindowsMcpLauncher.ts: how a process of the     *)
(* program gets hold of the desktop server and lets go of it.  Every client *)
(* is a process with a service of its own; they share the endpoint, where   *)
(* at most one server can listen, and the configuration file, which is      *)
(* rewritten in place.                                                      *)
(*                                                                          *)
(* An executor makes sure that the desktop server is there, uses it and     *)
(* disposes of its service (windowsMcpRuntime.ts, dev.ts and the launcher   *)
(* of the panel).  A panel never does either: it restarts the service when  *)
(* its user asks for it (systemProductFlow.ts).                             *)
(*                                                                          *)
(* Bounds: a client has one request at a time; a panel restarts Restarts    *)
(* times; MaxChildren processes are spawned.  A server that is told to stop *)
(* stops.                                                                   *)
(***************************************************************************)
EXTENDS Naturals

CONSTANTS Executor, Panel,  \* processes with a service
          Crashing,         \* clients that may crash
          MaxChildren,
          Candidates,       \* commands the launcher tries
          Restarts

ASSUME ServiceAssumption ==
    /\ Executor # {} /\ Executor \cap Panel = {}
    /\ MaxChildren \in Nat /\ Candidates \in Nat \ {0} /\ Restarts \in Nat

VARIABLES at,           \* where each client is
          config,       \* "whole", or "torn" while it is rewritten
          spawned,      \* server processes spawned so far
          child,        \* state of each server process
          parent,       \* client that spawned it
          current,      \* child the client is starting or stopping
          owned,        \* ownedServer
          tried,        \* candidates the launcher has tried
          restarts,     \* restarts so far
          after         \* where a client goes when its child has been stopped

serviceVars == <<at, config, spawned, child, parent, current, owned, tried, restarts, after>>

Client == Executor \cup Panel
Child == 1..MaxChildren
NoChild == 0

Alive(k) == child[k] \in {"starting", "serving"}
Endpoint == \E k \in Child : child[k] = "serving"
GoTo(c, there) == at' = [at EXCEPT ![c] = there]

ServiceInit ==
    /\ at = [c \in Client |-> IF c \in Executor THEN "idle" ELSE "ready"]
    /\ config = "whole"
    /\ spawned = 0 /\ child = [k \in Child |-> "none"]
    /\ parent = [k \in Child |-> CHOOSE c \in Executor : TRUE]
    /\ current = [c \in Client |-> NoChild] /\ owned = [c \in Client |-> NoChild]
    /\ tried = [c \in Client |-> 0] /\ restarts = [c \in Client |-> 0]
    /\ after = [c \in Client |-> "spawn"]

\* Where an attempt to get a server ends that was not successful: an executor
\* disposes of its service and gives up, a panel shows the status.
GivenUp(c) == IF c \in Executor THEN "dispose" ELSE "ready"

----------------------------------------------------------------------------
\* saveConfig reads the file, which throws when it is torn, and rewrites it.  An
\* executor starts with it (ensureReady), and a panel for every restart.

ReadConfig(c) ==
    /\ \/ c \in Executor /\ at[c] = "idle" /\ UNCHANGED restarts
       \/ /\ c \in Panel /\ at[c] = "ready" /\ restarts[c] < Restarts
          /\ restarts' = [restarts EXCEPT ![c] = @ + 1]
    /\ GoTo(c, IF config = "whole" THEN "truncate"
               ELSE IF c \in Executor THEN "ended" ELSE "ready")
    /\ UNCHANGED <<config, spawned, child, parent, current, owned, tried, after>>

TruncateConfig(c) ==
    /\ at[c] = "truncate"
    /\ config' = "torn"
    /\ GoTo(c, "write")
    /\ UNCHANGED <<spawned, child, parent, current, owned, tried, restarts, after>>

WriteConfig(c) ==
    /\ at[c] = "write"
    /\ config' = "whole"
    /\ GoTo(c, IF c \in Executor THEN "check" ELSE "restart")
    /\ UNCHANGED <<spawned, child, parent, current, owned, tried, restarts, after>>

\* healthcheck reads the configuration again, then asks the endpoint.  A ready
\* endpoint is used, whoever serves it; launchIfNeeded decides about the rest.
Healthcheck(c) ==
    /\ at[c] = "check"
    /\ \E there \in IF config = "torn" THEN {"ended"}
                    ELSE IF Endpoint THEN {"ready"} ELSE {"spawn", "dispose"} : GoTo(c, there)
    /\ UNCHANGED <<config, spawned, child, parent, current, owned, tried, restarts, after>>

----------------------------------------------------------------------------
\* WindowsMcpLauncher.start: one candidate after the other.

\* Mutant: the end of the candidates is missed.
BrokenSpawn(c) ==
    /\ at[c] = "spawn"
    /\ tried' = [tried EXCEPT ![c] = @ + 1]
    /\ UNCHANGED <<at, spawned, child, parent, current, config, owned, restarts, after>>

Spawn(c) ==
    /\ at[c] = "spawn" /\ tried[c] < Candidates
    /\ tried' = [tried EXCEPT ![c] = @ + 1]
    /\ \/ /\ spawned < MaxChildren
          /\ spawned' = spawned + 1
          /\ child' = [child EXCEPT ![spawned'] = "starting"]
          /\ parent' = [parent EXCEPT ![spawned'] = c]
          /\ current' = [current EXCEPT ![c] = spawned']
          /\ GoTo(c, "settle")
       \/ UNCHANGED <<at, spawned, child, parent, current>>   \* it cannot be run
    /\ UNCHANGED <<config, owned, restarts, after>>

\* No candidate is left: start throws, and the status is failed.
LaunchFails(c) ==
    /\ at[c] = "spawn" /\ tried[c] = Candidates
    /\ tried' = [tried EXCEPT ![c] = 0]
    /\ GoTo(c, GivenUp(c))
    /\ UNCHANGED <<config, spawned, child, parent, current, owned, restarts, after>>

\* waitForProcessOrError: a child that has exited within half a second is given up.
Settle(c) ==
    /\ at[c] = "settle"
    /\ IF Alive(current[c])
         THEN GoTo(c, "wait") /\ UNCHANGED current
         ELSE GoTo(c, "spawn") /\ current' = [current EXCEPT ![c] = NoChild]
    /\ UNCHANGED <<config, spawned, child, parent, owned, tried, restarts, after>>

\* waitForReady is content with any server at the endpoint, even when its own child
\* has lost the endpoint to the server of another client and exited.
BecomeReady(c) ==
    /\ at[c] = "wait" /\ Endpoint
    /\ owned' = [owned EXCEPT ![c] = current[c]]
    /\ current' = [current EXCEPT ![c] = NoChild]
    /\ tried' = [tried EXCEPT ![c] = 0]
    /\ GoTo(c, "probe")
    /\ UNCHANGED <<config, spawned, child, parent, restarts, after>>

\* Mutant: the next candidate is tried beside the one that is not ready.
BrokenStartTimesOut(c) ==
    /\ at[c] = "wait" /\ ~Endpoint
    /\ GoTo(c, "spawn")
    /\ UNCHANGED <<config, spawned, child, parent, current, owned, tried, restarts, after>>

StartTimesOut(c) ==
    /\ at[c] = "wait" /\ ~Endpoint
    /\ GoTo(c, "stop")
    /\ after' = [after EXCEPT ![c] = "spawn"]
    /\ UNCHANGED <<config, spawned, child, parent, current, owned, tried, restarts>>

\* The probe at the end of startWithConfig.
Probe(c) ==
    /\ at[c] = "probe"
    /\ GoTo(c, IF Endpoint THEN "ready" ELSE GivenUp(c))
    /\ UNCHANGED <<config, spawned, child, parent, current, owned, tried, restarts, after>>

----------------------------------------------------------------------------
\* Letting go.

\* stopOwnedServer clears the field before it waits for the child.
StopOwned(c, next) ==
    /\ current' = [current EXCEPT ![c] = owned[c]]
    /\ owned' = [owned EXCEPT ![c] = NoChild]
    /\ after' = [after EXCEPT ![c] = next]
    /\ GoTo(c, "stop")

StopChild(c) ==
    /\ at[c] = "stop"
    /\ child' = [k \in Child |-> IF k = current[c] /\ Alive(k) THEN "dead" ELSE child[k]]
    /\ current' = [current EXCEPT ![c] = NoChild]
    /\ GoTo(c, after[c])
    /\ UNCHANGED <<config, spawned, parent, owned, tried, restarts, after>>

StopForRestart(c) ==
    /\ at[c] = "restart"
    /\ StopOwned(c, "spawn")
    /\ UNCHANGED <<config, spawned, child, parent, tried, restarts>>

\* The executor has done its work.
Finish(c) ==
    /\ c \in Executor /\ at[c] = "ready"
    /\ GoTo(c, "dispose")
    /\ UNCHANGED <<config, spawned, child, parent, current, owned, tried, restarts, after>>

\* dispose stops the child first; that it throws over a torn configuration after
\* that changes nothing.
Dispose(c) ==
    /\ at[c] = "dispose"
    /\ StopOwned(c, "ended")
    /\ UNCHANGED <<config, spawned, child, parent, tried, restarts>>

\* A client is killed: what it has spawned goes on without it.
Crash(c) ==
    /\ c \in Crashing /\ at[c] \notin {"ended", "crashed"}
    /\ GoTo(c, "crashed")
    /\ UNCHANGED <<config, spawned, child, parent, current, owned, tried, restarts, after>>

----------------------------------------------------------------------------
\* A server process takes the endpoint when it is free, and may exit at any time,
\* as it does when the endpoint is taken.

Serve(k) ==
    /\ child[k] = "starting" /\ ~Endpoint
    /\ child' = [child EXCEPT ![k] = "serving"]
    /\ UNCHANGED <<at, config, spawned, parent, current, owned, tried, restarts, after>>

Die(k) ==
    /\ Alive(k)
    /\ child' = [child EXCEPT ![k] = "dead"]
    /\ UNCHANGED <<at, config, spawned, parent, current, owned, tried, restarts, after>>

GoOn(c) == \/ TruncateConfig(c) \/ WriteConfig(c) \/ Healthcheck(c) \/ Spawn(c)
           \/ LaunchFails(c) \/ Settle(c) \/ BecomeReady(c) \/ StartTimesOut(c)
           \/ Probe(c) \/ StopChild(c) \/ StopForRestart(c) \/ Dispose(c)

ServiceNext == \/ \E c \in Client : ReadConfig(c) \/ GoOn(c) \/ Finish(c) \/ Crash(c)
               \/ \E k \in Child : Serve(k) \/ Die(k)

ServiceSpec == ServiceInit /\ [][ServiceNext]_serviceVars

----------------------------------------------------------------------------
Places == {"idle", "truncate", "write", "check", "spawn", "settle", "wait", "probe",
           "restart", "stop", "ready", "dispose", "ended", "crashed"}

\* The variables have their types.
ServiceTypeOK ==
    /\ at \in [Client -> Places]
    /\ config \in {"whole", "torn"}
    /\ spawned \in 0..MaxChildren
    /\ child \in [Child -> {"none", "starting", "serving", "dead"}]
    /\ parent \in [Child -> Client]
    /\ current \in [Client -> Child \cup {NoChild}]
    /\ owned \in [Client -> Child \cup {NoChild}]
    /\ tried \in [Client -> 0..Candidates]
    /\ restarts \in [Client -> 0..Restarts]
    /\ after \in [Client -> {"spawn", "ended"}]

\* A service loses track of none of its server processes, through failed starts,
\* restarts and disposal: as long as a client has not crashed, a process it spawned
\* and that lives is the one it is starting or stopping, or the one it owns; so it
\* has one at most, and none once it has ended (stopOwnedServer, WindowsMcpLauncher).
ChildrenAccountedFor ==
    \A k, l \in Child :
        LET c == parent[k] IN
        Alive(k) /\ at[c] # "crashed" =>
            /\ k \in {current[c], owned[c]}
            /\ Alive(l) /\ parent[l] = c => l = k
            /\ at[c] # "ended"
=============================================================================
