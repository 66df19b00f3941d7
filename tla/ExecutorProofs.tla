--------------------------- MODULE ExecutorProofs ---------------------------
(***************************************************************************)
(* What holds of an executor that runs a capability on the desktop server,  *)
(* for any number of executors and panels, any crashes, any capabilities    *)
(* and any bounds.                                                          *)
(*                                                                          *)
(* The service keeps track of every server process it has spawned.          *)
(* ChildrenAccountedFor alone is not inductive: that a client overwrites no *)
(* field that still names a living process follows from where the client    *)
(* is (FieldsInUse), and that a process just spawned is nobody's child yet  *)
(* from the order in which they are spawned (SpawnedInOrder).  In the       *)
(* composition the service takes no step that it does not take alone.       *)
(*                                                                          *)
(* The run of a capability keeps RunInv (module RunInvariants), in three    *)
(* parts.  The first is about the programs alone: every step of every       *)
(* program leads only to labels whose assertions its own assertions and its *)
(* answers establish (Annotations).  The second forgets which action a step *)
(* is: every one calls a program (Invokes), ends one (Returns, Ends) or     *)
(* gets the answer of a call that is no program's (Ticks, which may touch   *)
(* the desktop), and changes the stack accordingly.  The third shows of     *)
(* these kinds, one layer of the invariant after the other, that they keep  *)
(* it, using of the programs no more than the first part says.              *)
(***************************************************************************)
EXTENDS RunInvariants, SequenceTheorems, TLAPS

-----------------------------------------------------------------------------
\* The service alone.

\* Which of the two fields a client at each place may have filled.
FieldsInUse ==
    \A c \in Client :
        /\ at[c] \notin {"settle", "wait", "stop", "crashed"} => current[c] = NoChild
        /\ at[c] \in {"idle", "check", "spawn", "settle", "wait", "stop", "ended"}
             => owned[c] = NoChild
        /\ c \in Executor /\ at[c] \in {"truncate", "write"} => owned[c] = NoChild

SpawnedInOrder == \A k \in Child : k > spawned => child[k] = "none"

Tracked ==
    \A k \in Child :
        Alive(k) /\ at[parent[k]] # "crashed" => k \in {current[parent[k]], owned[parent[k]]}

ServiceInv == ServiceTypeOK /\ FieldsInUse /\ SpawnedInOrder /\ Tracked

\* The invariant implies the property.
LEMMA InvImpliesAccounted == ServiceInv => ChildrenAccountedFor
<1> SUFFICES ASSUME ServiceInv,
                    NEW k \in Child, NEW l \in Child, Alive(k), at[parent[k]] # "crashed"
             PROVE  /\ k \in {current[parent[k]], owned[parent[k]]}
                    /\ Alive(l) /\ parent[l] = parent[k] => l = k
                    /\ at[parent[k]] # "ended"
  BY DEF ChildrenAccountedFor
<1>1. parent[k] \in Client /\ k # NoChild /\ l # NoChild
  BY DEF ServiceInv, ServiceTypeOK, NoChild, Child
<1>2. k \in {current[parent[k]], owned[parent[k]]}
  BY DEF ServiceInv, Tracked
<1>3. at[parent[k]] # "ended"
  BY <1>1, <1>2 DEF ServiceInv, FieldsInUse
<1>4. ASSUME Alive(l), parent[l] = parent[k] PROVE l = k
  <2>1. l \in {current[parent[k]], owned[parent[k]]}
    BY <1>4 DEF ServiceInv, Tracked
  <2> QED BY <1>1, <1>2, <2>1 DEF ServiceInv, FieldsInUse
<1> QED BY <1>2, <1>3, <1>4

\* The initial states satisfy it: no process has been spawned.
LEMMA InvInit == ServiceInit => ServiceInv
<1> SUFFICES ASSUME ServiceInit PROVE ServiceInv
  OBVIOUS
<1>1. (CHOOSE c \in Executor : TRUE) \in Client
  BY ServiceAssumption DEF Client
<1>2. ServiceTypeOK
  <2> DEFINE someone == CHOOSE c \in Executor : TRUE
  <2>1. parent = [k \in Child |-> someone] /\ someone \in Client
    BY <1>1 DEF ServiceInit
  <2> HIDE DEF someone
  <2>2. parent \in [Child -> Client]
    BY <2>1
  <2>3. at \in [Client -> Places]
    BY DEF ServiceInit, Places
  <2>4. tried \in [Client -> 0..Candidates] /\ restarts \in [Client -> 0..Restarts]
        /\ spawned \in 0..MaxChildren
    BY ServiceAssumption DEF ServiceInit
  <2>5. /\ config \in {"whole", "torn"}
        /\ child \in [Child -> {"none", "starting", "serving", "dead"}]
        /\ current \in [Client -> Child \cup {NoChild}]
        /\ owned \in [Client -> Child \cup {NoChild}]
        /\ after \in [Client -> {"spawn", "ended"}]
    BY DEF ServiceInit
  <2> QED BY <2>2, <2>3, <2>4, <2>5 DEF ServiceTypeOK
<1>3. FieldsInUse /\ SpawnedInOrder /\ Tracked
  BY DEF ServiceInit, FieldsInUse, SpawnedInOrder, Tracked, Alive
<1> QED BY <1>2, <1>3 DEF ServiceInv

\* A step that only moves client c from one place to another.
LEMMA MoveKeepsInv ==
    ASSUME ServiceInv, NEW c \in Client, NEW there \in Places, GoTo(c, there),
           UNCHANGED <<spawned, child, parent, current, owned, after>>,
           config' \in {"whole", "torn"}, tried' \in [Client -> 0..Candidates],
           restarts' \in [Client -> 0..Restarts], at[c] # "crashed",
           there \notin {"settle", "wait", "stop", "crashed"} => current[c] = NoChild,
           there \in {"idle", "check", "spawn", "settle", "wait", "stop", "ended"}
             => owned[c] = NoChild,
           c \in Executor /\ there \in {"truncate", "write"} => owned[c] = NoChild
    PROVE  ServiceInv'
<1>1. ServiceTypeOK' /\ SpawnedInOrder'
  BY DEF ServiceInv, ServiceTypeOK, SpawnedInOrder, GoTo
<1>2. FieldsInUse'
  BY DEF ServiceInv, ServiceTypeOK, FieldsInUse, GoTo
<1>3. Tracked'
  BY DEF ServiceInv, ServiceTypeOK, Tracked, GoTo, Alive
<1> QED BY <1>1, <1>2, <1>3 DEF ServiceInv

\* A step of the server processes alone, none of which comes to life by it.
LEMMA ServerKeepsInv ==
    ASSUME ServiceInv, NEW k \in Child, Alive(k), NEW state \in {"serving", "dead"},
           child' = [child EXCEPT ![k] = state],
           UNCHANGED <<at, config, spawned, parent, current, owned, tried, restarts, after>>
    PROVE  ServiceInv'
BY DEF ServiceInv, ServiceTypeOK, FieldsInUse, SpawnedInOrder, Tracked, Alive

\* Every action of a client keeps the invariant.
LEMMA ClientKeepsInv ==
    ASSUME ServiceInv, NEW c \in Client, ReadConfig(c) \/ GoOn(c) \/ Finish(c) \/ Crash(c)
    PROVE  ServiceInv'
<1> USE DEF ServiceInv
<1>0. ServiceTypeOK /\ FieldsInUse /\ at[c] \in Places
  BY DEF ServiceTypeOK
<1>1. CASE ReadConfig(c)
  <2>1. restarts' \in [Client -> 0..Restarts]
    BY <1>0, <1>1, ServiceAssumption DEF ReadConfig, ServiceTypeOK
  <2> QED BY <1>0, <1>1, <2>1, MoveKeepsInv, ServiceAssumption
          DEF ReadConfig, ServiceTypeOK, FieldsInUse, Places, Client
<1>2. CASE TruncateConfig(c)
  BY <1>0, <1>2, MoveKeepsInv DEF TruncateConfig, ServiceTypeOK, FieldsInUse, Places
<1>3. CASE WriteConfig(c)
  BY <1>0, <1>3, MoveKeepsInv DEF WriteConfig, ServiceTypeOK, FieldsInUse, Places
<1>4. CASE Healthcheck(c)
  BY <1>0, <1>4, MoveKeepsInv DEF Healthcheck, ServiceTypeOK, FieldsInUse, Places
<1>5. CASE Spawn(c)
  <2>1. tried' \in [Client -> 0..Candidates]
    BY <1>0, <1>5, ServiceAssumption DEF Spawn, ServiceTypeOK
  <2>2. CASE UNCHANGED <<at, spawned, child, parent, current>>
    BY <1>0, <1>5, <2>1, <2>2
       DEF Spawn, ServiceTypeOK, FieldsInUse, SpawnedInOrder, Tracked, Alive
  <2>3. CASE spawned < MaxChildren
    <3> DEFINE k == spawned + 1
    <3>1. k \in Child /\ child[k] = "none" /\ spawned \in Nat
      BY <1>0, <2>3, ServiceAssumption DEF ServiceTypeOK, SpawnedInOrder, Child
    <3>2. CASE spawned' = k /\ child' = [child EXCEPT ![k] = "starting"]
               /\ parent' = [parent EXCEPT ![k] = c]
               /\ current' = [current EXCEPT ![c] = k] /\ GoTo(c, "settle")
      <4>1. UNCHANGED <<config, owned, restarts, after>> /\ at[c] = "spawn"
        BY <1>5 DEF Spawn
      <4>2. spawned' \in 0..MaxChildren
        BY <3>1, <3>2, <2>3, ServiceAssumption
      <4>3. ServiceTypeOK'
        BY <1>0, <2>1, <3>1, <3>2, <4>1, <4>2 DEF ServiceTypeOK, GoTo, Places
      <4>4. FieldsInUse'
        BY <1>0, <3>1, <3>2, <4>1 DEF ServiceTypeOK, FieldsInUse, GoTo
      <4>5. SpawnedInOrder'
        BY <1>0, <3>1, <3>2 DEF ServiceTypeOK, SpawnedInOrder, Child
      <4>6. owned[c] = NoChild /\ current[c] = NoChild
        BY <1>0, <4>1 DEF FieldsInUse
      <4>7. Tracked'
        BY <1>0, <3>1, <3>2, <4>1, <4>6
           DEF ServiceTypeOK, Tracked, Alive, GoTo, Child, NoChild
      <4> QED BY <4>3, <4>4, <4>5, <4>7
    <3> QED BY <1>5, <2>2, <3>2 DEF Spawn
  <2> QED BY <1>5, <2>2, <2>3 DEF Spawn
<1>6. CASE LaunchFails(c)
  <2>1. tried' \in [Client -> 0..Candidates]
    BY <1>0, <1>6, ServiceAssumption DEF LaunchFails, ServiceTypeOK
  <2> QED BY <1>0, <1>6, <2>1, MoveKeepsInv
          DEF LaunchFails, GivenUp, ServiceTypeOK, FieldsInUse, Places
<1>7. CASE Settle(c)
  <2>1. CASE Alive(current[c])
    BY <1>0, <1>7, <2>1, MoveKeepsInv DEF Settle, ServiceTypeOK, FieldsInUse, Places
  <2>2. CASE ~Alive(current[c])
    <3>1. ServiceTypeOK' /\ SpawnedInOrder'
      BY <1>0, <1>7, <2>2 DEF Settle, GoTo, ServiceTypeOK, SpawnedInOrder, Places
    <3>2. FieldsInUse'
      BY <1>0, <1>7, <2>2 DEF Settle, GoTo, ServiceTypeOK, FieldsInUse
    <3>3. Tracked'
      BY <1>0, <1>7, <2>2 DEF Settle, GoTo, ServiceTypeOK, Tracked, Alive
    <3> QED BY <3>1, <3>2, <3>3
  <2> QED BY <2>1, <2>2
<1>8. CASE BecomeReady(c)
  <2>1. ServiceTypeOK' /\ SpawnedInOrder'
    BY <1>0, <1>8, ServiceAssumption DEF BecomeReady, GoTo, ServiceTypeOK, SpawnedInOrder,
       Places
  <2>2. FieldsInUse'
    BY <1>0, <1>8 DEF BecomeReady, GoTo, ServiceTypeOK, FieldsInUse
  <2>3. Tracked'
    BY <1>0, <1>8 DEF BecomeReady, GoTo, ServiceTypeOK, FieldsInUse, Tracked, Alive
  <2> QED BY <2>1, <2>2, <2>3
<1>9. CASE StartTimesOut(c)
  <2>1. ServiceTypeOK' /\ SpawnedInOrder'
    BY <1>0, <1>9 DEF StartTimesOut, GoTo, ServiceTypeOK, SpawnedInOrder, Places
  <2>2. FieldsInUse'
    BY <1>0, <1>9 DEF StartTimesOut, GoTo, ServiceTypeOK, FieldsInUse
  <2>3. Tracked'
    BY <1>0, <1>9 DEF StartTimesOut, GoTo, ServiceTypeOK, FieldsInUse, Tracked, Alive
  <2> QED BY <2>1, <2>2, <2>3
<1>10. CASE Probe(c)
  BY <1>0, <1>10, MoveKeepsInv DEF Probe, GivenUp, ServiceTypeOK, FieldsInUse, Places
<1>11. CASE StopChild(c)
  <2>1. ServiceTypeOK' /\ SpawnedInOrder'
    <3>1. /\ child' \in [Child -> {"none", "starting", "serving", "dead"}]
          /\ \A k \in Child : child[k] = "none" => child'[k] = "none"
      BY <1>0, <1>11 DEF StopChild, ServiceTypeOK, Alive
    <3>2. after[c] \in Places /\ UNCHANGED spawned
      BY <1>0, <1>11 DEF StopChild, ServiceTypeOK, Places
    <3> QED BY <1>0, <1>11, <3>1, <3>2 DEF StopChild, GoTo, ServiceTypeOK, SpawnedInOrder
  <2>2. FieldsInUse'
    BY <1>0, <1>11 DEF StopChild, GoTo, ServiceTypeOK, FieldsInUse
  <2>3. Tracked'
    BY <1>0, <1>11 DEF StopChild, GoTo, ServiceTypeOK, FieldsInUse, Tracked, Alive
  <2> QED BY <2>1, <2>2, <2>3
<1>12. CASE StopForRestart(c)
  <2>1. ServiceTypeOK' /\ SpawnedInOrder'
    BY <1>0, <1>12 DEF StopForRestart, StopOwned, GoTo, ServiceTypeOK, SpawnedInOrder, Places
  <2>2. FieldsInUse'
    BY <1>0, <1>12 DEF StopForRestart, StopOwned, GoTo, ServiceTypeOK, FieldsInUse
  <2>3. Tracked'
    BY <1>0, <1>12 DEF StopForRestart, StopOwned, GoTo, ServiceTypeOK, FieldsInUse, Tracked,
       Alive
  <2> QED BY <2>1, <2>2, <2>3
<1>13. CASE Finish(c)
  BY <1>0, <1>13, MoveKeepsInv DEF Finish, ServiceTypeOK, FieldsInUse, Places
<1>14. CASE Dispose(c)
  <2>1. ServiceTypeOK' /\ SpawnedInOrder'
    BY <1>0, <1>14 DEF Dispose, StopOwned, GoTo, ServiceTypeOK, SpawnedInOrder, Places
  <2>2. FieldsInUse'
    BY <1>0, <1>14 DEF Dispose, StopOwned, GoTo, ServiceTypeOK, FieldsInUse
  <2>3. Tracked'
    BY <1>0, <1>14 DEF Dispose, StopOwned, GoTo, ServiceTypeOK, FieldsInUse, Tracked, Alive
  <2> QED BY <2>1, <2>2, <2>3
<1>15. CASE Crash(c)
  <2>1. ServiceTypeOK' /\ SpawnedInOrder'
    BY <1>0, <1>15 DEF Crash, GoTo, ServiceTypeOK, SpawnedInOrder, Places
  <2>2. FieldsInUse'
    BY <1>0, <1>15 DEF Crash, GoTo, ServiceTypeOK, FieldsInUse
  <2>3. Tracked'
    BY <1>0, <1>15 DEF Crash, GoTo, ServiceTypeOK, FieldsInUse, Tracked, Alive
  <2> QED BY <2>1, <2>2, <2>3
<1> QED BY <1>1, <1>2, <1>3, <1>4, <1>5, <1>6, <1>7, <1>8, <1>9, <1>10, <1>11, <1>12,
           <1>13, <1>14, <1>15 DEF GoOn

\* Every step keeps the invariant.
LEMMA InvNext == ServiceInv /\ [ServiceNext]_serviceVars => ServiceInv'
<1> SUFFICES ASSUME ServiceInv, [ServiceNext]_serviceVars PROVE ServiceInv'
  OBVIOUS
<1>1. ASSUME NEW c \in Client, ReadConfig(c) \/ GoOn(c) \/ Finish(c) \/ Crash(c)
      PROVE  ServiceInv'
  BY <1>1, ClientKeepsInv
<1>2. ASSUME NEW k \in Child, Serve(k) \/ Die(k) PROVE ServiceInv'
  BY <1>2, ServerKeepsInv DEF Serve, Die, Alive
<1>3. CASE UNCHANGED serviceVars
  BY <1>3 DEF serviceVars, ServiceInv, ServiceTypeOK, FieldsInUse, SpawnedInOrder,
              Tracked, Alive
<1> QED BY <1>1, <1>2, <1>3 DEF ServiceNext

\* The variables keep their types in every behaviour of the service.
THEOREM ServiceTypesHold == ServiceSpec => []ServiceTypeOK
<1>1. ServiceInv => ServiceTypeOK
  BY DEF ServiceInv
<1> QED BY InvInit, InvNext, <1>1, PTL DEF ServiceSpec

\* No service loses track of a server process it has spawned: through failed starts,
\* restarts and disposal a living one is known to its client (ChildrenAccountedFor).
THEOREM NoServerIsLost == ServiceSpec => []ChildrenAccountedFor
<1> QED BY InvInit, InvNext, InvImpliesAccounted, PTL DEF ServiceSpec
-----------------------------------------------------------------------------
\* The service in the composition.

\* A step of a run, of execute, leaves the service alone.
LEMMA RunLeavesService == RunStep \/ CallFails => UNCHANGED serviceVars
BY DEF RunStep, CallFails, serviceVars

\* Every other step of the composition is one of the service.
LEMMA ServiceStepIsOne ==
    RunnerFinishes \/ ServiceStep => [ServiceNext]_serviceVars
<1>1. Runner \in Client
  BY RunnerAssumption DEF Client
<1>2. RunnerFinishes => ServiceNext
  BY <1>1 DEF RunnerFinishes, ServiceNext
<1>3. ServiceStep => ServiceNext
  BY DEF ServiceStep, ClientStep, ServiceNext
<1> QED BY <1>2, <1>3

\* An executor with a capability run, a panel and crashes beside it behaves towards
\* the desktop server as clients of the service do.
THEOREM ExecutorUsesService == ExecSpec => ServiceSpec
<1>1. ExecInit => ServiceInit
  BY DEF ExecInit
<1>2. [ExecNext]_execVars => [ServiceNext]_serviceVars
  <2>1. UNCHANGED execVars => UNCHANGED serviceVars
    BY DEF execVars, serviceVars
  <2> QED BY <2>1, RunLeavesService, ServiceStepIsOne DEF ExecNext
<1> QED BY <1>1, <1>2, PTL DEF ExecSpec, ServiceSpec

\* The types of the service's variables hold in the composition.
THEOREM ServiceTypesHoldInRuns == ExecSpec => []ServiceTypeOK
<1> QED BY ExecutorUsesService, ServiceTypesHold, PTL

\* No run of a capability makes a service lose track of a server it has spawned.
THEOREM NoServerIsLostInRuns == ExecSpec => []ChildrenAccountedFor
<1> QED BY ExecutorUsesService, NoServerIsLost, PTL

-----------------------------------------------------------------------------
\* The programs keep what the tables of RunInvariants say.

\* The names of the tools.
ToolNames ==
    {"snapshot", "reliable_snapshot", "screenshot", "focus_window", "app_launch", "app_switch",
      "app_list", "shell_launch", "set_clipboard", "read_clipboard", "address_bar", "paste",
      "press_enter", "file_info", "click_label", "type_label", "type", "find_element",
      "click_element", "type_element", "type_path_label", "type_path_stable", "type_path"}

\* The names of the capabilities.
CapNames ==
    {"observe", "capture_and_locate", "inspect_dom", "resolve", "inspect_tree", "search_text",
      "read_text", "open_or_focus", "window_available", "clipboard_read_write", "collect_window",
      "switch_collect_compare", "transfer_text", "transfer_and_submit", "transfer_if_asked",
      "act_verify", "extract_then_transfer", "click_element_by_name", "type_element_by_name",
      "browser_to_editor", "route_capture_transfer", "editor_stage_and_deliver",
      "editor_chat_stage_and_deliver", "editor_chat_stage_and_deliver_verify",
      "file_read_transform_transfer", "file_browser_chat_route_deliver",
      "file_browser_chat_route_deliver_verify", "file_browser_route_deliver",
      "file_browser_route_deliver_verify", "multi_window_route_execute",
      "multi_window_route_deliver_verify", "file_send_to_chat_window", "click_named",
      "type_path_named", "open_named", "explorer_select", "explorer_tree", "form_submit_recovery",
      "editor_chat_template", "file_browser_template", "multi_window_template",
      "editor_chat_reply_template", "doc_deliver_template", "compare_deliver_template",
      "extract_post_template", "form_submit_template"}

\* The names of all programs.
AllNames == CapNames \cup ToolNames

\* The capabilities have these names.
LEMMA CapabilityNames == DOMAIN Capability = CapNames
BY DEF Capability, CapNames

\* The programs have these names.
LEMMA Names == DOMAIN Program = AllNames
<1>1. DOMAIN WindowsTool = ToolNames
  BY DEF WindowsTool, ToolNames
<1> QED BY <1>1, CapabilityNames DEF Program, ++, AllNames

\* A step leads to labels of its program, or to answers.
Fits(labels, label, s) ==
    /\ label \notin Answer /\ s.window \in Window \cup {"it", "selected"}
    /\ \A a \in Answer : s.next[a] \in (labels \cup Answer) \ {"thrown"}

\* A part p of a program with these labels keeps what the tables say.
Sound(name, labels, p) ==
    \A label \in DOMAIN p : Fits(labels, label, p[label]) /\ Annotated(name, label, p[label])

\* Parts that are sound join to a sound one.
LEMMA Joined ==
    ASSUME NEW name, NEW labels, NEW f, NEW g, Sound(name, labels, f), Sound(name, labels, g)
    PROVE  Sound(name, labels, f ++ g)
BY DEF Sound, ++

\* Programs the tables say nothing of.
Plain ==
    {"snapshot", "reliable_snapshot", "screenshot", "app_list", "set_clipboard", "read_clipboard",
      "address_bar", "file_info", "find_element", "click_element", "type_path_label",
      "type_path_stable", "type_path", "observe", "capture_and_locate", "inspect_dom", "resolve",
      "inspect_tree", "search_text", "window_available", "clipboard_read_write", "collect_window",
      "click_element_by_name", "click_named", "type_path_named"}

\* A step that no table is about.
PlainStep(s) ==
    /\ s.call \notin Writing \cup Inserting \cup Entering
                      \cup {"select_route", "submits", "switch_collect_compare"}
    /\ s.window = "it"

\* Such a step of such a program keeps what the tables say.
LEMMA PlainSound ==
    ASSUME NEW name \in Plain, NEW label, NEW s, PlainStep(s)
    PROVE  Annotated(name, label, s)
<1>1. /\ name \in Inner /\ name \notin Writing /\ name \notin Deliverer /\ name # Stager
      /\ name \notin FromFile /\ name \notin Core
  BY Names DEF AllNames, CapNames, ToolNames, Plain, Inner, Writing, Outer, Inserter, Transfer,
     Routed, Staged, Deliverer, FromFile, Submitting, Core, Router, Stager
<1>2. ASSUME NEW l
      PROVE  /\ ~RoutedAt(name, l) /\ ~FrontAt(name, l) /\ ~CleanAt(name, l)
             /\ ~MayEnterAt(name, l) /\ ~FreshAt(name, l) /\ ~FreshEnterAt(name, l)
             /\ ~DeliveredAt(name, l) /\ ~HaveTextAt(name, l)
  BY DEF Plain, RoutedAt, Router, FrontAt, Transfer, CleanAt, Outer, Routed, Staged, MayEnterAt,
     FreshAt, FreshEnterAt, Stager, DeliveredAt, HaveTextAt
<1>3. /\ s.call \notin Inserter /\ s.call \notin Outer /\ s.call \notin Inserting \cup Entering
      /\ s.call \notin {"submits", "TypeOver", "Paste", "Enter", "open_file", "select_route"}
      /\ \A S \in CalledFromWithin : s.call \notin S
  BY DEF PlainStep, Writing, Outer, Inserter, Transfer, Inserting, Entering, CalledFromWithin,
     Routed, Staged, FromFile, Submitter, Submitting
<1>4. IsProgram(s.call) => s.call \in Inner
  BY <1>3 DEF PlainStep, IsProgram, Inner, Inserter
<1>5. /\ ~FrontAt(s.call, "start") /\ ~CleanAt(s.call, "start") /\ ~MayEnterAt(s.call, "start")
      /\ ~FreshAt(s.call, "start") /\ ~FreshEnterAt(s.call, "start")
  BY <1>3 DEF Inserter, Transfer, Outer, Routed, Staged, Router, Stager,
     FrontAt, CleanAt, RoutedAt, MayEnterAt, FreshAt, FreshEnterAt, Answered
<1> QED
  BY <1>1, <1>2, <1>3, <1>4, <1>5
     DEF PlainStep, Annotated, RouteKept, WellNested, FrontKept, CleanKept, EnterKept, FreshKept,
         DeliveryKept, TextKept

\* A program of such steps is sound.
LEMMA PlainProgram ==
    ASSUME NEW name \in Plain, NEW labels, NEW p,
           \A label \in DOMAIN p : PlainStep(p[label]) /\ Fits(labels, label, p[label])
    PROVE  Sound(name, labels, p)
BY PlainSound DEF Sound

\* The labels of OpenOrFocus.
OpenOrFocusLabels ==
    {"start", "known", "shell", "refocus", "recheck", "launch", "check"}

\* OpenOrFocus has these labels.
LEMMA OpenOrFocusDomain == DOMAIN OpenOrFocus = OpenOrFocusLabels
BY DEF OpenOrFocus, FocusOrShell, LaunchApplication, OpenOrFocusLabels, ++

\* The labels of CollectWindow.
CollectWindowLabels ==
    {"start", "switch", "look", "retry", "refocus", "again"}

\* CollectWindow has these labels.
LEMMA CollectWindowDomain == DOMAIN CollectWindow = CollectWindowLabels
BY DEF CollectWindow, CollectFocused, CollectRefocused, CollectWindowLabels, ++

\* The labels of TransferText.
TransferTextLabels ==
    {"start", "which", "copy", "copyChecked", "address", "paste", "submit", "enter", "confirm",
      "edit", "typeEdit", "confirmEdit", "title", "typeTitle", "confirmTitle", "type",
      "confirmType"}

\* TransferText has these labels.
LEMMA TransferTextDomain == DOMAIN TransferText = TransferTextLabels
BY DEF TransferText, TransferByPaste, FocusAndCopy, PasteAndConfirm, TransferByLabel,
  TransferToEdit, TransferToTitle, TransferByTyping, TransferTextLabels, ++

\* The labels of OpenObserveActVerify.
OpenObserveActVerifyLabels ==
    {"start", "locate", "given", "act", "verify", "retry", "refocus", "givenAgain", "actAgain",
      "verifyAgain"}

\* OpenObserveActVerify has these labels.
LEMMA OpenObserveActVerifyDomain == DOMAIN OpenObserveActVerify = OpenObserveActVerifyLabels
BY DEF OpenObserveActVerify, OpenObserveAct, ActVerify, ActAgain, OpenObserveActVerifyLabels, ++

\* The labels of RouteCaptureTransfer.
RouteCaptureTransferLabels ==
    {"start", "compare", "route", "deliver"}

\* RouteCaptureTransfer has these labels.
LEMMA RouteCaptureTransferDomain == DOMAIN RouteCaptureTransfer = RouteCaptureTransferLabels
BY DEF RouteCaptureTransfer, CaptureAndCompare, DeliverToRoute, RouteCaptureTransferLabels, ++

\* The labels of FileBrowserChatRouteDeliver.
FileBrowserChatRouteDeliverLabels ==
    {"start", "inspect", "basis", "deliver"}

\* FileBrowserChatRouteDeliver has these labels.
LEMMA FileBrowserChatRouteDeliverDomain ==
    DOMAIN FileBrowserChatRouteDeliver = FileBrowserChatRouteDeliverLabels
BY DEF FileBrowserChatRouteDeliver, ReadAndInspect, DeliverOnBasis,
  FileBrowserChatRouteDeliverLabels, ++

\* The labels of FileBrowserRouteDeliver.
FileBrowserRouteDeliverLabels ==
    {"start", "inspect", "basis", "compare", "route", "deliver"}

\* FileBrowserRouteDeliver has these labels.
LEMMA FileBrowserRouteDeliverDomain ==
    DOMAIN FileBrowserRouteDeliver = FileBrowserRouteDeliverLabels
BY DEF FileBrowserRouteDeliver, FileBrowserRouteBasis, FileBrowserRouteTarget,
  FileBrowserRouteDeliverLabels, ++

\* The labels of MultiWindowRouteExecute.
MultiWindowRouteExecuteLabels ==
    {"start", "first", "second", "route", "act", "retry", "refocus", "actAgain"}

\* MultiWindowRouteExecute has these labels.
LEMMA MultiWindowRouteExecuteDomain ==
    DOMAIN MultiWindowRouteExecute = MultiWindowRouteExecuteLabels
BY DEF MultiWindowRouteExecute, MultiWindowCollect, MultiWindowAct,
   MultiWindowRouteExecuteLabels,
  ++

\* The labels of MultiWindowRouteDeliverVerify.
MultiWindowRouteDeliverVerifyLabels ==
    {"start", "first", "second", "route", "deliver"}

\* MultiWindowRouteDeliverVerify has these labels.
LEMMA MultiWindowRouteDeliverVerifyDomain ==
    DOMAIN MultiWindowRouteDeliverVerify = MultiWindowRouteDeliverVerifyLabels
BY DEF MultiWindowRouteDeliverVerify, CollectBoth, DeliverToSelected,
  MultiWindowRouteDeliverVerifyLabels, ++

\* The labels of FileSendToChatWindow.
FileSendToChatWindowLabels ==
    {"start", "info", "focus", "attach", "path", "pick", "sendPicked", "enterPicked", "open",
      "send", "enter", "confirm"}

\* FileSendToChatWindow has these labels.
LEMMA FileSendToChatWindowDomain == DOMAIN FileSendToChatWindow = FileSendToChatWindowLabels
BY DEF FileSendToChatWindow, SendToChatChecked, SendToChatAttach, SendToChatPicked,
   SendToChatSend,
  SendToChatConfirm, FileSendToChatWindowLabels, ++

USE Names DEF
    AllNames, CapNames, ToolNames, RouteKept, WellNested, FrontKept, CleanKept, EnterKept,
      FreshKept, DeliveryKept, TextKept, Annotated, FrontAt, RoutedAt, CleanAt, MayEnterAt, FreshAt,
      FreshEnterAt, DeliveredAt, HaveTextAt, IsProgram, Reply, Answer, Window, Answered, Need, Call,
      Step, Then, Seen, Relay, Focusing, Inserting, Entering, Inner, Inserter, FromFile, Transfer,
      Router, Outer, Routed, Staged, Stager, Core, CalledFromWithin, Writing, Submitter, Submitting,
      Doubting, Typing, Deliverer

\* The steps of SnapshotTool keep what the tables say.
LEMMA SnapshotToolSound == Sound("snapshot", DOMAIN SnapshotTool, SnapshotTool)
BY PlainProgram DEF PlainStep, Fits, Plain, SnapshotTool

\* The steps of ReliableSnapshot keep what the tables say.
LEMMA ReliableSnapshotSound ==
    Sound("reliable_snapshot", DOMAIN ReliableSnapshot, ReliableSnapshot)
BY PlainProgram DEF PlainStep, Fits, Plain, ReliableSnapshot

\* The steps of Screenshot keep what the tables say.
LEMMA ScreenshotSound ==
    Sound("screenshot", DOMAIN Direct("Screenshot"), Direct("Screenshot"))
BY PlainProgram DEF PlainStep, Fits, Plain, Direct

\* The steps of FocusWindow keep what the tables say.
LEMMA FocusWindowSound == Sound("focus_window", DOMAIN FocusWindow, FocusWindow)
<1>1. Annotated("focus_window", "start", Then("reliable_snapshot", "it", "switch"))
  OBVIOUS
<1>2. Annotated("focus_window", "switch",
                Call("AppSwitch", "it", "notSwitched", "verify", "verify", "no"))
  OBVIOUS
<1>3. Annotated("focus_window", "verify", Seen("reliable_snapshot", "it", "yes", "alias"))
  OBVIOUS
<1>4. Annotated("focus_window", "notSwitched", Then("reliable_snapshot", "it", "alias"))
  OBVIOUS
<1>5. Annotated("focus_window", "alias", Seen("another_try", "it", "switch", "element"))
  OBVIOUS
<1>6. Annotated("focus_window", "element", Need("element_shown", "it", "click", "no"))
  OBVIOUS
<1>7. Annotated("focus_window", "click",
                Call("Click", "it", "notClicked", "verifyClick", "verifyClick", "no"))
  OBVIOUS
<1>8. Annotated("focus_window", "verifyClick", Seen("reliable_snapshot", "it", "yes", "no"))
  OBVIOUS
<1>9. Annotated("focus_window", "notClicked", Then("reliable_snapshot", "it", "no"))
  OBVIOUS
<1> HIDE DEF Annotated
<1> QED BY <1>1, <1>2, <1>3, <1>4, <1>5, <1>6, <1>7, <1>8, <1>9 DEF Sound, Fits, FocusWindow

\* The steps of AppLaunch keep what the tables say.
LEMMA AppLaunchSound == Sound("app_launch", DOMAIN AppLaunch, AppLaunch)
<1>1. Annotated("app_launch", "start", Then("reliable_snapshot", "it", "act"))
  OBVIOUS
<1>2. Annotated("app_launch", "act",
                Call("AppLaunch", "it", "afterFailure", "after", "after", "no"))
  OBVIOUS
<1>3. Annotated("app_launch", "after", Then("reliable_snapshot", "it", "judge"))
  OBVIOUS
<1>4. Annotated("app_launch", "judge", Seen("transition_shown", "it", "yes", "no"))
  OBVIOUS
<1>5. Annotated("app_launch", "afterFailure", Then("reliable_snapshot", "it", "no"))
  OBVIOUS
<1> HIDE DEF Annotated
<1> QED BY <1>1, <1>2, <1>3, <1>4, <1>5 DEF Sound, Fits, WithVerification, AppLaunch

\* The steps of AppSwitch keep what the tables say.
LEMMA AppSwitchSound == Sound("app_switch", DOMAIN AppSwitch, AppSwitch)
<1>1. Annotated("app_switch", "start", Then("reliable_snapshot", "it", "act"))
  OBVIOUS
<1>2. Annotated("app_switch", "act",
                Call("AppSwitch", "it", "afterFailure", "after", "after", "no"))
  OBVIOUS
<1>3. Annotated("app_switch", "after", Then("reliable_snapshot", "it", "judge"))
  OBVIOUS
<1>4. Annotated("app_switch", "judge", Seen("transition_shown", "it", "yes", "no"))
  OBVIOUS
<1>5. Annotated("app_switch", "afterFailure", Then("reliable_snapshot", "it", "no"))
  OBVIOUS
<1> HIDE DEF Annotated
<1> QED BY <1>1, <1>2, <1>3, <1>4, <1>5 DEF Sound, Fits, WithVerification, AppSwitch

\* The steps of AppList keep what the tables say.
LEMMA AppListSound == Sound("app_list", DOMAIN Direct("AppList"), Direct("AppList"))
BY PlainProgram DEF PlainStep, Fits, Plain, Direct

\* The steps of ShellLaunch keep what the tables say.
LEMMA ShellLaunchSound ==
    Sound("shell_launch", DOMAIN Direct("ShellLaunch"), Direct("ShellLaunch"))
<1>1. Annotated("shell_launch", "start", Relay("ShellLaunch", "it"))
  OBVIOUS
<1> HIDE DEF Annotated
<1> QED BY <1>1 DEF Sound, Fits, Direct

\* The steps of SetClipboard keep what the tables say.
LEMMA SetClipboardSound ==
    Sound("set_clipboard", DOMAIN Direct("ClipboardSet"), Direct("ClipboardSet"))
BY PlainProgram DEF PlainStep, Fits, Plain, Direct

\* The steps of ReadClipboard keep what the tables say.
LEMMA ReadClipboardSound ==
    Sound("read_clipboard", DOMAIN Direct("ClipboardGet"), Direct("ClipboardGet"))
BY PlainProgram DEF PlainStep, Fits, Plain, Direct

\* The steps of AddressBar keep what the tables say.
LEMMA AddressBarSound ==
    Sound("address_bar", DOMAIN Direct("AddressBar"), Direct("AddressBar"))
BY PlainProgram DEF PlainStep, Fits, Plain, Direct

\* The steps of Paste keep what the tables say.
LEMMA PasteSound == Sound("paste", DOMAIN Direct("Paste"), Direct("Paste"))
<1>1. Annotated("paste", "start", Relay("Paste", "it"))
  OBVIOUS
<1> HIDE DEF Annotated
<1> QED BY <1>1 DEF Sound, Fits, Direct

\* The steps of PressEnter keep what the tables say.
LEMMA PressEnterSound == Sound("press_enter", DOMAIN Direct("Enter"), Direct("Enter"))
<1>1. Annotated("press_enter", "start", Relay("Enter", "it"))
  OBVIOUS
<1> HIDE DEF Annotated
<1> QED BY <1>1 DEF Sound, Fits, Direct

\* The steps of FileInfo keep what the tables say.
LEMMA FileInfoSound == Sound("file_info", DOMAIN Direct("FileInfo"), Direct("FileInfo"))
BY PlainProgram DEF PlainStep, Fits, Plain, Direct

\* The steps of ClickLabel keep what the tables say.
LEMMA ClickLabelSound == Sound("click_label", DOMAIN ClickLabel, ClickLabel)
<1>1. Annotated("click_label", "start", Then("reliable_snapshot", "it", "act"))
  OBVIOUS
<1>2. Annotated("click_label", "act",
                Call("Click", "it", "afterFailure", "after", "after", "no"))
  OBVIOUS
<1>3. Annotated("click_label", "after", Then("reliable_snapshot", "it", "judge"))
  OBVIOUS
<1>4. Annotated("click_label", "judge", Seen("transition_shown", "it", "yes", "no"))
  OBVIOUS
<1>5. Annotated("click_label", "afterFailure", Then("reliable_snapshot", "it", "no"))
  OBVIOUS
<1> HIDE DEF Annotated
<1> QED BY <1>1, <1>2, <1>3, <1>4, <1>5 DEF Sound, Fits, WithVerification, ClickLabel

\* The steps of TypeLabel keep what the tables say.
LEMMA TypeLabelSound == Sound("type_label", DOMAIN TypeLabel, TypeLabel)
<1>1. Annotated("type_label", "start", Then("reliable_snapshot", "it", "act"))
  OBVIOUS
<1>2. Annotated("type_label", "act",
                Call("TypeOver", "it", "afterFailure", "after", "after", "no"))
  OBVIOUS
<1>3. Annotated("type_label", "after", Then("reliable_snapshot", "it", "judge"))
  OBVIOUS
<1>4. Annotated("type_label", "judge", Seen("transition_shown", "it", "yes", "no"))
  OBVIOUS
<1>5. Annotated("type_label", "afterFailure", Then("reliable_snapshot", "it", "no"))
  OBVIOUS
<1> HIDE DEF Annotated
<1> QED BY <1>1, <1>2, <1>3, <1>4, <1>5 DEF Sound, Fits, WithVerification, TypeLabel

\* The steps of Type keep what the tables say.
LEMMA TypeSound == Sound("type", DOMAIN TypeText("Type"), TypeText("Type"))
<1>1. Annotated("type", "start", Need("reliable_snapshot", "it", "field", "no"))
  OBVIOUS
<1>2. Annotated("type", "field", Need("element_shown", "it", "type", "no"))
  OBVIOUS
<1>3. Annotated("type", "type", Call("Type", "it", "afterFailure", "after", "after", "no"))
  OBVIOUS
<1>4. Annotated("type", "after", Need("reliable_snapshot", "it", "judge", "no"))
  OBVIOUS
<1>5. Annotated("type", "judge", Seen("transition_shown", "it", "yes", "no"))
  OBVIOUS
<1>6. Annotated("type", "afterFailure", Then("reliable_snapshot", "it", "no"))
  OBVIOUS
<1> HIDE DEF Annotated
<1> QED BY <1>1, <1>2, <1>3, <1>4, <1>5, <1>6 DEF Sound, Fits, TypeText

\* The steps of FindElement keep what the tables say.
LEMMA FindElementSound == Sound("find_element", DOMAIN FindElement, FindElement)
BY PlainProgram DEF PlainStep, Fits, Plain, FindElement

\* The steps of ClickElement keep what the tables say.
LEMMA ClickElementSound == Sound("click_element", DOMAIN ClickElement, ClickElement)
BY PlainProgram DEF PlainStep, Fits, Plain, ClickElement

\* The steps of TypeElement keep what the tables say.
LEMMA TypeElementSound ==
    Sound("type_element",
          DOMAIN TypeElement("type_label", "type"), TypeElement("type_label", "type"))
<1>1. Annotated("type_element", "start",
                Call("Snapshot", "it", "find", "find", "find", "no"))
  OBVIOUS
<1>2. Annotated("type_element", "find",
                Call("element_shown", "it", "no", "click", "type", "no"))
  OBVIOUS
<1>3. Annotated("type_element", "type", Need("type_label", "it", "after", "no"))
  OBVIOUS
<1>4. Annotated("type_element", "click", Need("click_label", "it", "there", "no"))
  OBVIOUS
<1>5. Annotated("type_element", "there", Need("type", "it", "after", "no"))
  OBVIOUS
<1>6. Annotated("type_element", "after", Need("Snapshot", "it", "judge", "no"))
  OBVIOUS
<1>7. Annotated("type_element", "judge", Seen("transition_shown", "it", "yes", "no"))
  OBVIOUS
<1> HIDE DEF Annotated
<1> QED BY <1>1, <1>2, <1>3, <1>4, <1>5, <1>6, <1>7 DEF Sound, Fits, TypeElement

\* The steps of TypePathLabel keep what the tables say.
LEMMA TypePathLabelSound ==
    Sound("type_path_label",
          DOMAIN WithVerification("TypePath"), WithVerification("TypePath"))
BY PlainProgram DEF PlainStep, Fits, Plain, WithVerification

\* The steps of TypePathStable keep what the tables say.
LEMMA TypePathStableSound ==
    Sound("type_path_stable", DOMAIN TypeText("TypePath"), TypeText("TypePath"))
BY PlainProgram DEF PlainStep, Fits, Plain, TypeText

\* The steps of TypePath keep what the tables say.
LEMMA TypePathSound ==
    Sound("type_path",
          DOMAIN TypeElement("type_path_label", "type_path_stable"),
          TypeElement("type_path_label", "type_path_stable"))
BY PlainProgram DEF PlainStep, Fits, Plain, TypeElement

\* The steps of DesktopObserve keep what the tables say.
LEMMA DesktopObserveSound == Sound("observe", DOMAIN DesktopObserve, DesktopObserve)
BY PlainProgram DEF PlainStep, Fits, Plain, DesktopObserve

\* The steps of CaptureAndLocate keep what the tables say.
LEMMA CaptureAndLocateSound ==
    Sound("capture_and_locate", DOMAIN CaptureAndLocate, CaptureAndLocate)
BY PlainProgram DEF PlainStep, Fits, Plain, CaptureAndLocate

\* The steps of InspectDom keep what the tables say.
LEMMA InspectDomSound == Sound("inspect_dom", DOMAIN InspectDom, InspectDom)
BY PlainProgram DEF PlainStep, Fits, Plain, InspectDom

\* The steps of Resolve keep what the tables say.
LEMMA ResolveSound == Sound("resolve", DOMAIN Resolve, Resolve)
BY PlainProgram DEF PlainStep, Fits, Plain, Resolve

\* The steps of InspectTree keep what the tables say.
LEMMA InspectTreeSound == Sound("inspect_tree", DOMAIN InspectTree, InspectTree)
BY PlainProgram DEF PlainStep, Fits, Plain, InspectTree

\* The steps of SearchText keep what the tables say.
LEMMA SearchTextSound == Sound("search_text", DOMAIN SearchText, SearchText)
BY PlainProgram DEF PlainStep, Fits, Plain, SearchText

\* The steps of ReadText keep what the tables say.
LEMMA ReadTextSound == Sound("read_text", DOMAIN ReadText, ReadText)
<1>1. Annotated("read_text", "start", Relay("command_line", "it"))
  OBVIOUS
<1> HIDE DEF Annotated
<1> QED BY <1>1 DEF Sound, Fits, ReadText

\* The steps of FocusOrShell keep what the tables say.
LEMMA FocusOrShellSound == Sound("open_or_focus", OpenOrFocusLabels, FocusOrShell)
<1>1. Annotated("open_or_focus", "start", Need("focus_window", "it", "check", "known"))
  OBVIOUS
<1>2. Annotated("open_or_focus", "known", Seen("known_app", "it", "shell", "launch"))
  OBVIOUS
<1>3. Annotated("open_or_focus", "shell", Need("shell_launch", "it", "refocus", "launch"))
  OBVIOUS
<1>4. Annotated("open_or_focus", "refocus", Then("focus_window", "it", "recheck"))
  OBVIOUS
<1>5. Annotated("open_or_focus", "recheck",
                Call("window_available", "it", "no", "launch", "yes", "no"))
  OBVIOUS
<1> HIDE DEF Annotated
<1> QED BY <1>1, <1>2, <1>3, <1>4, <1>5 DEF Sound, Fits, FocusOrShell, OpenOrFocusLabels

\* The steps of LaunchApplication keep what the tables say.
LEMMA LaunchApplicationSound == Sound("open_or_focus", OpenOrFocusLabels, LaunchApplication)
<1>1. Annotated("open_or_focus", "launch", Need("app_launch", "it", "check", "no"))
  OBVIOUS
<1>2. Annotated("open_or_focus", "check", Seen("window_available", "it", "yes", "no"))
  OBVIOUS
<1> HIDE DEF Annotated
<1> QED BY <1>1, <1>2 DEF Sound, Fits, LaunchApplication, OpenOrFocusLabels

\* The steps of OpenOrFocus keep what the tables say.
LEMMA OpenOrFocusSound == Sound("open_or_focus", DOMAIN OpenOrFocus, OpenOrFocus)
<1>1. Sound("open_or_focus", OpenOrFocusLabels, OpenOrFocus)
  BY FocusOrShellSound, LaunchApplicationSound, Joined DEF OpenOrFocus
<1> QED BY <1>1, OpenOrFocusDomain

\* The steps of WindowAvailable keep what the tables say.
LEMMA WindowAvailableSound ==
    Sound("window_available", DOMAIN WindowAvailable, WindowAvailable)
BY PlainProgram DEF PlainStep, Fits, Plain, WindowAvailable

\* The steps of ClipboardReadWrite keep what the tables say.
LEMMA ClipboardReadWriteSound ==
    Sound("clipboard_read_write", DOMAIN ClipboardReadWrite, ClipboardReadWrite)
BY PlainProgram DEF PlainStep, Fits, Plain, ClipboardReadWrite

\* The steps of CollectFocused keep what the tables say.
LEMMA CollectFocusedSound == Sound("collect_window", CollectWindowLabels, CollectFocused)
BY PlainProgram DEF PlainStep, Fits, Plain, CollectFocused, CollectWindowLabels

\* The steps of CollectRefocused keep what the tables say.
LEMMA CollectRefocusedSound ==
    Sound("collect_window", CollectWindowLabels, CollectRefocused)
BY PlainProgram DEF PlainStep, Fits, Plain, CollectRefocused, CollectWindowLabels

\* The steps of CollectWindow keep what the tables say.
LEMMA CollectWindowSound == Sound("collect_window", DOMAIN CollectWindow, CollectWindow)
<1>1. Sound("collect_window", CollectWindowLabels, CollectWindow)
  BY CollectFocusedSound, CollectRefocusedSound, Joined DEF CollectWindow
<1> QED BY <1>1, CollectWindowDomain

\* The steps of SwitchCollectCompare keep what the tables say.
LEMMA SwitchCollectCompareSound ==
    Sound("switch_collect_compare", DOMAIN SwitchCollectCompare, SwitchCollectCompare)
<1>1. Annotated("switch_collect_compare", "start", Then("app_list", "it", "first"))
  OBVIOUS
<1>2. Annotated("switch_collect_compare", "first",
                Seen("collect_window", "primary", "second", "no"))
  OBVIOUS
<1>3. Annotated("switch_collect_compare", "second",
                Seen("collect_window", "secondary", "yes", "no"))
  OBVIOUS
<1> HIDE DEF Annotated
<1> QED BY <1>1, <1>2, <1>3 DEF Sound, Fits, SwitchCollectCompare

\* The steps of FocusAndCopy keep what the tables say.
LEMMA FocusAndCopySound ==
    ASSUME NEW name \in Transfer
    PROVE Sound(name, TransferTextLabels, FocusAndCopy)
<1>1. Annotated(name, "start", Need("open_or_focus", "it", "which", "no"))
  OBVIOUS
<1>2. Annotated(name, "which", Seen("is_browser", "it", "copy", "copyChecked"))
  OBVIOUS
<1>3. Annotated(name, "copy", Need("set_clipboard", "it", "address", "edit"))
  OBVIOUS
<1>4. Annotated(name, "copyChecked", Need("clipboard_read_write", "it", "paste", "edit"))
  OBVIOUS
<1>5. Annotated(name, "address", Then("address_bar", "it", "paste"))
  OBVIOUS
<1> HIDE DEF Annotated
<1> QED BY <1>1, <1>2, <1>3, <1>4, <1>5 DEF Sound, Fits, FocusAndCopy, TransferTextLabels

\* The steps of PasteAndConfirm keep what the tables say.
LEMMA PasteAndConfirmSound ==
    ASSUME NEW name \in Transfer
    PROVE Sound(name, TransferTextLabels, PasteAndConfirm)
<1>1. Annotated(name, "paste", Need("paste", "it", "submit", "edit"))
  OBVIOUS
<1>2. Annotated(name, "submit", Seen("submits", "it", "enter", "confirm"))
  OBVIOUS
<1>3. Annotated(name, "enter", Then("press_enter", "it", "confirm"))
  OBVIOUS
<1>4. Annotated(name, "confirm", Seen("observe", "it", "yes", "no"))
  OBVIOUS
<1> HIDE DEF Annotated
<1> QED BY <1>1, <1>2, <1>3, <1>4 DEF Sound, Fits, PasteAndConfirm, TransferTextLabels

\* The steps of TransferToEdit keep what the tables say.
LEMMA TransferToEditSound ==
    ASSUME NEW name \in Transfer
    PROVE Sound(name, TransferTextLabels, TransferToEdit)
<1>1. Annotated(name, "edit", Seen("find_element", "it", "typeEdit", "title"))
  OBVIOUS
<1>2. Annotated(name, "typeEdit", Need("type_label", "it", "confirmEdit", "title"))
  OBVIOUS
<1>3. Annotated(name, "confirmEdit", Seen("observe", "it", "yes", "title"))
  OBVIOUS
<1> HIDE DEF Annotated
<1> QED BY <1>1, <1>2, <1>3 DEF Sound, Fits, TransferToEdit, TransferTextLabels

\* The steps of TransferToTitle keep what the tables say.
LEMMA TransferToTitleSound ==
    ASSUME NEW name \in Transfer
    PROVE Sound(name, TransferTextLabels, TransferToTitle)
<1>1. Annotated(name, "title", Seen("find_element", "it", "typeTitle", "type"))
  OBVIOUS
<1>2. Annotated(name, "typeTitle", Need("type_label", "it", "confirmTitle", "type"))
  OBVIOUS
<1>3. Annotated(name, "confirmTitle", Seen("observe", "it", "yes", "type"))
  OBVIOUS
<1> HIDE DEF Annotated
<1> QED BY <1>1, <1>2, <1>3 DEF Sound, Fits, TransferToTitle, TransferTextLabels

\* The steps of TransferByTyping keep what the tables say.
LEMMA TransferByTypingSound ==
    ASSUME NEW name \in Transfer
    PROVE Sound(name, TransferTextLabels, TransferByTyping)
<1>1. Annotated(name, "type", Need("type", "it", "confirmType", "no"))
  OBVIOUS
<1>2. Annotated(name, "confirmType", Seen("observe", "it", "yes", "no"))
  OBVIOUS
<1> HIDE DEF Annotated
<1> QED BY <1>1, <1>2 DEF Sound, Fits, TransferByTyping, TransferTextLabels

\* The steps of TransferText keep what the tables say.
LEMMA TransferTextSound ==
    ASSUME NEW name \in Transfer
    PROVE Sound(name, DOMAIN TransferText, TransferText)
<1>1. Sound(name, TransferTextLabels, TransferByPaste)
  BY FocusAndCopySound, PasteAndConfirmSound, Joined DEF TransferByPaste
<1>2. Sound(name, TransferTextLabels, TransferByLabel)
  BY TransferToEditSound, TransferToTitleSound, Joined DEF TransferByLabel
<1>3. Sound(name, TransferTextLabels, TransferByPaste ++ TransferByLabel)
  BY <1>1, <1>2, Joined
<1>4. Sound(name, TransferTextLabels, TransferText)
  BY <1>3, TransferByTypingSound, Joined DEF TransferText
<1> QED BY <1>4, TransferTextDomain

\* The steps of OpenObserveAct keep what the tables say.
LEMMA OpenObserveActSound == Sound("act_verify", OpenObserveActVerifyLabels, OpenObserveAct)
<1>1. Annotated("act_verify", "start", Need("open_or_focus", "it", "locate", "no"))
  OBVIOUS
<1>2. Annotated("act_verify", "locate", Need("capture_and_locate", "it", "given", "no"))
  OBVIOUS
<1>3. Annotated("act_verify", "given", Seen("has_text", "it", "act", "verify"))
  OBVIOUS
<1>4. Annotated("act_verify", "act", Need("transfer_text", "it", "verify", "no"))
  OBVIOUS
<1> HIDE DEF Annotated
<1> QED BY <1>1, <1>2, <1>3, <1>4 DEF Sound, Fits, OpenObserveAct, OpenObserveActVerifyLabels

\* The steps of ActVerify keep what the tables say.
LEMMA ActVerifySound == Sound("act_verify", OpenObserveActVerifyLabels, ActVerify)
<1>1. Annotated("act_verify", "verify", Seen("observe", "it", "yes", "retry"))
  OBVIOUS
<1>2. Annotated("act_verify", "retry", Seen("recoverable", "it", "refocus", "no"))
  OBVIOUS
<1>3. Annotated("act_verify", "refocus", Need("open_or_focus", "it", "givenAgain", "no"))
  OBVIOUS
<1> HIDE DEF Annotated
<1> QED BY <1>1, <1>2, <1>3 DEF Sound, Fits, ActVerify, OpenObserveActVerifyLabels

\* The steps of ActAgain keep what the tables say.
LEMMA ActAgainSound == Sound("act_verify", OpenObserveActVerifyLabels, ActAgain)
<1>1. Annotated("act_verify", "givenAgain",
                Seen("has_text", "it", "actAgain", "verifyAgain"))
  OBVIOUS
<1>2. Annotated("act_verify", "actAgain", Need("transfer_text", "it", "verifyAgain", "no"))
  OBVIOUS
<1>3. Annotated("act_verify", "verifyAgain", Seen("observe", "it", "yes", "no"))
  OBVIOUS
<1> HIDE DEF Annotated
<1> QED BY <1>1, <1>2, <1>3 DEF Sound, Fits, ActAgain, OpenObserveActVerifyLabels

\* The steps of OpenObserveActVerify keep what the tables say.
LEMMA OpenObserveActVerifySound ==
    Sound("act_verify", DOMAIN OpenObserveActVerify, OpenObserveActVerify)
<1>1. Sound("act_verify", OpenObserveActVerifyLabels, OpenObserveAct ++ ActVerify)
  BY OpenObserveActSound, ActVerifySound, Joined
<1>2. Sound("act_verify", OpenObserveActVerifyLabels, OpenObserveActVerify)
  BY <1>1, ActAgainSound, Joined DEF OpenObserveActVerify
<1> QED BY <1>2, OpenObserveActVerifyDomain

\* The steps of ExtractThenTransfer keep what the tables say.
LEMMA ExtractThenTransferSound ==
    Sound("extract_then_transfer", DOMAIN ExtractThenTransfer, ExtractThenTransfer)
<1>1. Annotated("extract_then_transfer", "start",
                Seen("inspect_dom", "browser", "deliver", "no"))
  OBVIOUS
<1>2. Annotated("extract_then_transfer", "deliver",
                Seen("transfer_and_submit", "it", "yes", "no"))
  OBVIOUS
<1> HIDE DEF Annotated
<1> QED BY <1>1, <1>2 DEF Sound, Fits, ExtractThenTransfer

\* The steps of ClickElementByName keep what the tables say.
LEMMA ClickElementByNameSound ==
    Sound("click_element_by_name", DOMAIN ClickElementByName, ClickElementByName)
BY PlainProgram DEF PlainStep, Fits, Plain, ClickElementByName

\* The steps of TypeElementByName keep what the tables say.
LEMMA TypeElementByNameSound ==
    Sound("type_element_by_name", DOMAIN TypeElementByName, TypeElementByName)
<1>1. Annotated("type_element_by_name", "start", Need("type_element", "it", "yes", "no"))
  OBVIOUS
<1> HIDE DEF Annotated
<1> QED BY <1>1 DEF Sound, Fits, TypeElementByName

\* The steps of BrowserToEditor keep what the tables say.
LEMMA BrowserToEditorSound ==
    Sound("browser_to_editor", DOMAIN BrowserToEditor, BrowserToEditor)
<1>1. Annotated("browser_to_editor", "start", Seen("inspect_dom", "browser", "stage", "no"))
  OBVIOUS
<1>2. Annotated("browser_to_editor", "stage", Seen("act_verify", "it", "yes", "no"))
  OBVIOUS
<1> HIDE DEF Annotated
<1> QED BY <1>1, <1>2 DEF Sound, Fits, BrowserToEditor

\* The steps of CaptureAndCompare keep what the tables say.
LEMMA CaptureAndCompareSound ==
    Sound("route_capture_transfer", RouteCaptureTransferLabels, CaptureAndCompare)
<1>1. Annotated("route_capture_transfer", "start",
                Seen("inspect_dom", "browser", "compare", "no"))
  OBVIOUS
<1>2. Annotated("route_capture_transfer", "compare",
                Need("switch_collect_compare", "it", "route", "no"))
  OBVIOUS
<1> HIDE DEF Annotated
<1> QED BY <1>1, <1>2 DEF Sound, Fits, CaptureAndCompare, RouteCaptureTransferLabels

\* The steps of DeliverToRoute keep what the tables say.
LEMMA DeliverToRouteSound ==
    Sound("route_capture_transfer", RouteCaptureTransferLabels, DeliverToRoute)
<1>1. Annotated("route_capture_transfer", "route", Then("select_route", "it", "deliver"))
  OBVIOUS
<1>2. Annotated("route_capture_transfer", "deliver",
                Seen("act_verify", "selected", "yes", "no"))
  OBVIOUS
<1> HIDE DEF Annotated
<1> QED BY <1>1, <1>2 DEF Sound, Fits, DeliverToRoute, RouteCaptureTransferLabels

\* The steps of RouteCaptureTransfer keep what the tables say.
LEMMA RouteCaptureTransferSound ==
    Sound("route_capture_transfer", DOMAIN RouteCaptureTransfer, RouteCaptureTransfer)
<1>1. Sound("route_capture_transfer", RouteCaptureTransferLabels, RouteCaptureTransfer)
  BY CaptureAndCompareSound, DeliverToRouteSound, Joined DEF RouteCaptureTransfer
<1> QED BY <1>1, RouteCaptureTransferDomain

\* The steps of EditorStageAndDeliver keep what the tables say.
LEMMA EditorStageAndDeliverSound ==
    Sound("editor_stage_and_deliver", DOMAIN EditorStageAndDeliver, EditorStageAndDeliver)
<1>1. Annotated("editor_stage_and_deliver", "start",
                Seen("browser_to_editor", "editor", "deliver", "no"))
  OBVIOUS
<1>2. Annotated("editor_stage_and_deliver", "deliver",
                Seen("act_verify", "it", "yes", "no"))
  OBVIOUS
<1> HIDE DEF Annotated
<1> QED BY <1>1, <1>2 DEF Sound, Fits, EditorStageAndDeliver

\* The steps of EditorChatStageAndDeliver keep what the tables say.
LEMMA EditorChatStageAndDeliverSound ==
    Sound("editor_chat_stage_and_deliver",
          DOMAIN EditorChatStageAndDeliver, EditorChatStageAndDeliver)
<1>1. Annotated("editor_chat_stage_and_deliver", "start",
                Seen("editor_stage_and_deliver", "it", "yes", "no"))
  OBVIOUS
<1> HIDE DEF Annotated
<1> QED BY <1>1 DEF Sound, Fits, EditorChatStageAndDeliver

\* The steps of EditorChatStageAndDeliverVerify keep what the tables say.
LEMMA EditorChatStageAndDeliverVerifySound ==
    Sound("editor_chat_stage_and_deliver_verify",
          DOMAIN EditorChatStageAndDeliverVerify, EditorChatStageAndDeliverVerify)
<1>1. Annotated("editor_chat_stage_and_deliver_verify", "start",
                Seen("editor_chat_stage_and_deliver", "it", "yes", "no"))
  OBVIOUS
<1> HIDE DEF Annotated
<1> QED BY <1>1 DEF Sound, Fits, EditorChatStageAndDeliverVerify

\* The steps of FileReadTransformTransfer keep what the tables say.
LEMMA FileReadTransformTransferSound ==
    Sound("file_read_transform_transfer",
          DOMAIN FileReadTransformTransfer, FileReadTransformTransfer)
<1>1. Annotated("file_read_transform_transfer", "start",
                Call("read_workspace_text", "it", "command", "no", "deliver", "no"))
  OBVIOUS
<1>2. Annotated("file_read_transform_transfer", "command",
                Seen("read_text", "it", "deliver", "no"))
  OBVIOUS
<1>3. Annotated("file_read_transform_transfer", "deliver",
                Seen("act_verify", "it", "yes", "no"))
  OBVIOUS
<1> HIDE DEF Annotated
<1> QED BY <1>1, <1>2, <1>3 DEF Sound, Fits, FileReadTransformTransfer

\* The steps of ReadAndInspect keep what the tables say.
LEMMA ReadAndInspectSound ==
    Sound("file_browser_chat_route_deliver", FileBrowserChatRouteDeliverLabels, ReadAndInspect)
<1>1. Annotated("file_browser_chat_route_deliver", "start",
                Seen("read_text", "it", "inspect", "no"))
  OBVIOUS
<1>2. Annotated("file_browser_chat_route_deliver", "inspect",
                Call("inspect_dom", "browser", "no", "basis", "deliver", "no"))
  OBVIOUS
<1> HIDE DEF Annotated
<1> QED BY <1>1, <1>2 DEF Sound, Fits, ReadAndInspect, FileBrowserChatRouteDeliverLabels

\* The steps of DeliverOnBasis keep what the tables say.
LEMMA DeliverOnBasisSound ==
    Sound("file_browser_chat_route_deliver", FileBrowserChatRouteDeliverLabels, DeliverOnBasis)
<1>1. Annotated("file_browser_chat_route_deliver", "basis",
                Seen("has_query", "it", "deliver", "no"))
  OBVIOUS
<1>2. Annotated("file_browser_chat_route_deliver", "deliver",
                Seen("act_verify", "it", "yes", "no"))
  OBVIOUS
<1> HIDE DEF Annotated
<1> QED BY <1>1, <1>2 DEF Sound, Fits, DeliverOnBasis, FileBrowserChatRouteDeliverLabels

\* The steps of FileBrowserChatRouteDeliver keep what the tables say.
LEMMA FileBrowserChatRouteDeliverSound ==
    Sound("file_browser_chat_route_deliver",
          DOMAIN FileBrowserChatRouteDeliver, FileBrowserChatRouteDeliver)
<1>1. Sound("file_browser_chat_route_deliver",
            FileBrowserChatRouteDeliverLabels, FileBrowserChatRouteDeliver)
  BY ReadAndInspectSound, DeliverOnBasisSound, Joined DEF FileBrowserChatRouteDeliver
<1> QED BY <1>1, FileBrowserChatRouteDeliverDomain

\* The steps of FileBrowserChatRouteDeliverVerify keep what the tables say.
LEMMA FileBrowserChatRouteDeliverVerifySound ==
    Sound("file_browser_chat_route_deliver_verify",
          DOMAIN FileBrowserChatRouteDeliverVerify, FileBrowserChatRouteDeliverVerify)
<1>1. Annotated("file_browser_chat_route_deliver_verify", "start",
                Seen("file_browser_chat_route_deliver", "it", "yes", "no"))
  OBVIOUS
<1> HIDE DEF Annotated
<1> QED BY <1>1 DEF Sound, Fits, FileBrowserChatRouteDeliverVerify

\* The steps of FileBrowserRouteBasis keep what the tables say.
LEMMA FileBrowserRouteBasisSound ==
    Sound("file_browser_route_deliver", FileBrowserRouteDeliverLabels, FileBrowserRouteBasis)
<1>1. Annotated("file_browser_route_deliver", "start",
                Seen("read_text", "it", "inspect", "no"))
  OBVIOUS
<1>2. Annotated("file_browser_route_deliver", "inspect",
                Call("inspect_dom", "browser", "no", "basis", "compare", "no"))
  OBVIOUS
<1>3. Annotated("file_browser_route_deliver", "basis",
                Seen("has_query", "it", "compare", "no"))
  OBVIOUS
<1> HIDE DEF Annotated
<1> QED BY <1>1, <1>2, <1>3 DEF Sound, Fits, FileBrowserRouteBasis,
           FileBrowserRouteDeliverLabels

\* The steps of FileBrowserRouteTarget keep what the tables say.
LEMMA FileBrowserRouteTargetSound ==
    Sound("file_browser_route_deliver", FileBrowserRouteDeliverLabels, FileBrowserRouteTarget)
<1>1. Annotated("file_browser_route_deliver", "compare",
                Need("switch_collect_compare", "it", "route", "no"))
  OBVIOUS
<1>2. Annotated("file_browser_route_deliver", "route",
                Then("select_route", "it", "deliver"))
  OBVIOUS
<1>3. Annotated("file_browser_route_deliver", "deliver",
                Seen("act_verify", "selected", "yes", "no"))
  OBVIOUS
<1> HIDE DEF Annotated
<1> QED BY <1>1, <1>2, <1>3 DEF Sound, Fits, FileBrowserRouteTarget,
           FileBrowserRouteDeliverLabels

\* The steps of FileBrowserRouteDeliver keep what the tables say.
LEMMA FileBrowserRouteDeliverSound ==
    Sound("file_browser_route_deliver",
          DOMAIN FileBrowserRouteDeliver, FileBrowserRouteDeliver)
<1>1. Sound("file_browser_route_deliver", FileBrowserRouteDeliverLabels, FileBrowserRouteDeliver)
  BY FileBrowserRouteBasisSound, FileBrowserRouteTargetSound, Joined DEF FileBrowserRouteDeliver
<1> QED BY <1>1, FileBrowserRouteDeliverDomain

\* The steps of FileBrowserRouteDeliverVerify keep what the tables say.
LEMMA FileBrowserRouteDeliverVerifySound ==
    Sound("file_browser_route_deliver_verify",
          DOMAIN FileBrowserRouteDeliverVerify, FileBrowserRouteDeliverVerify)
<1>1. Annotated("file_browser_route_deliver_verify", "start",
                Seen("file_browser_route_deliver", "it", "yes", "no"))
  OBVIOUS
<1> HIDE DEF Annotated
<1> QED BY <1>1 DEF Sound, Fits, FileBrowserRouteDeliverVerify

\* The steps of MultiWindowCollect keep what the tables say.
LEMMA MultiWindowCollectSound ==
    Sound("multi_window_route_execute", MultiWindowRouteExecuteLabels, MultiWindowCollect)
<1>1. Annotated("multi_window_route_execute", "start",
                Need("app_list", "it", "first", "no"))
  OBVIOUS
<1>2. Annotated("multi_window_route_execute", "first",
                Seen("collect_window", "primary", "second", "no"))
  OBVIOUS
<1>3. Annotated("multi_window_route_execute", "second",
                Seen("collect_window", "secondary", "route", "no"))
  OBVIOUS
<1>4. Annotated("multi_window_route_execute", "route", Then("select_route", "it", "act"))
  OBVIOUS
<1> HIDE DEF Annotated
<1> QED BY <1>1, <1>2, <1>3, <1>4 DEF Sound, Fits, MultiWindowCollect,
           MultiWindowRouteExecuteLabels

\* The steps of MultiWindowAct keep what the tables say.
LEMMA MultiWindowActSound ==
    Sound("multi_window_route_execute", MultiWindowRouteExecuteLabels, MultiWindowAct)
<1>1. Annotated("multi_window_route_execute", "act",
                Seen("act_verify", "selected", "yes", "retry"))
  OBVIOUS
<1>2. Annotated("multi_window_route_execute", "retry",
                Seen("recoverable", "it", "refocus", "no"))
  OBVIOUS
<1>3. Annotated("multi_window_route_execute", "refocus",
                Need("open_or_focus", "selected", "actAgain", "no"))
  OBVIOUS
<1>4. Annotated("multi_window_route_execute", "actAgain",
                Seen("act_verify", "selected", "yes", "no"))
  OBVIOUS
<1> HIDE DEF Annotated
<1> QED BY <1>1, <1>2, <1>3, <1>4 DEF Sound, Fits, MultiWindowAct, MultiWindowRouteExecuteLabels

\* The steps of MultiWindowRouteExecute keep what the tables say.
LEMMA MultiWindowRouteExecuteSound ==
    Sound("multi_window_route_execute",
          DOMAIN MultiWindowRouteExecute, MultiWindowRouteExecute)
<1>1. Sound("multi_window_route_execute", MultiWindowRouteExecuteLabels, MultiWindowRouteExecute)
  BY MultiWindowCollectSound, MultiWindowActSound, Joined DEF MultiWindowRouteExecute
<1> QED BY <1>1, MultiWindowRouteExecuteDomain

\* The steps of CollectBoth keep what the tables say.
LEMMA CollectBothSound ==
    Sound("multi_window_route_deliver_verify", MultiWindowRouteDeliverVerifyLabels, CollectBoth)
<1>1. Annotated("multi_window_route_deliver_verify", "start",
                Then("app_list", "it", "first"))
  OBVIOUS
<1>2. Annotated("multi_window_route_deliver_verify", "first",
                Seen("collect_window", "primary", "second", "no"))
  OBVIOUS
<1>3. Annotated("multi_window_route_deliver_verify", "second",
                Seen("collect_window", "secondary", "route", "no"))
  OBVIOUS
<1> HIDE DEF Annotated
<1> QED BY <1>1, <1>2, <1>3 DEF Sound, Fits, CollectBoth, MultiWindowRouteDeliverVerifyLabels

\* The steps of DeliverToSelected keep what the tables say.
LEMMA DeliverToSelectedSound ==
    Sound("multi_window_route_deliver_verify",
          MultiWindowRouteDeliverVerifyLabels, DeliverToSelected)
<1>1. Annotated("multi_window_route_deliver_verify", "route",
                Then("select_route", "it", "deliver"))
  OBVIOUS
<1>2. Annotated("multi_window_route_deliver_verify", "deliver",
                Seen("act_verify", "selected", "yes", "no"))
  OBVIOUS
<1> HIDE DEF Annotated
<1> QED BY <1>1, <1>2 DEF Sound, Fits, DeliverToSelected, MultiWindowRouteDeliverVerifyLabels

\* The steps of MultiWindowRouteDeliverVerify keep what the tables say.
LEMMA MultiWindowRouteDeliverVerifySound ==
    Sound("multi_window_route_deliver_verify",
          DOMAIN MultiWindowRouteDeliverVerify, MultiWindowRouteDeliverVerify)
<1>1. Sound("multi_window_route_deliver_verify",
            MultiWindowRouteDeliverVerifyLabels, MultiWindowRouteDeliverVerify)
  BY CollectBothSound, DeliverToSelectedSound, Joined DEF MultiWindowRouteDeliverVerify
<1> QED BY <1>1, MultiWindowRouteDeliverVerifyDomain

\* The steps of SendToChatChecked keep what the tables say.
LEMMA SendToChatCheckedSound ==
    Sound("file_send_to_chat_window", FileSendToChatWindowLabels, SendToChatChecked)
<1>1. Annotated("file_send_to_chat_window", "start", Seen("is_chat", "it", "info", "no"))
  OBVIOUS
<1>2. Annotated("file_send_to_chat_window", "info", Need("file_info", "it", "focus", "no"))
  OBVIOUS
<1> HIDE DEF Annotated
<1> QED BY <1>1, <1>2 DEF Sound, Fits, SendToChatChecked, FileSendToChatWindowLabels

\* The steps of SendToChatAttach keep what the tables say.
LEMMA SendToChatAttachSound ==
    Sound("file_send_to_chat_window", FileSendToChatWindowLabels, SendToChatAttach)
<1>1. Annotated("file_send_to_chat_window", "focus",
                Need("open_or_focus", "it", "attach", "no"))
  OBVIOUS
<1>2. Annotated("file_send_to_chat_window", "attach",
                Need("click_named", "it", "path", "no"))
  OBVIOUS
<1>3. Annotated("file_send_to_chat_window", "path",
                Need("type_path_named", "it", "open", "pick"))
  OBVIOUS
<1> HIDE DEF Annotated
<1> QED BY <1>1, <1>2, <1>3 DEF Sound, Fits, SendToChatAttach, FileSendToChatWindowLabels

\* The steps of SendToChatPicked keep what the tables say.
LEMMA SendToChatPickedSound ==
    Sound("file_send_to_chat_window", FileSendToChatWindowLabels, SendToChatPicked)
<1>1. Annotated("file_send_to_chat_window", "pick",
                Need("explorer_select", "it", "sendPicked", "no"))
  OBVIOUS
<1>2. Annotated("file_send_to_chat_window", "sendPicked",
                Seen("asked_to_send", "it", "enterPicked", "yes"))
  OBVIOUS
<1>3. Annotated("file_send_to_chat_window", "enterPicked", Then("press_enter", "it", "yes"))
  OBVIOUS
<1> HIDE DEF Annotated
<1> QED BY <1>1, <1>2, <1>3 DEF Sound, Fits, SendToChatPicked, FileSendToChatWindowLabels

\* The steps of SendToChatSend keep what the tables say.
LEMMA SendToChatSendSound ==
    Sound("file_send_to_chat_window", FileSendToChatWindowLabels, SendToChatSend)
<1>1. Annotated("file_send_to_chat_window", "open", Need("open_named", "it", "send", "no"))
  OBVIOUS
<1>2. Annotated("file_send_to_chat_window", "send",
                Seen("asked_to_send", "it", "enter", "confirm"))
  OBVIOUS
<1>3. Annotated("file_send_to_chat_window", "enter",
                Need("press_enter", "it", "confirm", "no"))
  OBVIOUS
<1> HIDE DEF Annotated
<1> QED BY <1>1, <1>2, <1>3 DEF Sound, Fits, SendToChatSend, FileSendToChatWindowLabels

\* The steps of SendToChatConfirm keep what the tables say.
LEMMA SendToChatConfirmSound ==
    Sound("file_send_to_chat_window", FileSendToChatWindowLabels, SendToChatConfirm)
<1>1. Annotated("file_send_to_chat_window", "confirm", Seen("observe", "it", "yes", "no"))
  OBVIOUS
<1> HIDE DEF Annotated
<1> QED BY <1>1 DEF Sound, Fits, SendToChatConfirm, FileSendToChatWindowLabels

\* The steps of FileSendToChatWindow keep what the tables say.
LEMMA FileSendToChatWindowSound ==
    Sound("file_send_to_chat_window", DOMAIN FileSendToChatWindow, FileSendToChatWindow)
<1>1. Sound("file_send_to_chat_window",
            FileSendToChatWindowLabels, SendToChatChecked ++ SendToChatAttach)
  BY SendToChatCheckedSound, SendToChatAttachSound, Joined
<1>2. Sound("file_send_to_chat_window",
            FileSendToChatWindowLabels, SendToChatChecked ++ SendToChatAttach ++ SendToChatPicked)
  BY <1>1, SendToChatPickedSound, Joined
<1>3. Sound("file_send_to_chat_window",
            FileSendToChatWindowLabels,
            SendToChatChecked ++ SendToChatAttach ++ SendToChatPicked ++ SendToChatSend)
  BY <1>2, SendToChatSendSound, Joined
<1>4. Sound("file_send_to_chat_window", FileSendToChatWindowLabels, FileSendToChatWindow)
  BY <1>3, SendToChatConfirmSound, Joined DEF FileSendToChatWindow
<1> QED BY <1>4, FileSendToChatWindowDomain

\* The steps of ClickNamed keep what the tables say.
LEMMA ClickNamedSound == Sound("click_named", DOMAIN ClickNamed, ClickNamed)
BY PlainProgram DEF PlainStep, Fits, Plain, ClickNamed

\* The steps of TypePathNamed keep what the tables say.
LEMMA TypePathNamedSound == Sound("type_path_named", DOMAIN TypePathNamed, TypePathNamed)
BY PlainProgram DEF PlainStep, Fits, Plain, TypePathNamed

\* The steps of OpenNamed keep what the tables say.
LEMMA OpenNamedSound == Sound("open_named", DOMAIN OpenNamed, OpenNamed)
<1>1. Annotated("open_named", "start", Need("open_file", "it", "yes", "more"))
  OBVIOUS
<1>2. Annotated("open_named", "more", Seen("another_try", "it", "start", "no"))
  OBVIOUS
<1> HIDE DEF Annotated
<1> QED BY <1>1, <1>2 DEF Sound, Fits, OpenNamed

\* The steps of ExplorerSelect keep what the tables say.
LEMMA ExplorerSelectSound == Sound("explorer_select", DOMAIN ExplorerSelect, ExplorerSelect)
<1>1. Annotated("explorer_select", "start", Need("type_path_named", "it", "pick", "tree"))
  OBVIOUS
<1>2. Annotated("explorer_select", "pick", Need("click_element", "it", "confirm", "no"))
  OBVIOUS
<1>3. Annotated("explorer_select", "confirm", Then("open_file", "it", "yes"))
  OBVIOUS
<1>4. Annotated("explorer_select", "tree", Seen("explorer_tree", "it", "yes", "no"))
  OBVIOUS
<1> HIDE DEF Annotated
<1> QED BY <1>1, <1>2, <1>3, <1>4 DEF Sound, Fits, ExplorerSelect

\* The steps of ExplorerTree keep what the tables say.
LEMMA ExplorerTreeSound == Sound("explorer_tree", DOMAIN ExplorerTree, ExplorerTree)
<1>1. Annotated("explorer_tree", "start", Seen("on_a_drive", "it", "drive", "no"))
  OBVIOUS
<1>2. Annotated("explorer_tree", "drive", Need("click_element", "it", "folder", "no"))
  OBVIOUS
<1>3. Annotated("explorer_tree", "folder", Seen("another_folder", "it", "enter", "file"))
  OBVIOUS
<1>4. Annotated("explorer_tree", "enter", Need("click_element", "it", "count", "no"))
  OBVIOUS
<1>5. Annotated("explorer_tree", "count", Seen("another_try", "it", "folder", "file"))
  OBVIOUS
<1>6. Annotated("explorer_tree", "file", Need("click_element", "it", "confirm", "no"))
  OBVIOUS
<1>7. Annotated("explorer_tree", "confirm", Then("open_file", "it", "yes"))
  OBVIOUS
<1> HIDE DEF Annotated
<1> QED BY <1>1, <1>2, <1>3, <1>4, <1>5, <1>6, <1>7 DEF Sound, Fits, ExplorerTree

\* The steps of FormSubmitRecovery keep what the tables say.
LEMMA FormSubmitRecoverySound ==
    Sound("form_submit_recovery", DOMAIN FormSubmitRecovery, FormSubmitRecovery)
<1>1. Annotated("form_submit_recovery", "start",
                Need("click_element_by_name", "it", "deliver", "more"))
  OBVIOUS
<1>2. Annotated("form_submit_recovery", "deliver",
                Seen("transfer_if_asked", "it", "yes", "more"))
  OBVIOUS
<1>3. Annotated("form_submit_recovery", "more", Seen("another_try", "it", "start", "no"))
  OBVIOUS
<1> HIDE DEF Annotated
<1> QED BY <1>1, <1>2, <1>3 DEF Sound, Fits, FormSubmitRecovery

\* The steps of EditorChatTemplate keep what the tables say.
LEMMA EditorChatTemplateSound ==
    Sound("editor_chat_template", DOMAIN EditorChatTemplate, EditorChatTemplate)
<1>1. Annotated("editor_chat_template", "start",
                Seen("editor_chat_stage_and_deliver_verify", "it", "yes", "no"))
  OBVIOUS
<1> HIDE DEF Annotated
<1> QED BY <1>1 DEF Sound, Fits, Verified, EditorChatTemplate

\* The steps of FileBrowserTemplate keep what the tables say.
LEMMA FileBrowserTemplateSound ==
    Sound("file_browser_template", DOMAIN FileBrowserTemplate, FileBrowserTemplate)
<1>1. Annotated("file_browser_template", "start",
                Seen("file_browser_route_deliver_verify", "it", "yes", "no"))
  OBVIOUS
<1> HIDE DEF Annotated
<1> QED BY <1>1 DEF Sound, Fits, Verified, FileBrowserTemplate

\* The steps of MultiWindowTemplate keep what the tables say.
LEMMA MultiWindowTemplateSound ==
    Sound("multi_window_template", DOMAIN MultiWindowTemplate, MultiWindowTemplate)
<1>1. Annotated("multi_window_template", "start",
                Seen("multi_window_route_deliver_verify", "it", "yes", "no"))
  OBVIOUS
<1> HIDE DEF Annotated
<1> QED BY <1>1 DEF Sound, Fits, Verified, MultiWindowTemplate

\* The steps of EditorChatReplyTemplate keep what the tables say.
LEMMA EditorChatReplyTemplateSound ==
    Sound("editor_chat_reply_template",
          DOMAIN EditorChatReplyTemplate, EditorChatReplyTemplate)
<1>1. Annotated("editor_chat_reply_template", "start",
                Seen("editor_chat_stage_and_deliver_verify", "it", "yes", "no"))
  OBVIOUS
<1> HIDE DEF Annotated
<1> QED BY <1>1 DEF Sound, Fits, Verified, EditorChatReplyTemplate

\* The steps of DocDeliverTemplate keep what the tables say.
LEMMA DocDeliverTemplateSound ==
    Sound("doc_deliver_template", DOMAIN DocDeliverTemplate, DocDeliverTemplate)
<1>1. Annotated("doc_deliver_template", "start",
                Seen("editor_stage_and_deliver", "it", "yes", "no"))
  OBVIOUS
<1> HIDE DEF Annotated
<1> QED BY <1>1 DEF Sound, Fits, Verified, DocDeliverTemplate

\* The steps of CompareDeliverTemplate keep what the tables say.
LEMMA CompareDeliverTemplateSound ==
    Sound("compare_deliver_template", DOMAIN CompareDeliverTemplate, CompareDeliverTemplate)
<1>1. Annotated("compare_deliver_template", "start",
                Seen("multi_window_route_deliver_verify", "it", "yes", "no"))
  OBVIOUS
<1> HIDE DEF Annotated
<1> QED BY <1>1 DEF Sound, Fits, Verified, CompareDeliverTemplate

\* The steps of ExtractPostTemplate keep what the tables say.
LEMMA ExtractPostTemplateSound ==
    Sound("extract_post_template", DOMAIN ExtractPostTemplate, ExtractPostTemplate)
<1>1. Annotated("extract_post_template", "start",
                Seen("extract_then_transfer", "it", "yes", "no"))
  OBVIOUS
<1> HIDE DEF Annotated
<1> QED BY <1>1 DEF Sound, Fits, Verified, ExtractPostTemplate

\* The steps of FormSubmitTemplate keep what the tables say.
LEMMA FormSubmitTemplateSound ==
    Sound("form_submit_template", DOMAIN FormSubmitTemplate, FormSubmitTemplate)
<1>1. Annotated("form_submit_template", "start",
                Seen("file_read_transform_transfer", "it", "yes", "text"))
  OBVIOUS
<1>2. Annotated("form_submit_template", "text",
                Seen("text_was_read", "it", "recover", "no"))
  OBVIOUS
<1>3. Annotated("form_submit_template", "recover", Relay("form_submit_recovery", "it"))
  OBVIOUS
<1> HIDE DEF Annotated
<1> QED BY <1>1, <1>2, <1>3 DEF Sound, Fits, FormSubmitTemplate

HIDE Names DEF
    AllNames, CapNames, ToolNames, RouteKept, WellNested, FrontKept, CleanKept, EnterKept,
      FreshKept, DeliveryKept, TextKept, Annotated, FrontAt, RoutedAt, CleanAt, MayEnterAt, FreshAt,
      FreshEnterAt, DeliveredAt, HaveTextAt, IsProgram, Reply, Answer, Window, Answered, Need, Call,
      Step, Then, Seen, Relay, Focusing, Inserting, Entering, Inner, Inserter, FromFile, Transfer,
      Router, Outer, Routed, Staged, Stager, Core, CalledFromWithin, Writing, Submitter, Submitting,
      Doubting, Typing, Deliverer

\* Every program keeps what the tables say.
LEMMA Annotations == ProgramsAnnotated
<1> DEFINE Held(name) ==
        Sound(name, DOMAIN Program[name], Program[name]) /\ "start" \in DOMAIN Program[name]
<1>1. Held("snapshot")
  <2>1. Program["snapshot"] = SnapshotTool
    BY DEF Program, ++, Capability, WindowsTool
  <2> QED BY <2>1, SnapshotToolSound DEF Transfer, ++, SnapshotTool
<1>2. Held("reliable_snapshot")
  <2>1. Program["reliable_snapshot"] = ReliableSnapshot
    BY DEF Program, ++, Capability, WindowsTool
  <2> QED BY <2>1, ReliableSnapshotSound DEF Transfer, ++, ReliableSnapshot
<1>3. Held("screenshot")
  <2>1. Program["screenshot"] = Direct("Screenshot")
    BY DEF Program, ++, Capability, WindowsTool
  <2> QED BY <2>1, ScreenshotSound DEF Transfer, ++, Direct
<1>4. Held("focus_window")
  <2>1. Program["focus_window"] = FocusWindow
    BY DEF Program, ++, Capability, WindowsTool
  <2> QED BY <2>1, FocusWindowSound DEF Transfer, ++, FocusWindow
<1>5. Held("app_launch")
  <2>1. Program["app_launch"] = AppLaunch
    BY DEF Program, ++, Capability, WindowsTool
  <2> QED BY <2>1, AppLaunchSound DEF Transfer, ++, AppLaunch, WithVerification
<1>6. Held("app_switch")
  <2>1. Program["app_switch"] = AppSwitch
    BY DEF Program, ++, Capability, WindowsTool
  <2> QED BY <2>1, AppSwitchSound DEF Transfer, ++, AppSwitch, WithVerification
<1>7. Held("app_list")
  <2>1. Program["app_list"] = Direct("AppList")
    BY DEF Program, ++, Capability, WindowsTool
  <2> QED BY <2>1, AppListSound DEF Transfer, ++, Direct
<1>8. Held("shell_launch")
  <2>1. Program["shell_launch"] = Direct("ShellLaunch")
    BY DEF Program, ++, Capability, WindowsTool
  <2> QED BY <2>1, ShellLaunchSound DEF Transfer, ++, Direct
<1>9. Held("set_clipboard")
  <2>1. Program["set_clipboard"] = Direct("ClipboardSet")
    BY DEF Program, ++, Capability, WindowsTool
  <2> QED BY <2>1, SetClipboardSound DEF Transfer, ++, Direct
<1>10. Held("read_clipboard")
  <2>1. Program["read_clipboard"] = Direct("ClipboardGet")
    BY DEF Program, ++, Capability, WindowsTool
  <2> QED BY <2>1, ReadClipboardSound DEF Transfer, ++, Direct
<1>11. Held("address_bar")
  <2>1. Program["address_bar"] = Direct("AddressBar")
    BY DEF Program, ++, Capability, WindowsTool
  <2> QED BY <2>1, AddressBarSound DEF Transfer, ++, Direct
<1>12. Held("paste")
  <2>1. Program["paste"] = Direct("Paste")
    BY DEF Program, ++, Capability, WindowsTool
  <2> QED BY <2>1, PasteSound DEF Transfer, ++, Direct
<1>13. Held("press_enter")
  <2>1. Program["press_enter"] = Direct("Enter")
    BY DEF Program, ++, Capability, WindowsTool
  <2> QED BY <2>1, PressEnterSound DEF Transfer, ++, Direct
<1>14. Held("file_info")
  <2>1. Program["file_info"] = Direct("FileInfo")
    BY DEF Program, ++, Capability, WindowsTool
  <2> QED BY <2>1, FileInfoSound DEF Transfer, ++, Direct
<1>15. Held("click_label")
  <2>1. Program["click_label"] = ClickLabel
    BY DEF Program, ++, Capability, WindowsTool
  <2> QED BY <2>1, ClickLabelSound DEF Transfer, ++, ClickLabel, WithVerification
<1>16. Held("type_label")
  <2>1. Program["type_label"] = TypeLabel
    BY DEF Program, ++, Capability, WindowsTool
  <2> QED BY <2>1, TypeLabelSound DEF Transfer, ++, TypeLabel, WithVerification
<1>17. Held("type")
  <2>1. Program["type"] = TypeText("Type")
    BY DEF Program, ++, Capability, WindowsTool
  <2> QED BY <2>1, TypeSound DEF Transfer, ++, TypeText
<1>18. Held("find_element")
  <2>1. Program["find_element"] = FindElement
    BY DEF Program, ++, Capability, WindowsTool
  <2> QED BY <2>1, FindElementSound DEF Transfer, ++, FindElement
<1>19. Held("click_element")
  <2>1. Program["click_element"] = ClickElement
    BY DEF Program, ++, Capability, WindowsTool
  <2> QED BY <2>1, ClickElementSound DEF Transfer, ++, ClickElement
<1>20. Held("type_element")
  <2>1. Program["type_element"] = TypeElement("type_label", "type")
    BY DEF Program, ++, Capability, WindowsTool
  <2> QED BY <2>1, TypeElementSound DEF Transfer, ++, TypeElement
<1>21. Held("type_path_label")
  <2>1. Program["type_path_label"] = WithVerification("TypePath")
    BY DEF Program, ++, Capability, WindowsTool
  <2> QED BY <2>1, TypePathLabelSound DEF Transfer, ++, WithVerification
<1>22. Held("type_path_stable")
  <2>1. Program["type_path_stable"] = TypeText("TypePath")
    BY DEF Program, ++, Capability, WindowsTool
  <2> QED BY <2>1, TypePathStableSound DEF Transfer, ++, TypeText
<1>23. Held("type_path")
  <2>1. Program["type_path"] = TypeElement("type_path_label", "type_path_stable")
    BY DEF Program, ++, Capability, WindowsTool
  <2> QED BY <2>1, TypePathSound DEF Transfer, ++, TypeElement
<1>24. Held("observe")
  <2>1. Program["observe"] = DesktopObserve
    BY DEF Program, ++, Capability, WindowsTool
  <2> QED BY <2>1, DesktopObserveSound DEF Transfer, ++, DesktopObserve
<1>25. Held("capture_and_locate")
  <2>1. Program["capture_and_locate"] = CaptureAndLocate
    BY DEF Program, ++, Capability, WindowsTool
  <2> QED BY <2>1, CaptureAndLocateSound DEF Transfer, ++, CaptureAndLocate
<1>26. Held("inspect_dom")
  <2>1. Program["inspect_dom"] = InspectDom
    BY DEF Program, ++, Capability, WindowsTool
  <2> QED BY <2>1, InspectDomSound DEF Transfer, ++, InspectDom
<1>27. Held("resolve")
  <2>1. Program["resolve"] = Resolve
    BY DEF Program, ++, Capability, WindowsTool
  <2> QED BY <2>1, ResolveSound DEF Transfer, ++, Resolve
<1>28. Held("inspect_tree")
  <2>1. Program["inspect_tree"] = InspectTree
    BY DEF Program, ++, Capability, WindowsTool
  <2> QED BY <2>1, InspectTreeSound DEF Transfer, ++, InspectTree
<1>29. Held("search_text")
  <2>1. Program["search_text"] = SearchText
    BY DEF Program, ++, Capability, WindowsTool
  <2> QED BY <2>1, SearchTextSound DEF Transfer, ++, SearchText
<1>30. Held("read_text")
  <2>1. Program["read_text"] = ReadText
    BY DEF Program, ++, Capability, WindowsTool
  <2> QED BY <2>1, ReadTextSound DEF Transfer, ++, ReadText
<1>31. Held("open_or_focus")
  <2>1. Program["open_or_focus"] = OpenOrFocus
    BY DEF Program, ++, Capability, WindowsTool
  <2> QED BY <2>1, OpenOrFocusSound DEF Transfer, ++, OpenOrFocus, FocusOrShell,
             LaunchApplication
<1>32. Held("window_available")
  <2>1. Program["window_available"] = WindowAvailable
    BY DEF Program, ++, Capability, WindowsTool
  <2> QED BY <2>1, WindowAvailableSound DEF Transfer, ++, WindowAvailable
<1>33. Held("clipboard_read_write")
  <2>1. Program["clipboard_read_write"] = ClipboardReadWrite
    BY DEF Program, ++, Capability, WindowsTool
  <2> QED BY <2>1, ClipboardReadWriteSound DEF Transfer, ++, ClipboardReadWrite
<1>34. Held("collect_window")
  <2>1. Program["collect_window"] = CollectWindow
    BY DEF Program, ++, Capability, WindowsTool
  <2> QED BY <2>1, CollectWindowSound DEF Transfer, ++, CollectWindow, CollectFocused,
    CollectRefocused
<1>35. Held("switch_collect_compare")
  <2>1. Program["switch_collect_compare"] = SwitchCollectCompare
    BY DEF Program, ++, Capability, WindowsTool
  <2> QED BY <2>1, SwitchCollectCompareSound DEF Transfer, ++, SwitchCollectCompare
<1>36. Held("transfer_text")
  <2>1. Program["transfer_text"] = TransferText
    BY DEF Program, ++, Capability, WindowsTool
  <2> QED BY <2>1, TransferTextSound DEF Transfer, ++, TransferText, TransferByPaste,
             FocusAndCopy,
    PasteAndConfirm, TransferByLabel, TransferToEdit, TransferToTitle, TransferByTyping
<1>37. Held("transfer_and_submit")
  <2>1. Program["transfer_and_submit"] = TransferText
    BY DEF Program, ++, Capability, WindowsTool
  <2> QED BY <2>1, TransferTextSound DEF Transfer, ++, TransferText, TransferByPaste,
             FocusAndCopy,
    PasteAndConfirm, TransferByLabel, TransferToEdit, TransferToTitle, TransferByTyping
<1>38. Held("transfer_if_asked")
  <2>1. Program["transfer_if_asked"] = TransferText
    BY DEF Program, ++, Capability, WindowsTool
  <2> QED BY <2>1, TransferTextSound DEF Transfer, ++, TransferText, TransferByPaste,
             FocusAndCopy,
    PasteAndConfirm, TransferByLabel, TransferToEdit, TransferToTitle, TransferByTyping
<1>39. Held("act_verify")
  <2>1. Program["act_verify"] = OpenObserveActVerify
    BY DEF Program, ++, Capability, WindowsTool
  <2> QED BY <2>1, OpenObserveActVerifySound DEF Transfer, ++, OpenObserveActVerify,
             OpenObserveAct,
    ActVerify, ActAgain
<1>40. Held("extract_then_transfer")
  <2>1. Program["extract_then_transfer"] = ExtractThenTransfer
    BY DEF Program, ++, Capability, WindowsTool
  <2> QED BY <2>1, ExtractThenTransferSound DEF Transfer, ++, ExtractThenTransfer
<1>41. Held("click_element_by_name")
  <2>1. Program["click_element_by_name"] = ClickElementByName
    BY DEF Program, ++, Capability, WindowsTool
  <2> QED BY <2>1, ClickElementByNameSound DEF Transfer, ++, ClickElementByName
<1>42. Held("type_element_by_name")
  <2>1. Program["type_element_by_name"] = TypeElementByName
    BY DEF Program, ++, Capability, WindowsTool
  <2> QED BY <2>1, TypeElementByNameSound DEF Transfer, ++, TypeElementByName
<1>43. Held("browser_to_editor")
  <2>1. Program["browser_to_editor"] = BrowserToEditor
    BY DEF Program, ++, Capability, WindowsTool
  <2> QED BY <2>1, BrowserToEditorSound DEF Transfer, ++, BrowserToEditor
<1>44. Held("route_capture_transfer")
  <2>1. Program["route_capture_transfer"] = RouteCaptureTransfer
    BY DEF Program, ++, Capability, WindowsTool
  <2> QED BY <2>1, RouteCaptureTransferSound DEF Transfer, ++, RouteCaptureTransfer,
    CaptureAndCompare, DeliverToRoute
<1>45. Held("editor_stage_and_deliver")
  <2>1. Program["editor_stage_and_deliver"] = EditorStageAndDeliver
    BY DEF Program, ++, Capability, WindowsTool
  <2> QED BY <2>1, EditorStageAndDeliverSound DEF Transfer, ++, EditorStageAndDeliver
<1>46. Held("editor_chat_stage_and_deliver")
  <2>1. Program["editor_chat_stage_and_deliver"] = EditorChatStageAndDeliver
    BY DEF Program, ++, Capability, WindowsTool
  <2> QED BY <2>1, EditorChatStageAndDeliverSound DEF Transfer, ++, EditorChatStageAndDeliver
<1>47. Held("editor_chat_stage_and_deliver_verify")
  <2>1. Program["editor_chat_stage_and_deliver_verify"] = EditorChatStageAndDeliverVerify
    BY DEF Program, ++, Capability, WindowsTool
  <2> QED BY <2>1, EditorChatStageAndDeliverVerifySound DEF Transfer, ++,
    EditorChatStageAndDeliverVerify
<1>48. Held("file_read_transform_transfer")
  <2>1. Program["file_read_transform_transfer"] = FileReadTransformTransfer
    BY DEF Program, ++, Capability, WindowsTool
  <2> QED BY <2>1, FileReadTransformTransferSound DEF Transfer, ++, FileReadTransformTransfer
<1>49. Held("file_browser_chat_route_deliver")
  <2>1. Program["file_browser_chat_route_deliver"] = FileBrowserChatRouteDeliver
    BY DEF Program, ++, Capability, WindowsTool
  <2> QED BY <2>1, FileBrowserChatRouteDeliverSound DEF Transfer, ++,
             FileBrowserChatRouteDeliver,
    ReadAndInspect, DeliverOnBasis
<1>50. Held("file_browser_chat_route_deliver_verify")
  <2>1. Program["file_browser_chat_route_deliver_verify"] = FileBrowserChatRouteDeliverVerify
    BY DEF Program, ++, Capability, WindowsTool
  <2> QED BY <2>1, FileBrowserChatRouteDeliverVerifySound DEF Transfer, ++,
    FileBrowserChatRouteDeliverVerify
<1>51. Held("file_browser_route_deliver")
  <2>1. Program["file_browser_route_deliver"] = FileBrowserRouteDeliver
    BY DEF Program, ++, Capability, WindowsTool
  <2> QED BY <2>1, FileBrowserRouteDeliverSound DEF Transfer, ++, FileBrowserRouteDeliver,
    FileBrowserRouteBasis, FileBrowserRouteTarget
<1>52. Held("file_browser_route_deliver_verify")
  <2>1. Program["file_browser_route_deliver_verify"] = FileBrowserRouteDeliverVerify
    BY DEF Program, ++, Capability, WindowsTool
  <2> QED BY <2>1, FileBrowserRouteDeliverVerifySound DEF Transfer, ++,
    FileBrowserRouteDeliverVerify
<1>53. Held("multi_window_route_execute")
  <2>1. Program["multi_window_route_execute"] = MultiWindowRouteExecute
    BY DEF Program, ++, Capability, WindowsTool
  <2> QED BY <2>1, MultiWindowRouteExecuteSound DEF Transfer, ++, MultiWindowRouteExecute,
    MultiWindowCollect, MultiWindowAct
<1>54. Held("multi_window_route_deliver_verify")
  <2>1. Program["multi_window_route_deliver_verify"] = MultiWindowRouteDeliverVerify
    BY DEF Program, ++, Capability, WindowsTool
  <2> QED BY <2>1, MultiWindowRouteDeliverVerifySound DEF Transfer, ++,
    MultiWindowRouteDeliverVerify, CollectBoth, DeliverToSelected
<1>55. Held("file_send_to_chat_window")
  <2>1. Program["file_send_to_chat_window"] = FileSendToChatWindow
    BY DEF Program, ++, Capability, WindowsTool
  <2> QED BY <2>1, FileSendToChatWindowSound DEF Transfer, ++, FileSendToChatWindow,
    SendToChatChecked, SendToChatAttach, SendToChatPicked, SendToChatSend, SendToChatConfirm
<1>56. Held("click_named")
  <2>1. Program["click_named"] = ClickNamed
    BY DEF Program, ++, Capability, WindowsTool
  <2> QED BY <2>1, ClickNamedSound DEF Transfer, ++, ClickNamed
<1>57. Held("type_path_named")
  <2>1. Program["type_path_named"] = TypePathNamed
    BY DEF Program, ++, Capability, WindowsTool
  <2> QED BY <2>1, TypePathNamedSound DEF Transfer, ++, TypePathNamed
<1>58. Held("open_named")
  <2>1. Program["open_named"] = OpenNamed
    BY DEF Program, ++, Capability, WindowsTool
  <2> QED BY <2>1, OpenNamedSound DEF Transfer, ++, OpenNamed
<1>59. Held("explorer_select")
  <2>1. Program["explorer_select"] = ExplorerSelect
    BY DEF Program, ++, Capability, WindowsTool
  <2> QED BY <2>1, ExplorerSelectSound DEF Transfer, ++, ExplorerSelect
<1>60. Held("explorer_tree")
  <2>1. Program["explorer_tree"] = ExplorerTree
    BY DEF Program, ++, Capability, WindowsTool
  <2> QED BY <2>1, ExplorerTreeSound DEF Transfer, ++, ExplorerTree
<1>61. Held("form_submit_recovery")
  <2>1. Program["form_submit_recovery"] = FormSubmitRecovery
    BY DEF Program, ++, Capability, WindowsTool
  <2> QED BY <2>1, FormSubmitRecoverySound DEF Transfer, ++, FormSubmitRecovery
<1>62. Held("editor_chat_template")
  <2>1. Program["editor_chat_template"] = EditorChatTemplate
    BY DEF Program, ++, Capability, WindowsTool
  <2> QED BY <2>1, EditorChatTemplateSound DEF Transfer, ++, EditorChatTemplate, Verified
<1>63. Held("file_browser_template")
  <2>1. Program["file_browser_template"] = FileBrowserTemplate
    BY DEF Program, ++, Capability, WindowsTool
  <2> QED BY <2>1, FileBrowserTemplateSound DEF Transfer, ++, FileBrowserTemplate, Verified
<1>64. Held("multi_window_template")
  <2>1. Program["multi_window_template"] = MultiWindowTemplate
    BY DEF Program, ++, Capability, WindowsTool
  <2> QED BY <2>1, MultiWindowTemplateSound DEF Transfer, ++, MultiWindowTemplate, Verified
<1>65. Held("editor_chat_reply_template")
  <2>1. Program["editor_chat_reply_template"] = EditorChatReplyTemplate
    BY DEF Program, ++, Capability, WindowsTool
  <2> QED BY <2>1, EditorChatReplyTemplateSound DEF Transfer, ++, EditorChatReplyTemplate,
             Verified
<1>66. Held("doc_deliver_template")
  <2>1. Program["doc_deliver_template"] = DocDeliverTemplate
    BY DEF Program, ++, Capability, WindowsTool
  <2> QED BY <2>1, DocDeliverTemplateSound DEF Transfer, ++, DocDeliverTemplate, Verified
<1>67. Held("compare_deliver_template")
  <2>1. Program["compare_deliver_template"] = CompareDeliverTemplate
    BY DEF Program, ++, Capability, WindowsTool
  <2> QED BY <2>1, CompareDeliverTemplateSound DEF Transfer, ++, CompareDeliverTemplate,
             Verified
<1>68. Held("extract_post_template")
  <2>1. Program["extract_post_template"] = ExtractPostTemplate
    BY DEF Program, ++, Capability, WindowsTool
  <2> QED BY <2>1, ExtractPostTemplateSound DEF Transfer, ++, ExtractPostTemplate, Verified
<1>69. Held("form_submit_template")
  <2>1. Program["form_submit_template"] = FormSubmitTemplate
    BY DEF Program, ++, Capability, WindowsTool
  <2> QED BY <2>1, FormSubmitTemplateSound DEF Transfer, ++, FormSubmitTemplate
<1> HIDE DEF Held
<1>70. \A name \in DOMAIN Program : Held(name)
  BY <1>1, <1>2, <1>3, <1>4, <1>5, <1>6, <1>7, <1>8, <1>9, <1>10, <1>11, <1>12, <1>13, <1>14,
     <1>15,
    <1>16, <1>17, <1>18, <1>19, <1>20, <1>21, <1>22, <1>23, <1>24, <1>25, <1>26, <1>27, <1>28,
    <1>29, <1>30, <1>31, <1>32, <1>33, <1>34, <1>35, <1>36, <1>37, <1>38, <1>39, <1>40, <1>41,
    <1>42, <1>43, <1>44, <1>45, <1>46, <1>47, <1>48, <1>49, <1>50, <1>51, <1>52, <1>53, <1>54,
    <1>55, <1>56, <1>57, <1>58, <1>59, <1>60, <1>61, <1>62, <1>63, <1>64, <1>65, <1>66, <1>67,
    <1>68, <1>69, Names DEF AllNames, CapNames, ToolNames
<1> QED BY <1>70 DEF ProgramsAnnotated, Held, Sound, Fits, WellFormed

-----------------------------------------------------------------------------
\* Steps and the stack.

\* What a step does to the stack: d frames more than before, all but the first of them
\* as they were.
Shifted(d) ==
    /\ stack \in Seq(FrameSet) /\ stack' \in Seq(FrameSet)
    /\ Len(stack') = Len(stack) + d
    /\ \A i \in 2..Len(stack') : i - d \in DOMAIN stack /\ stack'[i] = stack[i - d]

\* A new innermost frame.
Pushed(f) == Shifted(1) /\ stack'[1] = f

\* Frame k becomes the innermost and goes on with the answer a.
Resumed(k, a) ==
    /\ k \in {1, 2} /\ Shifted(1 - k) /\ k \in DOMAIN stack /\ stack' # <<>>
    /\ stack'[1].name = Name(k) /\ stack'[1].it = stack[k].it
    /\ stack'[1].at = Program[Name(k)][At(k)].next[a]

\* What a call does to the stack.
LEMMA PushShape ==
    ASSUME stack \in Seq(FrameSet), NEW f \in FrameSet, stack' = <<f>> \o stack
    PROVE  Pushed(f)
BY DEF Pushed, Shifted

\* The innermost frame is the first of the stack.
LEMMA TopIs ==
    ASSUME stack \in Seq(FrameSet), Running
    PROVE  /\ Top = stack[1] /\ Top \in FrameSet /\ 1 \in DOMAIN stack
           /\ Top.name = Name(1) /\ Top.at = At(1) /\ Current = Program[Name(1)][At(1)]
           /\ Current.call = Callee(1)
BY DEF Top, Running, Name, At, Current, Callee

\* The step at a frame's label.
LEMMA FrameAnnotated ==
    ASSUME stack \in Seq(FrameSet), NEW i \in DOMAIN stack,
           At(i) \in DOMAIN Program[Name(i)]
    PROVE  /\ Name(i) \in DOMAIN Program /\ At(i) \notin Answer
           /\ Annotated(Name(i), At(i), Program[Name(i)][At(i)])
           /\ \A a \in Answer :
                 /\ Program[Name(i)][At(i)].next[a] \in Label \ {"thrown"}
                 /\ Program[Name(i)][At(i)].next[a] \in DOMAIN Program[Name(i)] \cup Answer
           /\ Program[Name(i)][At(i)].window \in Window \cup {"it", "selected"}
<1>0. stack[i] \in FrameSet
  OBVIOUS
<1>1. Name(i) \in DOMAIN Program
  BY <1>0 DEF FrameSet, Name
<1>2. WellFormed(Program[Name(i)]) /\ Annotated(Name(i), At(i), Program[Name(i)][At(i)])
  BY <1>1, Annotations DEF ProgramsAnnotated
<1> QED BY <1>1, <1>2 DEF WellFormed, Label

\* A frame in front of others.
LEMMA HeadOfJoin ==
    ASSUME NEW g \in FrameSet, NEW t \in Seq(FrameSet)
    PROVE  Head(<<g>> \o t) = g /\ Tail(<<g>> \o t) = t
BY DEF FrameSet

\* The frames behind the first one.
LEMMA ShiftJoin ==
    ASSUME stack \in Seq(FrameSet), NEW k \in {1, 2}, k \in DOMAIN stack,
           NEW f \in FrameSet, NEW t \in Seq(FrameSet), Len(t) = Len(stack) - k,
           \A i \in 1..Len(t) : t[i] = stack[i + k], stack' = <<f>> \o t
    PROVE  Shifted(1 - k) /\ stack' # <<>> /\ stack'[1] = f
<1>1. /\ Len(stack') = Len(t) + 1 /\ stack' \in Seq(FrameSet) /\ stack'[1] = f
      /\ \A i \in 2..Len(stack') : i - 1 \in 1..Len(t) /\ stack'[i] = t[i - 1]
  OBVIOUS
<1>2. CASE k = 1
  BY <1>1, <1>2 DEF Shifted
<1>3. CASE k = 2
  <2>1. Len(stack') = Len(stack) - 1 /\ 1 - k = -1
    BY <1>1, <1>3
  <2>2. ASSUME NEW i \in 2..Len(stack')
        PROVE  i - (-1) \in 1..Len(stack) /\ stack'[i] = stack[i - (-1)]
    <3>1. i - 1 \in 1..Len(t) /\ stack'[i] = t[i - 1] /\ (i - 1) + 2 = i - (-1)
      BY <1>1
    <3> QED BY <3>1, <1>3
  <2> QED BY <2>1, <2>2, <1>1 DEF Shifted
<1> QED BY <1>1, <1>2, <1>3

\* What an answer does to the stack.
LEMMA AdvanceShape ==
    ASSUME stack \in Seq(FrameSet), NEW k \in {1, 2}, k \in DOMAIN stack,
           At(k) \in DOMAIN Program[Name(k)], NEW a \in Answer,
           NEW left \in 0..Attempts, NEW old,
           old = IF k = 1 THEN stack ELSE Tail(stack),
           stack' = Advance(<<[Head(old) EXCEPT !.left = left]>> \o Tail(old), a)
    PROVE  Resumed(k, a)
<1>1. Head(old) = stack[k] /\ old \in Seq(FrameSet) /\ old # <<>>
      /\ Len(old) = Len(stack) + 1 - k
      /\ \A i \in 1..Len(Tail(old)) : Tail(old)[i] = stack[i + k]
  OBVIOUS
<1> DEFINE g == [stack[k] EXCEPT !.left = left]
           label == Program[Name(k)][At(k)].next[a]
           f == [g EXCEPT !.at = label]
           t == Tail(old)
<1>2. label \in Label /\ stack[k] \in FrameSet
  BY FrameAnnotated
<1>3. g \in FrameSet /\ g.name = Name(k) /\ g.at = At(k) /\ g.it = stack[k].it
  BY <1>2 DEF FrameSet, Name, At
<1>4. f \in FrameSet /\ f.name = Name(k) /\ f.at = label /\ f.it = stack[k].it
  BY <1>2, <1>3 DEF FrameSet
<1>5. t \in Seq(FrameSet) /\ Len(t) = Len(stack) - k
  BY <1>1
<1>6. stack' = <<f>> \o t
  <2>1. stack' = Advance(<<g>> \o t, a)
    BY <1>1
  <2> HIDE DEF g, t
  <2>2. Head(<<g>> \o t) = g /\ Tail(<<g>> \o t) = t
    BY <1>3, <1>5, HeadOfJoin
  <2> QED BY <2>1, <2>2, <1>3 DEF Advance
<1> HIDE DEF f, label
<1>7. \A i \in 1..Len(t) : t[i] = stack[i + k]
  BY <1>1
<1> HIDE DEF t
<1>8. Shifted(1 - k) /\ stack' # <<>> /\ stack'[1] = f
  BY <1>4, <1>5, <1>6, <1>7, ShiftJoin
<1> QED BY <1>4, <1>8 DEF Resumed, label

-----------------------------------------------------------------------------
\* The kinds of steps.

\* A program calls another.
About(window) ==
    IF window = "it" THEN stack[1].it ELSE IF window = "selected" THEN selected ELSE window

\* Frame k is at a step, not at an answer.
Waits(k) == k \in DOMAIN stack /\ At(k) \in DOMAIN Program[Name(k)]

\* The call is of a program, which starts about the window of the step.
Invokes ==
    /\ Waits(1) /\ IsProgram(Callee(1))
    /\ \E f \in FrameSet : /\ f.name = Callee(1) /\ f.at = "start"
                           /\ f.it = About(Program[Name(1)][At(1)].window)
                           /\ Pushed(f)
    /\ UNCHANGED <<input, result, selected, haveText, desktop>>

\* One ends; what the answer of an observation or a typing says is kept.
Judged ==
    /\ confirmed' = IF Name(1) = "observe" /\ At(1) = "yes"
                      THEN confirmed \cup {stack[1].it} ELSE confirmed
    /\ doubted' = IF Doubting(Name(1), At(1)) THEN doubted \cup {stack[1].it} ELSE doubted
    /\ UNCHANGED <<input, selected, haveText, front, clipboard, copies, enters, pastedOther>>

\* The capability of the input ends.
Ends ==
    /\ Len(stack) = 1 /\ At(1) \in Answer \ {"thrown"} /\ stack' = <<>> /\ result' = At(1)
    /\ Judged

\* A program that was called ends: its answer is that of the call.
Returns ==
    /\ 1 \in DOMAIN stack /\ At(1) \in Answer \ {"thrown"}
    /\ Waits(2) /\ Callee(2) = Name(1) /\ Resumed(2, At(1)) /\ UNCHANGED result
    /\ Judged

\* A call that is no program's is answered: what the program knows afterwards.
Ticks(a) ==
    /\ a \in Answer /\ Waits(1) /\ ~IsProgram(Callee(1)) /\ Resumed(1, a)
    /\ UNCHANGED <<input, result, doubted>>
    /\ Callee(1) # "select_route" => UNCHANGED selected
    /\ Callee(1) = "select_route" => selected' # "none"
    /\ haveText => haveText'
    /\ Callee(1) \in {"command_line", "read_workspace_text", "text_was_read"} /\ a = "yes"
         => haveText'
    /\ Callee(1) = "submits" /\ a = "yes" => stack[1].it = "browser" \/ PressEnterGiven
    /\ Callee(1) = "asked_to_send" /\ a = "yes" => input.enter
    /\ Callee(1) = "has_text" /\ a # "yes" => ~input.text

\* What it may have done to the desktop, when no element found by name is in another window.
Where == IF Callee(1) \in {"Type", "TypeOver"} THEN stack[1].it ELSE front

\* What a call may change on the desktop: the front, and the window it puts text into.
Touches(a) ==
    /\ front' \in {front, stack[1].it} /\ (Callee(1) \notin Focusing => UNCHANGED front)
    /\ Callee(1) \in Focusing /\ a \in Answered => front' = stack[1].it
    /\ pastedOther => pastedOther'
    /\ Callee(1) \notin Inserting => UNCHANGED <<copies, confirmed>>
    /\ Callee(1) \notin Entering => UNCHANGED enters
    /\ Callee(1) = "TypeOver" => UNCHANGED enters \/ PressEnterGiven
    /\ confirmed' \subseteq confirmed
    /\ \A w \in Place :
          /\ w # Where => copies'[w] = copies[w] /\ enters'[w] = enters[w]
                          /\ (w \in confirmed => w \in confirmed')
          /\ copies'[w] <= copies[w] + 1 /\ (copies[w] > 0 => copies'[w] > 0)
          /\ enters'[w] \in {enters[w], enters[w] + 1}
    /\ Callee(1) \in Inserting \ {"open_file"} /\ a \in Answered =>
          copies'[Where] > 0 \/ pastedOther'
    /\ Callee(1) = "open_file" => UNCHANGED copies \/ copies[Where] = 0

\* The types of the variables that are not the stack.
Typed ==
    /\ input \in [chain : Chain \cup {"none"}, window : Window, enter : BOOLEAN, text : BOOLEAN]
    /\ result \in {"none", "no", "ok", "yes"}
    /\ selected \in {"none", "primary", "secondary"} /\ haveText \in BOOLEAN
    /\ front \in Place /\ clipboard \in {"text", "other"}
    /\ copies \in [Place -> 0..Many] /\ enters \in [Place -> 0..Many]
    /\ confirmed \subseteq Place /\ doubted \subseteq Place /\ pastedOther \in BOOLEAN

\* The calls that are no program's.
LEMMA NoPrograms ==
    \A call \in {"another_try", "is_browser", "is_chat", "has_text", "asked_to_send",
                 "text_was_read", "submits", "command_line", "read_workspace_text",
                 "select_route"} \cup DOMAIN Open \cup ServerCalls : ~IsProgram(call)
BY Names DEF IsProgram, AllNames, CapNames, ToolNames, Open, ServerCalls

\* A frame whose count of attempts is set to what it is.
LEMMA SameFrame ==
    ASSUME NEW g \in FrameSet
    PROVE  [g EXCEPT !.left = g.left] = g
BY DEF FrameSet

\* A stack is its head with its count, and the rest.
LEMMA SameFrames ==
    ASSUME NEW s \in Seq(FrameSet), s # <<>>
    PROVE  /\ Head(s) \in FrameSet /\ Head(s).left \in 0..Attempts
           /\ s = <<[Head(s) EXCEPT !.left = Head(s).left]>> \o Tail(s)
<1>1. Head(s) \in FrameSet
  OBVIOUS
<1>2. [Head(s) EXCEPT !.left = Head(s).left] = Head(s)
  BY <1>1, SameFrame
<1>3. s = <<Head(s)>> \o Tail(s)
  OBVIOUS
<1>4. Head(s).left \in 0..Attempts
  BY <1>1 DEF FrameSet
<1> QED BY <1>1, <1>2, <1>3, <1>4

\* A call is answered.
LEMMA ProceedShape ==
    ASSUME stack \in Seq(FrameSet), Waits(1), NEW a \in Answer, Proceed(a)
    PROVE  Resumed(1, a)
<1>1. stack # <<>> /\ 1 \in DOMAIN stack
  BY DEF Waits
<1>2. Head(stack).left \in 0..Attempts
      /\ stack = <<[Head(stack) EXCEPT !.left = Head(stack).left]>> \o Tail(stack)
  BY <1>1, SameFrames
<1> DEFINE left == Head(stack).left
<1>3. stack' = Advance(<<[Head(stack) EXCEPT !.left = left]>> \o Tail(stack), a)
  BY <1>2 DEF Proceed
<1>4. left \in 0..Attempts
  BY <1>2
<1> HIDE DEF left
<1> QED BY <1>1, <1>3, <1>4, AdvanceShape DEF Waits

\* A step that answers calls is taken by the innermost frame, which waits.
LEMMA CallsIs ==
    ASSUME stack \in Seq(FrameSet), RunTypeOK, NEW calls, Calls(calls)
    PROVE  /\ Waits(1) /\ Callee(1) \in calls /\ Callee(1) = Current.call /\ Top = stack[1]
           /\ stack # <<>> /\ Top.left = Head(stack).left /\ Head(stack) = stack[1]
<1>1. Running /\ Top.at \notin Answer /\ Current.call \in calls
  BY DEF Calls
<1>2. At(1) \in DOMAIN Program[Name(1)]
  BY <1>1, TopIs DEF RunTypeOK, Name, At
<1> QED BY <1>1, <1>2, TopIs DEF Waits, Running, Top

\* A call that is no program's is answered, within the types.
Kind == Typed' /\ \E a \in Answer : Ticks(a) /\ (~Strays => Touches(a))

\* The type invariant covers these.
LEMMA RunTyped == RunTypeOK => Typed
BY DEF RunTypeOK, Typed

\* A call that leaves the desktop alone.
LEMMA QuietTouches ==
    ASSUME Typed, NEW a, UNCHANGED desktop,
           ~(Callee(1) \in Inserting \cup Focusing /\ a \in Answered)
    PROVE  Touches(a)
BY DEF Typed, Touches, desktop, Place, Window

\* Counting an attempt.
LEMMA CountAttemptKind ==
    ASSUME Structure, CountAttempt PROVE Kind
<1>1. Typed /\ Typed' /\ stack \in Seq(FrameSet)
  BY RunTyped DEF Structure, Typed, CountAttempt, desktop
<1>2. Waits(1) /\ Callee(1) = "another_try" /\ Top = stack[1] /\ stack # <<>>
      /\ Head(stack) = stack[1]
  BY <1>1, CallsIs DEF CountAttempt, Structure
<1>3. ~IsProgram(Callee(1))
  BY <1>2, NoPrograms
<1>4. \E a \in {"no", "yes"} : Resumed(1, a)
  <2>1. CASE Top.left > 0
    <3>0. ASSUME NEW n \in 0..Attempts, n > 0 PROVE n - 1 \in 0..Attempts
      <4>1. Attempts \in Nat
        BY CapabilityAssumption
      <4>2. n \in Nat /\ n <= Attempts
        BY <3>0, <4>1
      <4> QED BY <3>0, <4>1, <4>2
    <3>1. Top.left \in 0..Attempts /\ Top.left - 1 \in 0..Attempts
      BY <1>1, <1>2, <2>1, <3>0, SameFrames
    <3> DEFINE left == Top.left - 1
    <3>2. stack' = Advance(<<[Head(stack) EXCEPT !.left = left]>> \o Tail(stack), "yes")
      BY <2>1, <1>2 DEF CountAttempt
    <3>3. left \in 0..Attempts
      BY <3>1
    <3> HIDE DEF left
    <3>4. Resumed(1, "yes")
      BY <3>2, <3>3, <1>1, <1>2, AdvanceShape DEF Waits, Answer
    <3> QED BY <3>4
  <2>2. CASE ~(Top.left > 0)
    BY <2>2, <1>1, <1>2, ProceedShape DEF CountAttempt, Answer
  <2> QED BY <2>1, <2>2
<1>5. PICK a \in {"no", "yes"} : Resumed(1, a)
  BY <1>4
<1>6. Ticks(a)
  BY <1>2, <1>3, <1>5 DEF Ticks, CountAttempt, desktop, Answer
<1>7. Touches(a)
  BY <1>1, <1>2, QuietTouches DEF CountAttempt, Inserting, Focusing
<1> QED BY <1>1, <1>6, <1>7 DEF Kind, Answer

\* A decision on the input or on what has been read.
LEMMA DecideKind ==
    ASSUME Structure, Decide PROVE Kind
<1>1. Typed /\ Typed' /\ stack \in Seq(FrameSet)
  BY RunTyped DEF Structure, Typed, Decide, desktop
<1>2. Waits(1) /\ Callee(1) \in DOMAIN Decided /\ Callee(1) = Current.call /\ Top = stack[1]
  BY <1>1, CallsIs DEF Decide, Structure
<1>3. Callee(1) \in {"is_browser", "is_chat", "has_text", "asked_to_send", "text_was_read",
                     "submits"}
  BY <1>2 DEF Decided
<1>4. ~IsProgram(Callee(1)) /\ Callee(1) \notin Inserting \cup Focusing
  BY <1>3, NoPrograms DEF Inserting, Focusing
<1> DEFINE a == IF Decided[Current.call] THEN "yes" ELSE "no"
<1>5. a \in Answer /\ Resumed(1, a)
  BY <1>1, <1>2, ProceedShape DEF Decide, Answer
<1>6. Ticks(a)
  <2>1. a = "yes" => Decided[Callee(1)]
    BY <1>2
  <2>2. Callee(1) = "has_text" /\ a # "yes" => ~Decided["has_text"]
    BY <1>2
  <2> HIDE DEF a
  <2>3. Callee(1) = "has_text" /\ a # "yes" => ~input.text
    BY <2>2 DEF Decided
  <2>4. Callee(1) = "asked_to_send" /\ a = "yes" => input.enter
    BY <2>1 DEF Decided
  <2>5. Callee(1) = "text_was_read" /\ a = "yes" => haveText
    BY <2>1 DEF Decided
  <2>6. Callee(1) = "submits" /\ a = "yes" => stack[1].it = "browser" \/ PressEnterGiven
    <3>1. Decided["submits"] => Top.it = "browser" \/ PressEnterGiven
      BY DEF Decided
    <3> QED BY <1>2, <2>1, <3>1
  <2> QED
    BY <1>2, <1>3, <1>4, <1>5, <2>3, <2>4, <2>5, <2>6 DEF Ticks, Decide, desktop
<1>7. Touches(a)
  BY <1>1, <1>4, QuietTouches DEF Decide
<1> QED BY <1>1, <1>5, <1>6, <1>7 DEF Kind

\* A look at a snapshot or a tree.
LEMMA LookKind ==
    ASSUME Structure, Look PROVE Kind
<1>1. Typed /\ Typed' /\ stack \in Seq(FrameSet)
  BY RunTyped DEF Structure, Typed, Look, desktop
<1>2. Waits(1) /\ Callee(1) \in DOMAIN Open /\ Callee(1) = Current.call
  BY <1>1, CallsIs DEF Look, Structure
<1>3. PICK a \in Open[Callee(1)] : Proceed(a)
  BY <1>2 DEF Look
<1>4. a \in Answer
  BY <1>2 DEF Open, Either, ElementShown, SnapshotShown, Answer
<1>5. Resumed(1, a)
  BY <1>1, <1>2, <1>3, <1>4, ProceedShape
<1>6. ~IsProgram(Callee(1))
  BY <1>2, NoPrograms
<1>7. /\ Callee(1) \notin Inserting \cup Focusing
      /\ Callee(1) \notin {"select_route", "command_line", "read_workspace_text", "submits",
                           "asked_to_send", "has_text", "text_was_read"}
  BY <1>2 DEF Open, Inserting, Focusing
<1>8. Ticks(a)
  BY <1>2, <1>4, <1>5, <1>6, <1>7 DEF Ticks, Look, desktop
<1>9. Touches(a)
  BY <1>1, <1>7, QuietTouches DEF Look
<1> QED BY <1>1, <1>4, <1>8, <1>9 DEF Kind

\* Reading the text of a file.
LEMMA ReadSourceKind ==
    ASSUME Structure, ReadSource PROVE Kind
<1>1. Typed /\ Typed' /\ stack \in Seq(FrameSet)
  BY RunTyped DEF Structure, Typed, ReadSource, desktop
<1>2. Waits(1) /\ Callee(1) \in {"command_line", "read_workspace_text"}
  BY <1>1, CallsIs DEF ReadSource, Structure
<1>3. PICK a \in {"no", "ok", "yes"} : Proceed(a) /\ haveText' = (haveText \/ a = "yes")
  BY DEF ReadSource
<1>4. a \in Answer /\ Resumed(1, a) /\ ~IsProgram(Callee(1))
  BY <1>1, <1>2, <1>3, ProceedShape, NoPrograms DEF Answer
<1>5. Ticks(a)
  BY <1>2, <1>3, <1>4 DEF Ticks, ReadSource, desktop
<1>6. Touches(a)
  BY <1>1, <1>2, QuietTouches DEF ReadSource, Inserting, Focusing
<1> QED BY <1>1, <1>4, <1>5, <1>6 DEF Kind

\* Choosing a route.
LEMMA SelectKind ==
    ASSUME Structure, SelectWindowRoute PROVE Kind
<1>1. Typed /\ Typed' /\ stack \in Seq(FrameSet)
  BY RunTyped DEF Structure, Typed, SelectWindowRoute, desktop
<1>2. Waits(1) /\ Callee(1) = "select_route"
  BY <1>1, CallsIs DEF SelectWindowRoute, Structure
<1>3. "yes" \in Answer /\ Resumed(1, "yes") /\ ~IsProgram(Callee(1))
  BY <1>1, <1>2, ProceedShape, NoPrograms DEF Answer, SelectWindowRoute
<1>4. Ticks("yes")
  BY <1>2, <1>3 DEF Ticks, SelectWindowRoute, desktop
<1>5. Touches("yes")
  BY <1>1, <1>2, QuietTouches DEF SelectWindowRoute, Inserting, Focusing
<1> QED BY <1>1, <1>3, <1>4, <1>5 DEF Kind

\* Counters.
LEMMA PressedTyped ==
    ASSUME NEW n \in 0..Many
    PROVE  /\ Pressed(n) \in 0..Many /\ Pressed(n) \in {n, n + 1} /\ Pressed(n) > 0
           /\ 1 \in 0..Many /\ n <= n + 1 /\ n >= 0
<1>1. Many \in Nat /\ Many >= 2
  BY CapabilityAssumption
<1>2. n \in Nat /\ n <= Many
  BY <1>1
<1> QED BY <1>1, <1>2 DEF Pressed

\* The outcomes of a call of the server are answers.
LEMMA AnswersOfServer == Outcome \subseteq Answer /\ \A a \in Outcome \cap Answered : a = "yes"
BY DEF Outcome, Answer, Answered

\* Without strays an element found by name is in the window of its frame.
LEMMA ElementIsTop ==
    ASSUME Structure, Running
    PROVE  Top.it \in Window /\ Top = stack[1] /\ Element \subseteq Place
           /\ (~Strays => Element = {stack[1].it})
<1>1. Top \in FrameSet /\ Top = stack[1]
  BY TopIs DEF Structure
<1> QED BY <1>1 DEF Element, Place, FrameSet

\* Which of the calls a primitive call is.
LEMMA ServerTick ==
    ASSUME Structure, NEW calls, Calls(calls), calls \subseteq ServerCalls,
           NEW a \in Answer, Proceed(a),
           UNCHANGED <<input, result, selected, haveText, doubted>>
    PROVE  Ticks(a) /\ Callee(1) \in calls /\ Callee(1) = Current.call /\ Running
<1>1. Waits(1) /\ Callee(1) \in calls /\ Callee(1) = Current.call /\ Running
  BY CallsIs DEF Structure, Running
<1>2. ~IsProgram(Callee(1))
  BY <1>1, NoPrograms
<1>3. Resumed(1, a)
  BY <1>1, ProceedShape DEF Structure
<1>4. Callee(1) \notin {"select_route", "command_line", "read_workspace_text", "submits",
                        "asked_to_send", "has_text", "text_was_read"}
  BY <1>1 DEF ServerCalls
<1> QED BY <1>1, <1>2, <1>3, <1>4 DEF Ticks

\* Bringing a window to the front.
LEMMA BringToFrontKind ==
    ASSUME Structure, BringToFront PROVE Kind
<1>0. /\ Typed /\ Running /\ Top.it \in Window /\ Top = stack[1] /\ Element \subseteq Place
      /\ (~Strays => Element = {stack[1].it})
  BY RunTyped, ElementIsTop DEF Structure, BringToFront, Calls
<1>1. PICK a \in Outcome :
        /\ Proceed(a)
        /\ \/ \E w \in IF Current.call = "Click" THEN Element ELSE {Top.it} : front' = w
           \/ a # "yes" /\ UNCHANGED front
  BY DEF BringToFront
<1>2. a \in Answer /\ (a \in Answered => a = "yes")
  BY AnswersOfServer
<1>3. Ticks(a) /\ Callee(1) \in {"AppSwitch", "AppLaunch", "ShellLaunch", "Click"}
  BY <1>1, <1>2, ServerTick DEF BringToFront, ServerCalls
<1>4. front' \in Place /\ Typed'
  BY <1>0, <1>1 DEF BringToFront, Typed, Place
<1>5. ASSUME ~Strays PROVE Touches(a)
  <2>1. front' = stack[1].it \/ (a # "yes" /\ UNCHANGED front)
    BY <1>0, <1>1, <1>5
  <2>2. Callee(1) \in Focusing /\ Callee(1) \notin Inserting \cup Entering
    BY <1>3 DEF Focusing, Inserting, Entering
  <2> QED BY <1>0, <1>2, <2>1, <2>2 DEF Touches, BringToFront, Typed, Place, Window, Entering
<1> QED BY <1>2, <1>3, <1>4, <1>5 DEF Kind

\* Copying the text to the clipboard.
LEMMA SetClipboardKind ==
    ASSUME Structure, SetClipboard PROVE Kind
<1>1. PICK a \in Outcome : Proceed(a) /\ (clipboard' = "text" \/ UNCHANGED clipboard)
  BY DEF SetClipboard
<1>2. a \in Answer
  BY AnswersOfServer
<1>3. Ticks(a) /\ Callee(1) = "ClipboardSet"
  BY <1>1, <1>2, ServerTick DEF SetClipboard, ServerCalls
<1>4. Typed /\ Typed'
  BY <1>1, RunTyped DEF Structure, SetClipboard, Typed
<1>5. Touches(a)
  BY <1>3, <1>4 DEF Touches, SetClipboard, Typed, Focusing, Inserting, Entering
<1> QED BY <1>2, <1>3, <1>4, <1>5 DEF Kind

\* Reading the clipboard.
LEMMA ReadClipboardKind ==
    ASSUME Structure, ReadClipboard PROVE Kind
<1>1. PICK a \in {"no", "ok", "yes"} : Proceed(a) /\ clipboard' \in {clipboard, "other"}
  BY DEF ReadClipboard
<1>2. a \in Answer
  BY DEF Answer
<1>3. Ticks(a) /\ Callee(1) = "ClipboardGet"
  BY <1>1, <1>2, ServerTick DEF ReadClipboard, ServerCalls
<1>4. Typed /\ Typed'
  BY <1>1, RunTyped DEF Structure, ReadClipboard, Typed
<1>5. Touches(a)
  BY <1>3, <1>4 DEF Touches, ReadClipboard, Typed, Focusing, Inserting, Entering
<1> QED BY <1>2, <1>3, <1>4, <1>5 DEF Kind

\* Typing a path.
LEMMA TypePathKind ==
    ASSUME Structure, TypePath PROVE Kind
<1>1. PICK a \in Outcome : Proceed(a)
  BY DEF TypePath
<1>2. a \in Answer
  BY AnswersOfServer
<1>3. Ticks(a) /\ Callee(1) = "TypePath"
  BY <1>1, <1>2, ServerTick DEF TypePath, ServerCalls, desktop
<1>4. Typed /\ Typed'
  BY RunTyped DEF Structure, TypePath, Typed, desktop
<1>5. Touches(a)
  BY <1>3, <1>4, QuietTouches DEF TypePath, Focusing, Inserting
<1> QED BY <1>2, <1>3, <1>4, <1>5 DEF Kind

\* Pressing Enter.
LEMMA PressEnterKind ==
    ASSUME Structure, PressEnter PROVE Kind
<1>1. PICK a \in Outcome :
        Proceed(a) /\ (enters' = [enters EXCEPT ![front] = Pressed(@)] \/ UNCHANGED enters)
  BY DEF PressEnter
<1>2. a \in Answer
  BY AnswersOfServer
<1>3. Ticks(a) /\ Callee(1) = "Enter"
  BY <1>1, <1>2, ServerTick DEF PressEnter, ServerCalls
<1>4. Typed
  BY RunTyped DEF Structure
<1>5. /\ enters' \in [Place -> 0..Many]
      /\ \A w \in Place : /\ enters'[w] \in {enters[w], enters[w] + 1}
                          /\ w # front => enters'[w] = enters[w]
  BY <1>1, <1>4, PressedTyped DEF Typed
<1>6. Typed'
  BY <1>4, <1>5 DEF PressEnter, Typed
<1>7. Touches(a)
  BY <1>3, <1>4, <1>5, PressedTyped DEF Touches, PressEnter, Typed, Focusing, Inserting,
     Entering, Where
<1> QED BY <1>2, <1>3, <1>6, <1>7 DEF Kind

\* What an insertion does.
LEMMA InsertDoes ==
    ASSUME Typed, NEW p \in Place, NEW over \in BOOLEAN, Insert(p, over)
    PROVE  /\ copies' \in [Place -> 0..Many] /\ copies'[p] > 0
           /\ confirmed' \subseteq confirmed
           /\ \A w \in Place :
                 /\ w # p => copies'[w] = copies[w] /\ (w \in confirmed => w \in confirmed')
                 /\ copies'[w] <= copies[w] + 1 /\ (copies[w] > 0 => copies'[w] > 0)
<1>1. /\ copies \in [Place -> 0..Many] /\ confirmed' = confirmed \ {p}
      /\ copies' = [copies EXCEPT ![p] = IF over /\ enters[p] = 0 THEN 1 ELSE Pressed(copies[p])]
  BY DEF Typed, Insert
<1>2. \A w \in Place : copies[w] \in 0..Many
  BY <1>1
<1>3. /\ Pressed(copies[p]) \in 0..Many /\ Pressed(copies[p]) > 0 /\ 1 \in 0..Many
      /\ Pressed(copies[p]) <= copies[p] + 1 /\ 1 <= copies[p] + 1
  BY <1>2, PressedTyped
<1>4. \A w \in Place : copies[w] <= copies[w] + 1
  BY <1>2, PressedTyped
<1> DEFINE n == IF over /\ enters[p] = 0 THEN 1 ELSE Pressed(copies[p])
<1>5. n \in 0..Many /\ n > 0 /\ n <= copies[p] + 1
  BY <1>3
<1>6. copies' = [copies EXCEPT ![p] = n]
  BY <1>1
<1> HIDE DEF n
<1> QED BY <1>1, <1>4, <1>5, <1>6

\* Pasting the clipboard.
LEMMA PasteKind ==
    ASSUME Structure, Paste PROVE Kind
<1>1. PICK a \in Outcome :
        /\ Proceed(a)
        /\ \/ clipboard = "text" /\ Insert(front, FALSE) /\ UNCHANGED pastedOther
           \/ clipboard # "text" /\ pastedOther' = TRUE /\ UNCHANGED <<copies, confirmed>>
           \/ a # "yes" /\ UNCHANGED <<copies, confirmed, pastedOther>>
  BY DEF Paste
<1>2. a \in Answer /\ (a \in Answered => a = "yes")
  BY AnswersOfServer
<1>3. Ticks(a) /\ Callee(1) = "Paste"
  BY <1>1, <1>2, ServerTick DEF Paste, ServerCalls
<1>4. Typed /\ front \in Place
  BY RunTyped DEF Structure, Typed
<1>5. \/ /\ Insert(front, FALSE) /\ UNCHANGED pastedOther
      \/ /\ UNCHANGED <<copies, confirmed>>
         /\ pastedOther' \/ (a # "yes" /\ UNCHANGED pastedOther)
         /\ pastedOther' \in BOOLEAN
  BY <1>1, <1>4 DEF Typed
<1>6. /\ copies' \in [Place -> 0..Many] /\ confirmed' \subseteq confirmed
      /\ \A w \in Place :
            /\ w # front => copies'[w] = copies[w] /\ (w \in confirmed => w \in confirmed')
            /\ copies'[w] <= copies[w] + 1 /\ (copies[w] > 0 => copies'[w] > 0)
      /\ a = "yes" => copies'[front] > 0 \/ pastedOther'
  BY <1>4, <1>5, InsertDoes, PressedTyped DEF Typed
<1>7. Typed'
  BY <1>4, <1>5, <1>6 DEF Paste, Typed
<1>8. Touches(a)
  BY <1>2, <1>3, <1>4, <1>5, <1>6 DEF Touches, Paste, Typed, Focusing, Inserting, Entering,
     Where
<1> QED BY <1>2, <1>3, <1>7, <1>8 DEF Kind

\* Attaching a file.
LEMMA AttachFileKind ==
    ASSUME Structure, AttachFile PROVE Kind
<1>1. PICK a \in {"no", "yes"} :
        /\ Proceed(a)
        /\ \/ copies[front] = 0 /\ Insert(front, FALSE)
           \/ UNCHANGED <<copies, confirmed>>
  BY DEF AttachFile
<1>2. a \in Answer
  BY DEF Answer
<1>3. Ticks(a) /\ Callee(1) = "open_file"
  BY <1>1, <1>2, ServerTick DEF AttachFile, ServerCalls
<1>4. Typed /\ front \in Place
  BY RunTyped DEF Structure, Typed
<1>6. /\ copies' \in [Place -> 0..Many] /\ confirmed' \subseteq confirmed
      /\ \A w \in Place :
            /\ w # front => copies'[w] = copies[w] /\ (w \in confirmed => w \in confirmed')
            /\ copies'[w] <= copies[w] + 1 /\ (copies[w] > 0 => copies'[w] > 0)
  BY <1>1, <1>4, InsertDoes, PressedTyped DEF Typed
<1>7. Typed'
  BY <1>4, <1>6 DEF AttachFile, Typed
<1>8. Touches(a)
  BY <1>1, <1>3, <1>4, <1>6 DEF Touches, AttachFile, Typed, Focusing, Inserting, Entering, Where
<1> QED BY <1>2, <1>3, <1>7, <1>8 DEF Kind

\* Typing into a field.
LEMMA TypeIntoFieldKind ==
    ASSUME Structure, TypeIntoField PROVE Kind
<1>0. /\ Typed /\ Running /\ Top.it \in Window /\ Top = stack[1] /\ Element \subseteq Place
      /\ (~Strays => Element = {stack[1].it})
  BY RunTyped, ElementIsTop DEF Structure, TypeIntoField, Calls
<1> DEFINE over == Current.call = "TypeOver"
<1>1. PICK a \in Outcome, p \in Element :
        /\ Proceed(a)
        /\ \/ /\ Insert(p, over)
              /\ front' = p
              /\ enters' = IF over /\ PressEnterGiven
                             THEN [enters EXCEPT ![p] = Pressed(@)] ELSE enters
           \/ a # "yes" /\ UNCHANGED <<copies, confirmed, front, enters>>
  BY DEF TypeIntoField
<1>2. a \in Answer /\ (a \in Answered => a = "yes") /\ p \in Place
  BY AnswersOfServer, <1>0
<1>3. Ticks(a) /\ Callee(1) \in {"Type", "TypeOver"} /\ Callee(1) = Current.call
  BY <1>1, <1>2, ServerTick DEF TypeIntoField, ServerCalls
<1>4. \/ /\ Insert(p, over) /\ front' = p
         /\ \/ Callee(1) = "TypeOver" /\ PressEnterGiven
               /\ enters' = [enters EXCEPT ![p] = Pressed(@)]
            \/ UNCHANGED enters
      \/ a # "yes" /\ UNCHANGED <<copies, confirmed, front, enters>>
  BY <1>1, <1>3
<1>5. /\ copies' \in [Place -> 0..Many] /\ confirmed' \subseteq confirmed
      /\ \A w \in Place :
            /\ w # p => copies'[w] = copies[w] /\ (w \in confirmed => w \in confirmed')
            /\ copies'[w] <= copies[w] + 1 /\ (copies[w] > 0 => copies'[w] > 0)
      /\ a = "yes" => copies'[p] > 0
  <2> HIDE DEF over
  <2>1. over \in BOOLEAN
    BY DEF over
  <2> QED BY <1>0, <1>2, <1>4, <2>1, InsertDoes, PressedTyped DEF Typed
<1>6. /\ enters' \in [Place -> 0..Many]
      /\ \A w \in Place : /\ enters'[w] \in {enters[w], enters[w] + 1}
                          /\ w # p => enters'[w] = enters[w]
  <2>1. enters' = [enters EXCEPT ![p] = Pressed(enters[p])] \/ UNCHANGED enters
    BY <1>4
  <2> QED BY <1>0, <1>2, <2>1, PressedTyped DEF Typed
<1>7. Typed'
  BY <1>0, <1>2, <1>4, <1>5, <1>6 DEF TypeIntoField, Typed
<1>8. ASSUME ~Strays PROVE Touches(a)
  <2>1. p = stack[1].it /\ Where = p
    BY <1>0, <1>3, <1>8 DEF Where
  <2>2. Callee(1) \in Focusing /\ Callee(1) \in Inserting /\ Callee(1) # "open_file"
    BY <1>3 DEF Focusing, Inserting
  <2>3. Callee(1) \notin Entering => UNCHANGED enters
    BY <1>3, <1>4 DEF Entering
  <2>4. Callee(1) = "TypeOver" => UNCHANGED enters \/ PressEnterGiven
    BY <1>4
  <2>5. front' \in {front, stack[1].it} /\ (a = "yes" => front' = stack[1].it)
    BY <1>4, <2>1
  <2>6. UNCHANGED pastedOther
    BY DEF TypeIntoField
  <2> QED BY <1>2, <1>5, <1>6, <2>1, <2>2, <2>3, <2>4, <2>5, <2>6 DEF Touches
<1> QED BY <1>2, <1>3, <1>7, <1>8 DEF Kind

\* A call that fails because the server does.
LEMMA CallFailsKind ==
    ASSUME Structure, CallFails PROVE Kind
<1>1. PICK a \in {"no", "thrown"} : Proceed(a)
  BY DEF CallFails, Proceed
<1>2. a \in Answer /\ a \notin Answered /\ Calls(ServerCalls)
  BY DEF Answer, Answered, CallFails, Unreachable
<1>3. Ticks(a)
  BY <1>1, <1>2, ServerTick DEF CallFails, desktop
<1>4. Typed /\ Typed'
  BY RunTyped DEF Structure, CallFails, Typed, desktop
<1>5. Touches(a)
  BY <1>2, <1>4, QuietTouches DEF CallFails
<1> QED BY <1>2, <1>3, <1>4, <1>5 DEF Kind

\* A program that is called starts in its place.
LEMMA InvokeKind ==
    ASSUME Structure, Invoke PROVE Typed' /\ Invokes
<1>1. Typed /\ Typed' /\ stack \in Seq(FrameSet)
  BY RunTyped DEF Structure, Typed, Invoke, desktop
<1>2. /\ Waits(1) /\ IsProgram(Callee(1)) /\ Callee(1) = Current.call /\ Top = stack[1]
      /\ Running /\ Current = Program[Name(1)][At(1)]
  BY <1>1, CallsIs, TopIs DEF Invoke, Structure, IsProgram, Calls
<1> DEFINE w == Current.window
           f == [name |-> Callee(1), at |-> "start", it |-> Resolved(w), left |-> Attempts]
<1>3. Resolved(w) = About(w)
  BY <1>2 DEF Resolved, About
<1>4. w \in Window \cup {"it", "selected"} /\ (w = "selected" => RoutedAt(Name(1), At(1)))
  BY <1>1, <1>2, FrameAnnotated DEF Waits, Annotated, RouteKept
<1>5. selected # "none" => selected \in Window
  BY <1>1 DEF Typed, Window
<1>6. About(w) \in Window
  <2>1. stack[1].it \in Window
    BY <1>1, <1>2, TopIs DEF FrameSet
  <2>2. w = "selected" => selected # "none"
    BY <1>2, <1>4 DEF Structure, Selected, Waits
  <2> QED BY <1>4, <1>5, <2>1, <2>2 DEF About
<1>7. "start" \in Label /\ Attempts \in 0..Attempts
  <2>1. "start" \in DOMAIN Program[Callee(1)]
    BY <1>2, Annotations DEF ProgramsAnnotated, WellFormed, IsProgram
  <2> QED BY <1>2, <2>1, CapabilityAssumption DEF Label, IsProgram
<1>8. f \in FrameSet
  <2> HIDE DEF w
  <2> QED BY <1>2, <1>3, <1>6, <1>7 DEF FrameSet, IsProgram
<1>9. stack' = <<f>> \o stack
  BY <1>2 DEF Invoke, Frame
<1>10. /\ f.name = Callee(1) /\ f.at = "start" /\ f.it = About(w)
       /\ w = Program[Name(1)][At(1)].window
  BY <1>2, <1>3
<1> HIDE DEF f, w
<1>11. Pushed(f)
  BY <1>1, <1>8, <1>9, PushShape
<1> QED BY <1>1, <1>2, <1>8, <1>10, <1>11 DEF Invokes, Invoke

\* A program that ends answers the one that called it.
LEMMA ReturnKind ==
    ASSUME Structure, Return PROVE Typed' /\ (Ends \/ Returns)
<1>1. Typed /\ stack \in Seq(FrameSet) /\ stack # <<>>
  BY RunTyped DEF Structure, Return, Running
<1>2. /\ Top = stack[1] /\ Top.name = Name(1) /\ Top.at = At(1) /\ 1 \in DOMAIN stack
      /\ Top.it \in Window
  BY <1>1, TopIs DEF Return, FrameSet
<1>3. At(1) \in Answer \ {"thrown"}
  BY <1>2 DEF Return, Structure, Started
<1>4. Judged
  BY <1>2 DEF Judged, Doubting, Return
<1>5. /\ confirmed' \subseteq Place /\ doubted' \subseteq Place
      /\ result' \in {"none", "no", "ok", "yes"}
  BY <1>1, <1>2, <1>3, <1>4 DEF Judged, Typed, Place, Return, Answer
<1>6. Typed'
  BY <1>1, <1>4, <1>5 DEF Judged, Typed
<1>7. IF Len(stack) = 1 THEN stack' = <<>> /\ result' = At(1)
                        ELSE stack' = Advance(Tail(stack), At(1)) /\ UNCHANGED result
  BY <1>2 DEF Return
<1>8. CASE Len(stack) = 1
  <2>1. stack' = <<>> /\ result' = At(1)
    BY <1>7, <1>8
  <2> QED BY <1>3, <1>4, <1>6, <1>8, <2>1 DEF Ends
<1>9. CASE Len(stack) # 1
  <2>1. Len(stack) \in Nat /\ Len(stack) >= 2 /\ DOMAIN stack = 1..Len(stack)
    <3>1. Len(stack) \in Nat /\ DOMAIN stack = 1..Len(stack)
      BY <1>1
    <3>2. Len(stack) # 0
      BY <1>1
    <3> QED BY <1>9, <3>1, <3>2
  <2>2. /\ 2 \in DOMAIN stack /\ 1 \in 1..Len(stack) - 1
        /\ Tail(stack) \in Seq(FrameSet) /\ Tail(stack) # <<>>
    <3>1. 2 \in DOMAIN stack /\ 1 \in 1..Len(stack) - 1
      BY <2>1
    <3>2. Tail(stack) \in Seq(FrameSet) /\ Len(Tail(stack)) = Len(stack) - 1
      BY <1>1
    <3>3. Len(Tail(stack)) # 0
      BY <2>1, <3>2
    <3>4. Tail(stack) # <<>>
      BY <3>2, <3>3, EmptySeq
    <3> QED BY <3>1, <3>2, <3>4
  <2>3. At(2) \in DOMAIN Program[Name(2)] /\ Callee(2) = Name(1)
    BY <2>2 DEF Structure, Linked
  <2>4. stack' = Advance(Tail(stack), At(1)) /\ UNCHANGED result
    BY <1>7, <1>9
  <2> DEFINE left == Head(Tail(stack)).left
  <2>5. left \in 0..Attempts
        /\ Tail(stack) = <<[Head(Tail(stack)) EXCEPT !.left = left]>> \o Tail(Tail(stack))
    BY <2>2, SameFrames
  <2>6. stack' = Advance(<<[Head(Tail(stack)) EXCEPT !.left = left]>> \o Tail(Tail(stack)), At(1))
    BY <2>4, <2>5
  <2> HIDE DEF left
  <2>7. At(1) \in Answer
    BY <1>3
  <2>8. Resumed(2, At(1))
    <3> DEFINE a == At(1)
               k == 2
               old == Tail(stack)
    <3>1. /\ k \in {1, 2} /\ k \in DOMAIN stack /\ At(k) \in DOMAIN Program[Name(k)] /\ a \in Answer
          /\ old = IF k = 1 THEN stack ELSE Tail(stack)
          /\ stack' = Advance(<<[Head(old) EXCEPT !.left = left]>> \o Tail(old), a)
      BY <2>2, <2>3, <2>6, <2>7
    <3> HIDE DEF a, k, old
    <3>2. Resumed(k, a)
      BY <1>1, <2>5, <3>1, AdvanceShape
    <3> QED BY <3>2 DEF k, a
  <2> QED BY <1>2, <1>3, <1>4, <1>6, <2>2, <2>3, <2>4, <2>8 DEF Returns, Waits
<1> QED BY <1>6, <1>8, <1>9

\* A capability that is run starts with no window in front and no leave to press Enter.
LEMMA ChainFacts ==
    \A chain \in Chain : /\ ~FrontAt(chain, "start") /\ ~MayEnterAt(chain, "start")
                         /\ chain \in DOMAIN Program
<1> SUFFICES ASSUME NEW chain \in Chain
             PROVE  /\ ~FrontAt(chain, "start") /\ ~MayEnterAt(chain, "start")
                    /\ chain \in DOMAIN Program
  OBVIOUS
<1>1. chain \in CapNames /\ chain \notin Part
  BY CapabilityAssumption, CapabilityNames DEF Registered
<1>2. chain \notin {"paste", "press_enter", "open_named", "explorer_select", "explorer_tree"}
  BY <1>1 DEF CapNames, Part
<1> QED BY <1>1, <1>2, Names DEF AllNames, FrontAt, MayEnterAt, Answered

\* A run starts with one frame on the desktop as it is found.
LEMMA StartKind ==
    ASSUME Structure, Start
    PROVE  /\ Typed' /\ stack = <<>> /\ result = "none" /\ result' = "none"
           /\ UNCHANGED <<selected, haveText, desktop>>
           /\ input'.chain \in Chain /\ input'.window \in Named(input'.chain)
           /\ input'.text \/ input'.chain \in {"act_verify", "multi_window_route_execute"}
           /\ stack' \in Seq(FrameSet) /\ Len(stack') = 1 /\ stack'[1].name = input'.chain
           /\ stack'[1].at = "start" /\ stack'[1].it = input'.window
           /\ input'.chain \in DOMAIN Program /\ "start" \in DOMAIN Program[input'.chain]
<1>1. stack = <<>> /\ result = "none" /\ UNCHANGED <<result, selected, haveText, desktop>>
  BY DEF Start, Running
<1> PICK chain \in Chain, enter \in BOOLEAN, text \in BOOLEAN : \E window \in Named(chain) :
        /\ text \/ chain \in {"act_verify", "multi_window_route_execute"}
        /\ input' = [chain |-> chain, window |-> window, enter |-> enter, text |-> text]
        /\ stack' = <<Frame(chain, window, Attempts)>>
  BY DEF Start
<1> PICK window \in Named(chain) :
        /\ text \/ chain \in {"act_verify", "multi_window_route_execute"}
        /\ input' = [chain |-> chain, window |-> window, enter |-> enter, text |-> text]
        /\ stack' = <<Frame(chain, window, Attempts)>>
  OBVIOUS
<1>2. window \in Window
  BY DEF Named, Window
<1>3. chain \in DOMAIN Program /\ "start" \in DOMAIN Program[chain]
  BY ChainFacts, Annotations DEF ProgramsAnnotated, WellFormed
<1>4. Typed /\ Typed'
  <2>1. Typed
    BY RunTyped DEF Structure
  <2>2. input' \in [chain : Chain \cup {"none"}, window : Window, enter : BOOLEAN, text : BOOLEAN]
    BY <1>2
  <2> QED BY <1>1, <2>1, <2>2 DEF Typed, desktop
<1>5. Frame(chain, window, Attempts) \in FrameSet
  BY <1>2, <1>3, CapabilityAssumption DEF Frame, FrameSet, Label
<1>6. stack'[1] = Frame(chain, window, Attempts) /\ stack' \in Seq(FrameSet) /\ Len(stack') = 1
  <2> DEFINE f == Frame(chain, window, Attempts)
  <2>1. f \in FrameSet /\ stack' = <<f>>
    BY <1>5
  <2> HIDE DEF f
  <2>2. stack'[1] = f /\ stack' \in Seq(FrameSet) /\ Len(stack') = 1
    BY <2>1
  <2> QED BY <2>2 DEF f
<1> QED BY <1>1, <1>3, <1>4, <1>6 DEF Frame

\* Every step of a run is of one of these kinds.
LEMMA StepIs ==
    ASSUME Structure, RunNext \/ CallFails
    PROVE  Start \/ (Typed' /\ (Invokes \/ Ends \/ Returns)) \/ Kind
BY InvokeKind, ReturnKind, CountAttemptKind, DecideKind, LookKind, ReadSourceKind, SelectKind,
   BringToFrontKind, SetClipboardKind, ReadClipboardKind, PasteKind, TypeIntoFieldKind,
   TypePathKind, AttachFileKind, PressEnterKind, CallFailsKind DEF RunNext

-----------------------------------------------------------------------------
\* The frames after a step.

\* The frames after a call.
LEMMA PushedFrames ==
    ASSUME NEW f, Pushed(f)
    PROVE  /\ DOMAIN stack' = 1..Len(stack) + 1 /\ Len(stack') = Len(stack) + 1
           /\ 1 \in DOMAIN stack' /\ stack' # <<>>
           /\ Name(1)' = f.name /\ At(1)' = f.at /\ stack'[1].it = f.it
           /\ \A i \in DOMAIN stack' : i # 1 =>
                 /\ i - 1 \in DOMAIN stack
                 /\ Name(i)' = Name(i - 1) /\ At(i)' = At(i - 1) /\ Callee(i)' = Callee(i - 1)
                 /\ stack'[i].it = stack[i - 1].it
<1>1. /\ Len(stack) \in Nat /\ DOMAIN stack' = 1..Len(stack') /\ Len(stack') = Len(stack) + 1
      /\ stack'[1] = f
      /\ \A i \in 2..Len(stack') : i - 1 \in DOMAIN stack /\ stack'[i] = stack[i - 1]
  BY DEF Pushed, Shifted
<1>2. \A i \in DOMAIN stack' : i # 1 => i \in 2..Len(stack')
  BY <1>1
<1>3. stack' # <<>>
  <2>1. Len(stack') # 0
    BY <1>1
  <2> QED BY <2>1, EmptySeq DEF Pushed, Shifted
<1>4. 1 \in DOMAIN stack'
  BY <1>1
<1> QED BY <1>1, <1>2, <1>3, <1>4 DEF Name, At, Callee

\* The frames after an answer.
LEMMA ResumedFrames ==
    ASSUME NEW k, NEW a, Resumed(k, a)
    PROVE  /\ k \in {1, 2} /\ Len(stack') = Len(stack) - k + 1 /\ stack' # <<>>
           /\ DOMAIN stack' = 1..Len(stack') /\ 1 \in DOMAIN stack' /\ k \in DOMAIN stack
           /\ At(1)' = Program[Name(k)][At(k)].next[a]
           /\ \A i \in DOMAIN stack' :
                 /\ i + k - 1 \in DOMAIN stack
                 /\ Name(i)' = Name(i + k - 1) /\ stack'[i].it = stack[i + k - 1].it
                 /\ i # 1 => At(i)' = At(i + k - 1) /\ Callee(i)' = Callee(i + k - 1)
           /\ \A i \in DOMAIN stack : i >= k => i - k + 1 \in DOMAIN stack'
<1>1. /\ Len(stack) \in Nat /\ Len(stack') \in Nat /\ DOMAIN stack' = 1..Len(stack')
      /\ DOMAIN stack = 1..Len(stack) /\ Len(stack') = Len(stack) + (1 - k)
      /\ k \in {1, 2} /\ k \in 1..Len(stack) /\ stack' # <<>>
      /\ \A i \in 2..Len(stack') : i - (1 - k) \in DOMAIN stack /\ stack'[i] = stack[i - (1 - k)]
      /\ stack'[1].name = Name(k) /\ stack'[1].it = stack[k].it
      /\ stack'[1].at = Program[Name(k)][At(k)].next[a]
  BY DEF Resumed, Shifted
<1>2. \A i \in DOMAIN stack' : i # 1 => i \in 2..Len(stack')
  BY <1>1
<1>3. Len(stack') = Len(stack) - k + 1 /\ 1 \in DOMAIN stack'
  BY <1>1
<1>4. ASSUME NEW i \in DOMAIN stack'
      PROVE  /\ i + k - 1 \in DOMAIN stack
             /\ Name(i)' = Name(i + k - 1) /\ stack'[i].it = stack[i + k - 1].it
             /\ i # 1 => At(i)' = At(i + k - 1) /\ Callee(i)' = Callee(i + k - 1)
  <2>1. CASE i = 1
    <3>1. i + k - 1 = k
      BY <2>1, <1>1
    <3> QED BY <1>1, <2>1, <3>1 DEF Name
  <2>2. CASE i # 1
    <3>1. i - (1 - k) = i + k - 1
      BY <1>1
    <3>2. i + k - 1 \in DOMAIN stack /\ stack'[i] = stack[i + k - 1]
      BY <1>1, <1>2, <2>2, <3>1
    <3> QED BY <3>2 DEF Name, At, Callee
  <2> QED BY <2>1, <2>2
<1>5. \A i \in DOMAIN stack : i >= k => i - k + 1 \in DOMAIN stack'
  BY <1>1, <1>3
<1> QED BY <1>1, <1>3, <1>4, <1>5 DEF At

\* How the sets of programs are related.
LEMMA Vocabulary ==
    /\ Inserter \cap Outer = {} /\ Core \subseteq Outer /\ Router \subseteq Routed
    /\ Stager \in Staged /\ Stager \in Outer /\ Stager \notin Inserter /\ Stager \in Core
    /\ Routed \cap Staged = {} /\ Stager \notin Routed
    /\ Routed \subseteq Outer /\ Staged \subseteq Outer
    /\ Outer \cup Inserter = Writing /\ Router \subseteq Core
    /\ Router \subseteq Outer
BY DEF Inserter, Outer, Core, Router, Routed, Staged, Stager, Transfer, Writing

\* Every program has its first label.
LEMMA StartLabel ==
    /\ "start" \notin Answer /\ "none" \notin Answer
    /\ \A name : ~RoutedAt(name, "start")
BY DEF Answer, RoutedAt

\* The capability at the bottom of the stack.
LEMMA Bottom ==
    ASSUME Structure, NEW i \in DOMAIN stack, NEW S \in CalledFromWithin, Name(i) \in S
    PROVE  input.chain \in S
<1>1. Len(stack) \in Nat /\ DOMAIN stack = 1..Len(stack) /\ stack # <<>>
  BY EmptySeq DEF Structure
<1>2. i <= Len(stack) /\ Len(stack) \in DOMAIN stack
  BY <1>1
<1> QED BY <1>1, <1>2 DEF Structure, Nested, Started

-----------------------------------------------------------------------------
\* The structure of the stack.

\* What is known of the stack is kept by a call.
LEMMA PushedStructure ==
    ASSUME Structure, Invokes, Typed'
    PROVE  /\ RunTypeOK' /\ Linked' /\ Nested' /\ OneCore' /\ SameWindow' /\ Started' /\ Selected'
<1> PICK f \in FrameSet : /\ f.name = Callee(1) /\ f.at = "start"
                          /\ f.it = About(Program[Name(1)][At(1)].window)
                          /\ Pushed(f)
  BY DEF Invokes
<1> DEFINE s == Program[Name(1)][At(1)]
<1>1. WellNested(Name(1), At(1), s) /\ s.call = Callee(1) /\ IsProgram(s.call) /\ 1 \in DOMAIN stack
  BY FrameAnnotated DEF Structure, Invokes, Waits, Annotated, Callee
<1>f. /\ DOMAIN stack' = 1..Len(stack) + 1 /\ Len(stack') = Len(stack) + 1
      /\ 1 \in DOMAIN stack' /\ stack' # <<>>
      /\ Name(1)' = s.call /\ At(1)' = "start" /\ stack'[1].it = About(s.window)
      /\ \A i \in DOMAIN stack' : i # 1 =>
            /\ i - 1 \in DOMAIN stack
            /\ Name(i)' = Name(i - 1) /\ At(i)' = At(i - 1) /\ Callee(i)' = Callee(i - 1)
            /\ stack'[i].it = stack[i - 1].it
  BY <1>1, PushedFrames
<1> HIDE DEF s
<1>2. Nested'
  <2> SUFFICES ASSUME NEW S \in CalledFromWithin, NEW i \in DOMAIN stack', NEW j \in DOMAIN stack',
                      i <= j, Name(i)' \in S
               PROVE  Name(j)' \in S
    BY DEF Nested, CalledFromWithin, Outer, Writing, Inserter, FromFile, Submitter,
       Submitting, Routed, Staged
  <2>1. CASE i = 1 /\ j # 1
    <3>1. Name(1) \in S
      BY <1>1, <1>f, <2>1 DEF WellNested
    <3>2. j - 1 \in DOMAIN stack /\ 1 <= j - 1
      BY <1>f, <2>1
    <3> QED BY <1>1, <1>f, <2>1, <3>1, <3>2 DEF Structure, Nested
  <2>2. CASE i # 1
    <3>1. j # 1 /\ i - 1 <= j - 1
      BY <1>f, <2>2
    <3> QED BY <1>f, <2>2, <3>1 DEF Structure, Nested
  <2> QED BY <2>1, <2>2
<1>3. OneCore'
  <2>1. ASSUME NEW i \in DOMAIN stack', NEW j \in DOMAIN stack', i < j, Name(j)' \in Core
        PROVE  Name(i)' \notin Outer
    <3>1. j # 1 /\ Name(j - 1) \in Core /\ j - 1 \in DOMAIN stack
      BY <1>f, <2>1
    <3>2. CASE i = 1
      <4>1. s.call \in Outer => Name(1) \in Outer /\ Name(1) \notin Core
        BY <1>1 DEF WellNested, CalledFromWithin
      <4>2. j - 1 = 1 \/ 1 < j - 1
        BY <1>f, <2>1, <3>2
      <4> QED BY <1>1, <1>f, <3>1, <3>2, <4>1, <4>2 DEF Structure, OneCore
    <3>3. CASE i # 1
      <4>1. i - 1 < j - 1
        BY <1>f, <2>1, <3>3
      <4> QED BY <1>f, <3>1, <3>3, <4>1 DEF Structure, OneCore
    <3> QED BY <3>2, <3>3
  <2>2. ASSUME input.chain \in Staged, NEW i \in DOMAIN stack', Name(i)' \in Inserter
        PROVE  \E j \in DOMAIN stack' : i < j /\ Name(j)' = Stager
    <3>1. ASSUME NEW m \in DOMAIN stack, Name(m) = Stager, i = 1 \/ i - 1 < m
          PROVE  m + 1 \in DOMAIN stack' /\ i < m + 1 /\ Name(m + 1)' = Stager
      <4>1. m + 1 \in DOMAIN stack' /\ m + 1 # 1 /\ (m + 1) - 1 = m /\ i < m + 1
        BY <1>f, <3>1
      <4> QED BY <1>f, <3>1, <4>1
    <3>2. CASE i = 1
      <4>1. Name(1) \in Inserter \/ Name(1) \in Routed \/ Name(1) = Stager
        BY <1>1, <1>f, <2>2, <3>2 DEF WellNested
      <4>2. Name(1) \notin Routed
        BY <1>1, <2>2, Bottom, Vocabulary DEF CalledFromWithin
      <4>3. \E m \in DOMAIN stack : Name(m) = Stager
        BY <1>1, <2>2, <4>1, <4>2 DEF Structure, OneCore
      <4> QED BY <3>1, <3>2, <4>3
    <3>3. CASE i # 1
      <4>1. \E m \in DOMAIN stack : i - 1 < m /\ Name(m) = Stager
        BY <1>f, <2>2, <3>3 DEF Structure, OneCore
      <4> QED BY <3>1, <4>1
    <3> QED BY <3>2, <3>3
  <2>3. UNCHANGED input
    BY DEF Invokes
  <2> QED BY <2>1, <2>2, <2>3 DEF OneCore
<1>4. SameWindow'
  <2> SUFFICES ASSUME NEW i \in DOMAIN stack', NEW j \in DOMAIN stack', i <= j, Name(j)' \in Inner
               PROVE  Name(i)' \in Inner /\ stack'[i].it = stack'[j].it
    BY DEF SameWindow
  <2>1. CASE i = 1 /\ j # 1
    <3>1. j - 1 \in DOMAIN stack /\ 1 <= j - 1 /\ Name(j - 1) \in Inner
      BY <1>f, <2>1
    <3>2. Name(1) \in Inner /\ stack[1].it = stack[j - 1].it
      BY <1>1, <3>1 DEF Structure, SameWindow
    <3>3. s.window = "it" /\ s.call \in Inner
      BY <1>1, <3>2 DEF WellNested
    <3> QED BY <1>f, <2>1, <3>2, <3>3 DEF About
  <2>2. CASE i = 1 /\ j = 1
    BY <2>2
  <2>3. CASE i # 1
    <3>1. j # 1 /\ i - 1 <= j - 1
      BY <1>f, <2>3
    <3> QED BY <1>f, <2>3, <3>1 DEF Structure, SameWindow
  <2> QED BY <2>1, <2>2, <2>3
<1>5. Linked'
  <2> SUFFICES ASSUME NEW i \in 1..Len(stack') - 1
               PROVE  At(i + 1)' \in DOMAIN Program[Name(i + 1)'] /\ Callee(i + 1)' = Name(i)'
    BY DEF Linked
  <2>1. i + 1 \in DOMAIN stack' /\ i + 1 # 1 /\ (i + 1) - 1 = i /\ i \in DOMAIN stack'
    BY <1>f
  <2>2. CASE i = 1
    BY <1>f, <2>1, <2>2, <1>1 DEF Invokes, Waits
  <2>3. CASE i # 1
    <3>1. i - 1 \in 1..Len(stack) - 1 /\ (i - 1) + 1 = i
      BY <1>f, <2>1, <2>3
    <3>2. At(i) \in DOMAIN Program[Name(i)] /\ Callee(i) = Name(i - 1)
      BY <3>1 DEF Structure, Linked
    <3> QED BY <1>f, <2>1, <2>3, <3>2
  <2> QED BY <2>2, <2>3
<1>6. Selected'
  BY <1>f, StartLabel DEF Structure, Selected, Invokes
<1>7. Started'
  <2>1. /\ stack'[Len(stack')].name = stack[Len(stack)].name
        /\ stack'[Len(stack')].it = stack[Len(stack)].it
    <3>1. Len(stack) \in Nat \ {0}
      BY <1>1 DEF Structure
    <3>2. Len(stack') \in DOMAIN stack' /\ Len(stack') # 1 /\ Len(stack') - 1 = Len(stack)
      BY <1>f, <3>1
    <3> QED BY <1>f, <3>2 DEF Name
  <2>2. \A i \in DOMAIN stack' : At(i)' # "thrown"
    BY <1>f DEF Structure, Started
  <2>3. stack # <<>> /\ UNCHANGED <<input, result>>
    BY <1>1 DEF Structure, Invokes
  <2> QED BY <1>f, <2>1, <2>2, <2>3 DEF Structure, Started, Name
<1>8. RunTypeOK'
  <2>1. \A i \in DOMAIN stack' :
          /\ stack'[i].name \in DOMAIN Program
          /\ stack'[i].at \in DOMAIN Program[stack'[i].name] \cup Answer
          /\ stack'[i].it \in Window /\ stack'[i].left \in 0..Attempts
    <3> TAKE i \in DOMAIN stack'
    <3>1. stack'[i] \in FrameSet
      BY DEF Pushed, Shifted
    <3>2. stack'[i].at \in DOMAIN Program[stack'[i].name] \cup Answer
      <4>1. CASE i = 1
        BY <4>1, <1>1, <1>f, Annotations DEF ProgramsAnnotated, WellFormed, IsProgram, Name, At
      <4>2. CASE i # 1
        BY <4>2, <1>f DEF Structure, RunTypeOK, Name, At
      <4> QED BY <4>1, <4>2
    <3> QED BY <3>1, <3>2 DEF FrameSet
  <2> QED BY <2>1 DEF Typed, RunTypeOK
<1> QED BY <1>2, <1>3, <1>4, <1>5, <1>6, <1>7, <1>8

\* What is known of the stack is kept by an answer.
LEMMA ResumedStructure ==
    ASSUME Structure, NEW k, NEW a \in Answer, Resumed(k, a), Waits(k), Typed',
           UNCHANGED <<input, result>>,
           a \in Reply(Callee(k)),
           IF Callee(k) = "select_route" THEN selected' # "none" ELSE UNCHANGED selected
    PROVE  /\ RunTypeOK' /\ Linked' /\ Nested' /\ OneCore' /\ SameWindow' /\ Started' /\ Selected'
<1> DEFINE s == Program[Name(k)][At(k)]
<1>1. /\ Annotated(Name(k), At(k), s) /\ s.call = Callee(k) /\ k \in DOMAIN stack
      /\ s.next[a] \in DOMAIN Program[Name(k)] \cup Answer /\ s.next[a] # "thrown"
  BY FrameAnnotated DEF Structure, Waits, Callee
<1>f. /\ k \in {1, 2} /\ Len(stack') = Len(stack) - k + 1 /\ stack' # <<>>
      /\ DOMAIN stack' = 1..Len(stack') /\ 1 \in DOMAIN stack' /\ k \in DOMAIN stack
      /\ At(1)' = s.next[a]
      /\ \A i \in DOMAIN stack' :
            /\ i + k - 1 \in DOMAIN stack
            /\ Name(i)' = Name(i + k - 1) /\ stack'[i].it = stack[i + k - 1].it
            /\ i # 1 => At(i)' = At(i + k - 1) /\ Callee(i)' = Callee(i + k - 1)
      /\ \A i \in DOMAIN stack : i >= k => i - k + 1 \in DOMAIN stack'
  BY ResumedFrames
<1>l. Len(stack) \in Nat /\ Len(stack') \in Nat /\ DOMAIN stack = 1..Len(stack)
      /\ stack' \in Seq(FrameSet)
  BY DEF Structure, Resumed, Shifted
<1> HIDE DEF s
<1>2. Nested'
  <2> SUFFICES ASSUME NEW S \in CalledFromWithin, NEW i \in DOMAIN stack', NEW j \in DOMAIN stack',
                      i <= j, Name(i)' \in S
               PROVE  Name(j)' \in S
    BY DEF Nested, CalledFromWithin, Outer, Writing, Inserter, FromFile, Submitter,
       Submitting, Routed, Staged
  <2>1. i + k - 1 <= j + k - 1
    BY <1>f, <1>l
  <2> QED BY <1>f, <2>1 DEF Structure, Nested
<1>3. OneCore'
  <2>1. ASSUME NEW i \in DOMAIN stack', NEW j \in DOMAIN stack', i < j, Name(j)' \in Core
        PROVE  Name(i)' \notin Outer
    <3>1. i + k - 1 < j + k - 1
      BY <1>f, <1>l, <2>1
    <3> QED BY <1>f, <2>1, <3>1 DEF Structure, OneCore
  <2>2. ASSUME input.chain \in Staged, NEW i \in DOMAIN stack', Name(i)' \in Inserter
        PROVE  \E j \in DOMAIN stack' : i < j /\ Name(j)' = Stager
    <3>1. PICK m \in DOMAIN stack : i + k - 1 < m /\ Name(m) = Stager
      BY <1>f, <2>2 DEF Structure, OneCore
    <3>2. /\ m - k + 1 \in DOMAIN stack' /\ i < m - k + 1 /\ (m - k + 1) + k - 1 = m
      <4>1. m >= k
        BY <1>f, <1>l, <3>1
      <4> QED BY <1>f, <1>l, <3>1, <4>1
    <3> QED BY <1>f, <3>1, <3>2
  <2> QED BY <2>1, <2>2 DEF OneCore
<1>4. SameWindow'
  <2> SUFFICES ASSUME NEW i \in DOMAIN stack', NEW j \in DOMAIN stack', i <= j, Name(j)' \in Inner
               PROVE  Name(i)' \in Inner /\ stack'[i].it = stack'[j].it
    BY DEF SameWindow
  <2>1. i + k - 1 <= j + k - 1
    BY <1>f, <1>l
  <2> QED BY <1>f, <2>1 DEF Structure, SameWindow
<1>5. Linked'
  <2> SUFFICES ASSUME NEW i \in 1..Len(stack') - 1
               PROVE  At(i + 1)' \in DOMAIN Program[Name(i + 1)'] /\ Callee(i + 1)' = Name(i)'
    BY DEF Linked
  <2>1. /\ i + 1 \in DOMAIN stack' /\ i + 1 # 1 /\ (i + 1) + k - 1 = (i + k - 1) + 1
        /\ i \in DOMAIN stack' /\ i + k - 1 \in 1..Len(stack) - 1
    BY <1>f, <1>l
  <2>2. At(i + k) \in DOMAIN Program[Name(i + k)] /\ Callee(i + k) = Name(i + k - 1)
        /\ (i + 1) + k - 1 = i + k
    <3>1. (i + k - 1) + 1 = i + k /\ (i + 1) + k - 1 = i + k
      BY <1>f, <1>l
    <3> QED BY <2>1, <3>1 DEF Structure, Linked
  <2> QED BY <1>f, <2>1, <2>2
<1>6. Selected'
  <2> SUFFICES ASSUME NEW i \in DOMAIN stack', RoutedAt(Name(i)', At(i)')
               PROVE  selected' # "none"
    BY DEF Selected
  <2>1. CASE Callee(k) = "select_route"
    BY <2>1
  <2>2. CASE Callee(k) # "select_route" /\ i # 1
    BY <1>f, <2>2 DEF Structure, Selected
  <2>3. CASE Callee(k) # "select_route" /\ i = 1
    <3>1. RoutedAt(Name(k), s.next[a])
      <4>1. i + k - 1 = k
        BY <1>f, <2>3
      <4> QED BY <1>f, <2>3, <4>1
    <3>2. RoutedAt(Name(k), At(k))
      BY <1>1, <2>3, <3>1 DEF Annotated, RouteKept
    <3> QED BY <1>1, <2>3, <3>2 DEF Structure, Selected
  <2> QED BY <2>1, <2>2, <2>3
<1>7. Started'
  <2>1. /\ stack'[Len(stack')].name = stack[Len(stack)].name
        /\ stack'[Len(stack')].it = stack[Len(stack)].it
    <3>1. Len(stack') \in DOMAIN stack' /\ Len(stack') + k - 1 = Len(stack)
      BY <1>f, <1>l
    <3> QED BY <1>f, <3>1 DEF Name
  <2>2. \A i \in DOMAIN stack' : At(i)' # "thrown"
    BY <1>1, <1>f DEF Structure, Started
  <2>3. stack # <<>>
    BY <1>1
  <2> QED BY <1>f, <2>1, <2>2, <2>3 DEF Structure, Started, Name
<1>8. RunTypeOK'
  <2>1. \A i \in DOMAIN stack' :
          /\ stack'[i].name \in DOMAIN Program
          /\ stack'[i].at \in DOMAIN Program[stack'[i].name] \cup Answer
          /\ stack'[i].it \in Window /\ stack'[i].left \in 0..Attempts
    <3> TAKE i \in DOMAIN stack'
    <3>1. stack'[i] \in FrameSet
      BY <1>l
    <3>2. stack'[i].at \in DOMAIN Program[stack'[i].name] \cup Answer
      <4>1. CASE i = 1
        <5>1. i + k - 1 = k
          BY <1>f, <4>1
        <5> QED BY <4>1, <5>1, <1>1, <1>f DEF Name, At
      <4>2. CASE i # 1
        BY <4>2, <1>f DEF Structure, RunTypeOK, Name, At
      <4> QED BY <4>1, <4>2
    <3> QED BY <3>1, <3>2 DEF FrameSet
  <2> QED BY <2>1 DEF Typed, RunTypeOK
<1> QED BY <1>2, <1>3, <1>4, <1>5, <1>6, <1>7, <1>8

\* The window that text is put into changes only while the chain is at its routing or staging.
AimKept == Aim' = Aim \/ \A i \in DOMAIN stack' : Name(i)' \in Outer

\* Beneath a chain whose target is elsewhere all are such chains.
LEMMA OuterDown ==
    ASSUME Structure, NEW i \in DOMAIN stack, NEW j \in DOMAIN stack, i <= j, Name(i) \in Outer
    PROVE  Name(j) \in Outer
BY DEF Structure, Nested, CalledFromWithin

\* A call keeps the windows of the frames with the aim.
LEMMA PushedAim ==
    ASSUME Structure, Invokes
    PROVE  AimKept /\ Aimed' /\ (Callee(1) # Stager => Aim' = Aim)
<1> PICK f \in FrameSet : /\ f.name = Callee(1) /\ f.at = "start"
                          /\ f.it = About(Program[Name(1)][At(1)].window)
                          /\ Pushed(f)
  BY DEF Invokes
<1> DEFINE s == Program[Name(1)][At(1)]
<1>1. WellNested(Name(1), At(1), s) /\ s.call = Callee(1) /\ 1 \in DOMAIN stack
  BY FrameAnnotated DEF Structure, Invokes, Waits, Annotated, Callee
<1>f. /\ DOMAIN stack' = 1..Len(stack) + 1 /\ 1 \in DOMAIN stack'
      /\ Name(1)' = s.call /\ At(1)' = "start" /\ stack'[1].it = About(s.window)
      /\ \A i \in DOMAIN stack' : i # 1 =>
            /\ i - 1 \in DOMAIN stack
            /\ Name(i)' = Name(i - 1) /\ At(i)' = At(i - 1)
            /\ stack'[i].it = stack[i - 1].it
  BY <1>1, PushedFrames
<1>l. Len(stack) \in Nat /\ DOMAIN stack = 1..Len(stack)
  BY DEF Structure
<1> HIDE DEF s
<1>u. UNCHANGED <<input, selected>>
  BY DEF Invokes
<1>2. s.call # Stager => Aim' = Aim
  <2>1. ASSUME s.call # Stager PROVE Staging' = Staging
    <3>1. ASSUME NEW i \in DOMAIN stack
          PROVE  i + 1 \in DOMAIN stack' /\ Name(i + 1)' = Name(i) /\ At(i + 1)' = At(i)
      <4>1. i + 1 \in DOMAIN stack' /\ i + 1 # 1 /\ (i + 1) - 1 = i
        BY <1>f, <1>l
      <4> QED BY <1>f, <4>1
    <3>2. Staging => Staging'
      BY <3>1 DEF Staging
    <3>3. Staging' => Staging
      BY <1>f, <2>1 DEF Staging
    <3> QED BY <3>2, <3>3 DEF Staging
  <2> QED BY <1>u, <2>1 DEF Aim
<1>3. s.call \in Outer => \A i \in DOMAIN stack' : Name(i)' \in Outer
  <2> SUFFICES ASSUME s.call \in Outer, NEW i \in DOMAIN stack'
               PROVE  Name(i)' \in Outer
    OBVIOUS
  <2>1. Name(1) \in Outer
    BY <1>1 DEF WellNested, CalledFromWithin
  <2>2. CASE i = 1
    BY <1>f, <2>2
  <2>3. CASE i # 1
    <3>1. i - 1 \in DOMAIN stack /\ 1 <= i - 1
      BY <1>f, <1>l, <2>3
    <3> QED BY <1>1, <1>f, <2>1, <2>3, <3>1, OuterDown
  <2> QED BY <2>2, <2>3
<1>4. AimKept
  BY <1>2, <1>3, Vocabulary DEF AimKept
<1>5. Aimed'
  <2> SUFFICES ASSUME NEW i \in DOMAIN stack'
               PROVE  /\ Name(i)' \in Inserter => stack'[i].it = Aim'
                      /\ Name(i)' \in Outer => stack'[i].it = input.window
    BY <1>u DEF Aimed
  <2>1. CASE i # 1
    BY <1>f, <1>4, <2>1, Vocabulary DEF Structure, Aimed, AimKept
  <2>2. ASSUME i = 1, s.call \in Outer PROVE stack'[i].it = input.window
    <3>1. Name(1) \in Outer /\ s.window = "it"
      BY <1>1, <2>2 DEF WellNested, CalledFromWithin
    <3> QED BY <1>1, <1>f, <2>2, <3>1 DEF About, Structure, Aimed
  <2>3. ASSUME i = 1, s.call \in Inserter PROVE stack'[i].it = Aim'
    <3>1. Aim' = Aim
      BY <1>2, <2>3, Vocabulary
    <3>2. CASE Name(1) \in Inserter /\ s.window = "it"
      BY <1>1, <1>f, <2>3, <3>1, <3>2 DEF About, Structure, Aimed
    <3>3. CASE Name(1) \in Routed /\ s.window = "selected"
      <4>1. input.chain \in Routed
        BY <1>1, <3>3, Bottom DEF CalledFromWithin
      <4> QED BY <1>f, <2>3, <3>1, <3>3, <4>1 DEF About, Aim
    <3>4. CASE Name(1) = Stager /\ s.window = IF At(1) = "start" THEN "editor" ELSE "it"
      <4>1. input.chain \notin Routed
        BY <1>1, <3>4, Bottom, Vocabulary DEF CalledFromWithin
      <4>2. CASE At(1) = "start"
        <5>1. Staging
          BY <1>1, <3>4, <4>2 DEF Staging
        <5> QED BY <1>f, <2>3, <3>1, <3>4, <4>1, <4>2, <5>1 DEF About, Aim
      <4>3. CASE At(1) # "start"
        <5>1. ~Staging
          <6> SUFFICES ASSUME NEW j \in DOMAIN stack, Name(j) = Stager, At(j) = "start" PROVE FALSE
            BY DEF Staging
          <6>1. 1 < j
            BY <1>l, <4>3
          <6> QED BY <1>1, <3>4, <6>1, Vocabulary DEF Structure, OneCore
        <5>2. stack[1].it = input.window
          BY <1>1, <3>4, Vocabulary DEF Structure, Aimed
        <5> QED BY <1>f, <2>3, <3>1, <3>4, <4>1, <4>3, <5>1, <5>2 DEF About, Aim
      <4> QED BY <4>2, <4>3
    <3> QED BY <1>1, <2>3, <3>2, <3>3, <3>4 DEF WellNested
  <2> QED BY <1>f, <2>1, <2>2, <2>3
<1> QED BY <1>1, <1>2, <1>4, <1>5

\* An answer keeps the windows of the frames with the aim.
LEMMA ResumedAim ==
    ASSUME Structure, NEW k, NEW a \in Answer, Resumed(k, a), Waits(k), UNCHANGED input,
           k = 2 => At(1) \in Answer,
           Callee(k) = "select_route" \/ UNCHANGED selected
    PROVE  /\ AimKept /\ Aimed'
           /\ Name(k) # Stager /\ UNCHANGED selected => Aim' = Aim
<1> DEFINE s == Program[Name(k)][At(k)]
<1>1. /\ Annotated(Name(k), At(k), s) /\ s.call = Callee(k) /\ k \in DOMAIN stack
  BY FrameAnnotated DEF Structure, Waits, Callee
<1>f. /\ k \in {1, 2} /\ Len(stack') = Len(stack) - k + 1
      /\ DOMAIN stack' = 1..Len(stack') /\ 1 \in DOMAIN stack'
      /\ \A i \in DOMAIN stack' :
            /\ i + k - 1 \in DOMAIN stack
            /\ Name(i)' = Name(i + k - 1) /\ stack'[i].it = stack[i + k - 1].it
            /\ i # 1 => At(i)' = At(i + k - 1)
      /\ \A i \in DOMAIN stack : i >= k => i - k + 1 \in DOMAIN stack'
  BY ResumedFrames
<1>l. Len(stack) \in Nat /\ Len(stack') \in Nat /\ DOMAIN stack = 1..Len(stack)
  BY DEF Structure, Resumed, Shifted
<1> HIDE DEF s
<1>2. Name(k) \in Outer => \A i \in DOMAIN stack' : Name(i)' \in Outer
  <2> SUFFICES ASSUME Name(k) \in Outer, NEW i \in DOMAIN stack' PROVE Name(i)' \in Outer
    OBVIOUS
  <2>1. i + k - 1 \in DOMAIN stack /\ k <= i + k - 1
    BY <1>f, <1>l
  <2> QED BY <1>1, <1>f, <2>1, OuterDown
<1>3. ASSUME Name(k) # Stager PROVE Staging' = Staging
  <2>1. ASSUME NEW i \in DOMAIN stack', Name(i)' = Stager, At(i)' = "start"
        PROVE  Staging
    <3>1. i # 1
      <4>1. i = 1 => i + k - 1 = k
        BY <1>f
      <4> QED BY <1>3, <1>f, <2>1, <4>1
    <3> QED BY <1>f, <2>1, <3>1 DEF Staging
  <2>2. ASSUME NEW j \in DOMAIN stack, Name(j) = Stager, At(j) = "start"
        PROVE  Staging'
    <3>1. j # 1 \/ k = 1
      BY <2>2, <1>f, StartLabel
    <3>2. j # k
      BY <1>3, <2>2
    <3>3. j > k
      BY <1>f, <1>l, <3>1, <3>2
    <3>4. j - k + 1 \in DOMAIN stack' /\ j - k + 1 # 1 /\ (j - k + 1) + k - 1 = j
      BY <1>f, <1>l, <3>3
    <3>5. Name(j - k + 1)' = Stager /\ At(j - k + 1)' = "start"
      BY <1>f, <2>2, <3>4
    <3> QED BY <3>4, <3>5 DEF Staging
  <2> QED BY <2>1, <2>2 DEF Staging
<1>6. ASSUME Name(k) # Stager, UNCHANGED selected PROVE Aim' = Aim
  BY <1>3, <1>6 DEF Aim
<1>4. AimKept
  <2>1. Callee(k) = "select_route" => Name(k) \in Outer
    BY <1>1, Vocabulary DEF Annotated, RouteKept
  <2>2. Name(k) # Stager /\ UNCHANGED selected => Aim' = Aim
    BY <1>6
  <2> QED BY <1>2, <2>1, <2>2, Vocabulary DEF AimKept
<1>5. Aimed'
  <2> SUFFICES ASSUME NEW i \in DOMAIN stack'
               PROVE  /\ Name(i)' \in Inserter => stack'[i].it = Aim'
                      /\ Name(i)' \in Outer => stack'[i].it = input.window
    BY DEF Aimed
  <2> QED BY <1>f, <1>4, Vocabulary DEF Structure, Aimed, AimKept
<1> QED BY <1>4, <1>5, <1>6

\* What is known of the stack holds when a run starts.
LEMMA StartStructure ==
    ASSUME Structure, Start PROVE Structure'
<1>1. /\ Typed' /\ stack = <<>> /\ result = "none" /\ result' = "none"
      /\ UNCHANGED <<selected, haveText, desktop>>
      /\ input'.chain \in Chain /\ input'.window \in Named(input'.chain)
      /\ input'.text \/ input'.chain \in {"act_verify", "multi_window_route_execute"}
      /\ stack' \in Seq(FrameSet) /\ Len(stack') = 1 /\ stack'[1].name = input'.chain
      /\ stack'[1].at = "start" /\ stack'[1].it = input'.window
      /\ input'.chain \in DOMAIN Program /\ "start" \in DOMAIN Program[input'.chain]
  BY StartKind
<1>f. /\ DOMAIN stack' = {1} /\ Name(1)' = input'.chain /\ At(1)' = "start" /\ stack' # <<>>
      /\ stack'[1] \in FrameSet
  <2>1. DOMAIN stack' = 1..1 /\ Len(stack') # 0
    BY <1>1
  <2>2. stack' # <<>>
    BY <2>1, EmptySeq
  <2> QED BY <1>1, <2>1, <2>2 DEF Name, At
<1>2. Linked' /\ Nested' /\ SameWindow' /\ Selected'
  <2>1. 1..Len(stack') - 1 = {}
    BY <1>1
  <2>2. Linked'
    BY <2>1 DEF Linked
  <2> QED BY <1>f, <2>2, StartLabel DEF Nested, SameWindow, Selected
<1>3. OneCore'
  BY <1>f, Vocabulary DEF OneCore
<1>4. Aimed'
  <2>1. input'.chain \in Inserter => ~Staging'
    BY <1>f, Vocabulary DEF Staging
  <2>2. input'.chain \in Inserter => Aim' = input'.window
    BY <2>1, Vocabulary DEF Aim
  <2> QED BY <1>1, <1>f, <2>2 DEF Aimed
<1>5. Started'
  BY <1>1, <1>f DEF Started
<1>6. RunTypeOK'
  BY <1>1, <1>f DEF Typed, RunTypeOK, FrameSet, Name, At
<1> QED BY <1>1, <1>2, <1>3, <1>4, <1>5, <1>6 DEF Structure

\* A program is resumed with an answer its call may have.
LEMMA ReturnAnswer ==
    ASSUME Structure, Returns
    PROVE  /\ IsProgram(Callee(2)) /\ At(1) \in Answer /\ At(1) \in Reply(Callee(2))
           /\ Callee(2) # "select_route" /\ Waits(2) /\ Resumed(2, At(1))
           /\ UNCHANGED <<input, result, selected, haveText>>
<1>1. stack[1] \in FrameSet
  BY DEF Returns, Structure
<1>2. IsProgram(Callee(2))
  BY <1>1 DEF Returns, IsProgram, FrameSet, Name
<1> QED BY <1>2, NoPrograms DEF Returns, Judged, Reply

\* A frame is resumed with an answer its call may have.
LEMMA TickAnswer ==
    ASSUME NEW a, Ticks(a)
    PROVE  /\ a \in Answer /\ a \in Reply(Callee(1)) /\ Waits(1) /\ Resumed(1, a)
           /\ UNCHANGED <<input, result>> /\ ~IsProgram(Callee(1))
BY DEF Ticks, Reply

\* The last frame ends.
LEMMA EndsStructure ==
    ASSUME Structure, Ends, Typed' PROVE Structure'
<1>1. stack' = <<>> /\ Len(stack') = 0 /\ DOMAIN stack' = {} /\ stack' \in Seq(FrameSet)
  BY EmptySeq DEF Ends
<1>2. result' # "none" /\ UNCHANGED input /\ stack # <<>>
  <2>1. stack # <<>>
    <3>1. 1 \in DOMAIN stack
      BY DEF Ends, Structure
    <3> QED BY <3>1
  <2> QED BY <2>1, StartLabel DEF Ends, Judged
<1>3. Linked'
  <2>1. 1..Len(stack') - 1 = {}
    BY <1>1
  <2> QED BY <2>1 DEF Linked
<1>4. Started'
  BY <1>1, <1>2 DEF Structure, Started
<1>5. Nested' /\ OneCore' /\ SameWindow' /\ Aimed' /\ Selected'
  BY <1>1 DEF Nested, OneCore, SameWindow, Aimed, Selected
<1>6. RunTypeOK'
  BY <1>1 DEF Typed, RunTypeOK
<1> QED BY <1>1, <1>3, <1>4, <1>5, <1>6 DEF Structure

\* Calls keep the structure.
LEMMA InvokesStructure ==
    ASSUME Structure, Invokes, Typed'
    PROVE  Structure' /\ AimKept /\ (Callee(1) # Stager => Aim' = Aim)
<1>1. stack' \in Seq(FrameSet)
  BY DEF Invokes, Pushed, Shifted
<1> QED BY <1>1, PushedStructure, PushedAim DEF Structure

\* Returns keep the structure.
LEMMA ReturnsStructure ==
    ASSUME Structure, Returns, Typed'
    PROVE  Structure' /\ AimKept /\ (Name(2) # Stager => Aim' = Aim)
<1>1. stack' \in Seq(FrameSet)
  BY DEF Returns, Resumed, Shifted
<1> DEFINE k == 2
           a == At(1)
<1>2. /\ a \in Answer /\ a \in Reply(Callee(k)) /\ Callee(k) # "select_route" /\ Waits(k)
      /\ Resumed(k, a) /\ UNCHANGED <<input, result, selected>> /\ (k = 2 => At(1) \in Answer)
  BY ReturnAnswer
<1> HIDE DEF k, a
<1>3. Structure' /\ AimKept /\ (Name(k) # Stager => Aim' = Aim)
  BY <1>1, <1>2, ResumedStructure, ResumedAim DEF Structure
<1> QED BY <1>3 DEF k

\* Answers keep the structure.
LEMMA TicksStructure ==
    ASSUME Structure, NEW a, Ticks(a), Typed'
    PROVE  /\ Structure' /\ AimKept
           /\ Name(1) # Stager /\ Callee(1) # "select_route" => Aim' = Aim
<1>1. stack' \in Seq(FrameSet)
  BY DEF Ticks, Resumed, Shifted
<1> DEFINE k == 1
<1>2. /\ a \in Answer /\ a \in Reply(Callee(k)) /\ Waits(k)
      /\ Resumed(k, a) /\ UNCHANGED <<input, result>> /\ (k = 2 => At(1) \in Answer)
      /\ IF Callee(k) = "select_route" THEN selected' # "none" ELSE UNCHANGED selected
  BY TickAnswer DEF Ticks
<1> HIDE DEF k
<1>3. /\ Structure' /\ AimKept
      /\ Name(k) # Stager /\ Callee(k) # "select_route" => Aim' = Aim
  BY <1>1, <1>2, ResumedStructure, ResumedAim DEF Structure
<1> QED BY <1>3 DEF k

\* Every step of a run keeps the structure.
LEMMA StructureStep ==
    ASSUME Structure, RunNext \/ CallFails PROVE Structure'
BY StepIs, StartStructure, EndsStructure, InvokesStructure, ReturnsStructure, TicksStructure
   DEF Kind

-----------------------------------------------------------------------------
\* The steps of the programs, and the frames.

\* What each kind of step does to the frames, and what is known of its program's step.
StepAt(k) == Program[Name(k)][At(k)]

\* A call, as the layers below see it.
LEMMA InvokeView ==
    ASSUME Structure, Invokes
    PROVE  /\ Annotated(Name(1), At(1), StepAt(1)) /\ StepAt(1).call = Callee(1)
           /\ 1 \in DOMAIN stack /\ 1 \in DOMAIN stack' /\ IsProgram(Callee(1))
           /\ Name(1)' = Callee(1) /\ At(1)' = "start"
           /\ stack'[1].it = About(StepAt(1).window)
           /\ \A i \in DOMAIN stack' : i # 1 =>
                 /\ i - 1 \in DOMAIN stack
                 /\ Name(i)' = Name(i - 1) /\ At(i)' = At(i - 1) /\ Callee(i)' = Callee(i - 1)
                 /\ stack'[i].it = stack[i - 1].it
           /\ UNCHANGED <<input, result, selected, haveText, desktop>>
<1> PICK f \in FrameSet : /\ f.name = Callee(1) /\ f.at = "start"
                          /\ f.it = About(Program[Name(1)][At(1)].window)
                          /\ Pushed(f)
  BY DEF Invokes
<1>1. /\ Annotated(Name(1), At(1), StepAt(1)) /\ StepAt(1).call = Callee(1) /\ 1 \in DOMAIN stack
      /\ IsProgram(Callee(1)) /\ UNCHANGED <<input, result, selected, haveText, desktop>>
  BY FrameAnnotated DEF Structure, Invokes, Waits, Callee, StepAt
<1> QED BY <1>1, PushedFrames DEF StepAt

\* A return, as the layers below see it.
LEMMA ReturnView ==
    ASSUME Structure, Returns
    PROVE  /\ Annotated(Name(2), At(2), StepAt(2)) /\ StepAt(2).call = Callee(2)
           /\ IsProgram(Callee(2)) /\ Callee(2) = Name(1)
           /\ At(1) \in Reply(Callee(2)) /\ Callee(2) # "select_route"
           /\ 1 \in DOMAIN stack /\ 2 \in DOMAIN stack /\ 1 \in DOMAIN stack'
           /\ Name(1)' = Name(2) /\ stack'[1].it = stack[2].it
           /\ At(1)' = StepAt(2).next[At(1)]
           /\ \A i \in DOMAIN stack' : i # 1 =>
                 /\ i + 1 \in DOMAIN stack /\ i + 1 # 1
                 /\ Name(i)' = Name(i + 1) /\ At(i)' = At(i + 1) /\ Callee(i)' = Callee(i + 1)
                 /\ stack'[i].it = stack[i + 1].it
           /\ Judged /\ UNCHANGED result
<1>1. /\ Annotated(Name(2), At(2), StepAt(2)) /\ StepAt(2).call = Callee(2) /\ 2 \in DOMAIN stack
      /\ At(1) \in Reply(Callee(2)) /\ Resumed(2, At(1)) /\ Callee(2) # "select_route"
      /\ IsProgram(Callee(2)) /\ Callee(2) = Name(1) /\ 1 \in DOMAIN stack /\ Judged
      /\ UNCHANGED result
  BY FrameAnnotated, ReturnAnswer DEF Structure, Waits, Callee, StepAt, Returns
<1>2. \A i \in Nat \ {0} : i + 2 - 1 = i + 1 /\ i + 1 # 1
  OBVIOUS
<1>3. DOMAIN stack' \subseteq Nat \ {0} /\ 1 + 2 - 1 = 2
  BY <1>1 DEF Resumed, Shifted
<1>f. /\ 1 \in DOMAIN stack' /\ At(1)' = Program[Name(2)][At(2)].next[At(1)]
      /\ \A i \in DOMAIN stack' :
            /\ i + 2 - 1 \in DOMAIN stack
            /\ Name(i)' = Name(i + 2 - 1) /\ stack'[i].it = stack[i + 2 - 1].it
            /\ i # 1 => At(i)' = At(i + 2 - 1) /\ Callee(i)' = Callee(i + 2 - 1)
  BY <1>1, ResumedFrames
<1>4. ASSUME NEW i \in DOMAIN stack'
      PROVE  /\ i + 1 \in DOMAIN stack /\ i + 1 # 1
             /\ Name(i)' = Name(i + 1) /\ stack'[i].it = stack[i + 1].it
             /\ i # 1 => At(i)' = At(i + 1) /\ Callee(i)' = Callee(i + 1)
  <2>1. i + 2 - 1 = i + 1 /\ i + 1 # 1
    BY <1>2, <1>3
  <2> QED BY <1>f, <2>1
<1>5. Name(1)' = Name(2) /\ stack'[1].it = stack[2].it
  <2>1. 1 + 1 = 2
    OBVIOUS
  <2> QED BY <1>f, <1>4, <2>1
<1> QED BY <1>1, <1>f, <1>4, <1>5 DEF StepAt

\* An answer, as the layers below see it.
LEMMA TickView ==
    ASSUME Structure, NEW a, Ticks(a)
    PROVE  /\ Annotated(Name(1), At(1), StepAt(1)) /\ StepAt(1).call = Callee(1)
           /\ ~IsProgram(Callee(1)) /\ a \in Reply(Callee(1)) /\ Waits(1)
           /\ 1 \in DOMAIN stack /\ 1 \in DOMAIN stack'
           /\ At(1)' = StepAt(1).next[a]
           /\ \A i \in DOMAIN stack' :
                 /\ i \in DOMAIN stack /\ Name(i)' = Name(i) /\ stack'[i].it = stack[i].it
                 /\ i # 1 => At(i)' = At(i) /\ Callee(i)' = Callee(i)
           /\ UNCHANGED <<input, result, doubted>>
<1>1. /\ Annotated(Name(1), At(1), StepAt(1)) /\ StepAt(1).call = Callee(1) /\ 1 \in DOMAIN stack
      /\ a \in Reply(Callee(1)) /\ Waits(1) /\ ~IsProgram(Callee(1)) /\ Resumed(1, a)
      /\ UNCHANGED <<input, result, doubted>>
  BY FrameAnnotated, TickAnswer DEF Structure, Waits, Callee, StepAt, Ticks
<1>2. \A i \in Nat : i + 1 - 1 = i
  OBVIOUS
<1>3. DOMAIN stack' \subseteq Nat
  BY <1>1 DEF Resumed, Shifted
<1>f. /\ 1 \in DOMAIN stack' /\ At(1)' = Program[Name(1)][At(1)].next[a]
      /\ \A i \in DOMAIN stack' :
            /\ i + 1 - 1 \in DOMAIN stack
            /\ Name(i)' = Name(i + 1 - 1) /\ stack'[i].it = stack[i + 1 - 1].it
            /\ i # 1 => At(i)' = At(i + 1 - 1) /\ Callee(i)' = Callee(i + 1 - 1)
  BY <1>1, ResumedFrames
<1>4. ASSUME NEW i \in DOMAIN stack'
      PROVE  /\ i \in DOMAIN stack /\ Name(i)' = Name(i) /\ stack'[i].it = stack[i].it
             /\ i # 1 => At(i)' = At(i) /\ Callee(i)' = Callee(i)
  <2>1. i + 1 - 1 = i
    BY <1>2, <1>3
  <2> QED BY <1>f, <2>1
<1> QED BY <1>1, <1>f, <1>4 DEF StepAt

-----------------------------------------------------------------------------
\* Windows in front.

\* The table of windows in front is about programs of one window.
LEMMA FrontFacts ==
    \A name, label : FrontAt(name, label) => name \in Inner /\ label # "thrown"
<1> SUFFICES ASSUME NEW name, NEW label, FrontAt(name, label)
             PROVE  name \in Inner /\ label # "thrown"
  OBVIOUS
<1>1. label # "thrown"
  BY DEF FrontAt, Answered
<1>2. name \in {"app_switch", "app_launch", "click_label", "type_label", "type", "shell_launch",
                "focus_window", "open_or_focus", "paste", "press_enter",
                "file_send_to_chat_window", "open_named", "explorer_select", "explorer_tree"}
                \cup Transfer
  BY DEF FrontAt
<1> QED BY <1>1, <1>2, Names
        DEF Transfer, Inner, AllNames, CapNames, ToolNames, Outer, Routed, Staged

\* Primitive calls are no programs.
LEMMA FocusingNoProgram == \A call \in Focusing \cup Inserting \cup Entering : ~IsProgram(call)
BY NoPrograms DEF Focusing, Inserting, Entering, ServerCalls

\* All frames up to one about its own window are about that window.
LEMMA SameAsTop ==
    ASSUME Structure, NEW i \in DOMAIN stack, Name(i) \in Inner
    PROVE  Name(1) \in Inner /\ stack[1].it = stack[i].it /\ 1 \in DOMAIN stack
<1>1. 1 \in DOMAIN stack /\ 1 <= i
  BY DEF Structure
<1> QED BY <1>1 DEF Structure, SameWindow

\* Calls keep the window in front.
LEMMA InvokesFront ==
    ASSUME Structure, InFront, Invokes PROVE InFront'
<1> SUFFICES ASSUME NEW i \in DOMAIN stack', FrontAt(Name(i)', At(i)')
             PROVE  front = stack'[i].it
  BY InvokeView DEF InFront, desktop
<1>1. CASE i = 1
  <2>1. FrontAt(Name(1), At(1)) /\ Name(1) \in Inner
    BY <1>1, InvokeView, FrontFacts DEF Annotated, FrontKept
  <2>2. StepAt(1).window = "it"
    BY <2>1, InvokeView DEF Annotated, WellNested
  <2> QED BY <1>1, <2>1, <2>2, InvokeView DEF InFront, About
<1>2. CASE i # 1
  BY <1>2, InvokeView DEF InFront
<1> QED BY <1>1, <1>2

\* Returns keep the window in front.
LEMMA ReturnsFront ==
    ASSUME Structure, InFront, Returns PROVE InFront'
<1> SUFFICES ASSUME NEW i \in DOMAIN stack', FrontAt(Name(i)', At(i)')
             PROVE  front = stack'[i].it
  BY ReturnView DEF InFront, Judged
<1>1. CASE i = 1
  <2>1. FrontAt(Name(2), StepAt(2).next[At(1)]) /\ Name(2) \in Inner
    BY <1>1, ReturnView, FrontFacts
  <2>2. stack[1].it = stack[2].it
    BY <2>1, ReturnView, SameAsTop
  <2>3. FrontAt(Name(2), At(2)) \/ FrontAt(Name(1), At(1))
    BY <2>1, ReturnView, FocusingNoProgram DEF Annotated, FrontKept
  <2> QED BY <1>1, <2>2, <2>3, ReturnView DEF InFront
<1>2. CASE i # 1
  BY <1>2, ReturnView DEF InFront
<1> QED BY <1>1, <1>2

\* Answers keep the window in front, or have brought it there.
LEMMA TicksFront ==
    ASSUME Structure, InFront, NEW a, Ticks(a), Touches(a) PROVE InFront'
<1> SUFFICES ASSUME NEW i \in DOMAIN stack', FrontAt(Name(i)', At(i)')
             PROVE  front' = stack'[i].it
  BY DEF InFront
<1>1. i \in DOMAIN stack /\ stack[1].it = stack[i].it
  BY TickView, FrontFacts, SameAsTop
<1>2. ASSUME FrontAt(Name(i), At(i)) PROVE front' = stack'[i].it
  BY <1>1, <1>2, TickView DEF InFront, Touches
<1>3. CASE i = 1
  <2>1. FrontAt(Name(1), StepAt(1).next[a])
    BY <1>3, TickView
  <2>2. FrontAt(Name(1), At(1)) \/ (Callee(1) \in Focusing /\ a \in Answered)
    BY <2>1, TickView DEF Annotated, FrontKept
  <2> QED BY <1>2, <1>3, <2>2, TickView DEF Touches
<1>4. CASE i # 1
  BY <1>2, <1>4, TickView
<1> QED BY <1>3, <1>4

-----------------------------------------------------------------------------
\* Where text and Enter go.

\* Which programs the tables are about.
LEMMA TableFacts ==
    /\ \A name, label : CleanAt(name, label) => name \in Outer
    /\ \A name, label : MayEnterAt(name, label) => name \in Inner
    /\ \A name, label : FreshAt(name, label) =>
          name \in Inserter \/ (name = Stager /\ label = "deliver") \/ RoutedAt(name, label)
    /\ \A name, label : FreshEnterAt(name, label) => name \in Inserter
<1>1. \A name, label : CleanAt(name, label) => name \in Outer
  BY DEF CleanAt, Outer, Routed
<1>2. \A name, label : MayEnterAt(name, label) => name \in Inner
  <2> SUFFICES ASSUME NEW name \in Transfer \cup {"press_enter", "file_send_to_chat_window"}
               PROVE  name \in Inner
    BY DEF MayEnterAt
  <2> QED BY Names DEF Transfer, Inner, AllNames, CapNames, ToolNames, Outer, Routed, Staged
<1>3. \A name, label : FreshAt(name, label) =>
          name \in Inserter \/ (name = Stager /\ label = "deliver") \/ RoutedAt(name, label)
  BY DEF FreshAt, Inserter
<1>4. \A name, label : FreshEnterAt(name, label) => name \in Inserter
  BY DEF FreshEnterAt, Inserter
<1> QED BY <1>1, <1>2, <1>3, <1>4

\* A transfer that submits is about its own window.
LEMMA VocabularyInner == {"transfer_and_submit"} \subseteq Inner
BY Names DEF Inner, AllNames, CapNames, Outer, Routed, Staged

\* What is put in goes where the run aims.
LEMMA WhereIsAim ==
    ASSUME Structure, InFront, Waits(1), Callee(1) \in Inserting \cup Entering
    PROVE  /\ Name(1) \in Inserter /\ Name(1) \notin FromFile /\ 1 \in DOMAIN stack
           /\ Where = Aim /\ stack[1].it = Aim /\ Aim \in Window /\ Aim \in Place
<1> DEFINE s == Program[Name(1)][At(1)]
<1>1. Annotated(Name(1), At(1), s) /\ s.call = Callee(1) /\ 1 \in DOMAIN stack
  BY FrameAnnotated DEF Structure, Waits, Callee
<1> HIDE DEF s
<1>2. Name(1) \in Inserter /\ Name(1) \notin FromFile
  BY <1>1 DEF Annotated, FrontKept
<1>3. stack[1].it = Aim
  BY <1>1, <1>2 DEF Structure, Aimed
<1>4. Callee(1) \notin {"Type", "TypeOver"} => front = stack[1].it
  <2>1. Callee(1) \notin {"Type", "TypeOver"} => Callee(1) \in {"Paste", "Enter", "open_file"}
    BY DEF Inserting, Entering
  <2> QED BY <1>1, <2>1 DEF Annotated, FrontKept, InFront
<1>5. stack[1] \in FrameSet
  BY <1>1 DEF Structure
<1> QED BY <1>1, <1>2, <1>3, <1>4, <1>5 DEF Where, FrameSet, Place

\* While a program that puts in text runs, no assertion that it could break is made below it.
LEMMA Unsettled ==
    ASSUME Structure, 1 \in DOMAIN stack, Name(1) \in Writing, NEW i \in DOMAIN stack, i # 1
    PROVE  ~Settled(i)
<1>1. Len(stack) \in Nat /\ DOMAIN stack = 1..Len(stack)
  BY DEF Structure
<1>2. i - 1 \in 1..Len(stack) - 1 /\ i - 1 \in DOMAIN stack /\ 1 <= i - 1 /\ (i - 1) + 1 = i
  BY <1>1
<1>3. Callee(i) = Name(i - 1)
  BY <1>2 DEF Structure, Linked
<1>4. Name(i - 1) \in Writing
  BY <1>2 DEF Structure, Nested, CalledFromWithin
<1> QED BY <1>3, <1>4 DEF Settled

\* Calls leave untouched what is untouched.
LEMMA InvokesClean ==
    ASSUME Structure, CleanBefore, Invokes PROVE CleanBefore'
<1> SUFFICES ASSUME NEW i \in DOMAIN stack', Settled(i)', CleanAt(Name(i)', At(i)')
             PROVE  Clean
  BY InvokeView DEF CleanBefore, desktop, Clean, Untouched
<1>1. CASE i = 1
  BY <1>1, InvokeView DEF Annotated, CleanKept, CleanBefore, Settled
<1>2. CASE i # 1
  BY <1>2, InvokeView DEF CleanBefore, Settled
<1> QED BY <1>1, <1>2

\* Returns leave untouched what is untouched.
LEMMA ReturnsClean ==
    ASSUME Structure, CleanBefore, Returns PROVE CleanBefore'
<1> SUFFICES ASSUME NEW i \in DOMAIN stack', Settled(i)', CleanAt(Name(i)', At(i)')
             PROVE  Clean
  BY ReturnView DEF CleanBefore, Judged, Clean, Untouched
<1>1. CASE i = 1
  <2>1. CleanAt(Name(2), StepAt(2).next[At(1)])
    BY <1>1, ReturnView
  <2> QED BY <2>1, ReturnView DEF Annotated, CleanKept, CleanBefore, Settled
<1>2. CASE i # 1
  BY <1>2, ReturnView DEF CleanBefore, Settled
<1> QED BY <1>1, <1>2

\* An answer is no writing of a frame that asserts nothing is written.
LEMMA TicksClean ==
    ASSUME Structure, InFront, CleanBefore, NEW a, Ticks(a), Touches(a)
    PROVE  CleanBefore'
<1>1. Callee(1) \notin Inserting \cup Entering => Clean' = Clean
  BY DEF Touches, Clean, Untouched
<1>2. Callee(1) \in Inserting \cup Entering => Name(1) \in Inserter
  BY TickView, WhereIsAim
<1> SUFFICES ASSUME NEW i \in DOMAIN stack', Settled(i)', CleanAt(Name(i)', At(i)')
             PROVE  Clean'
  BY DEF CleanBefore
<1>3. CASE i = 1
  <2>1. CleanAt(Name(1), At(1)) /\ Name(1) \in Outer
    BY <1>3, TickView, TableFacts DEF Annotated, CleanKept
  <2> QED BY <1>1, <1>2, <2>1, TickView, Vocabulary DEF CleanBefore, Settled
<1>4. CASE i # 1
  <2>1. Settled(i) /\ i \in DOMAIN stack
    BY <1>4, TickView DEF Settled
  <2>2. Name(1) \notin Writing
    BY <1>4, <2>1, TickView, Unsettled
  <2> QED BY <1>1, <1>2, <1>4, <2>1, <2>2, TickView, Vocabulary DEF CleanBefore
<1> QED BY <1>3, <1>4

\* The run aims at its destinations.
LEMMA AimIsDestination ==
    ASSUME Structure, stack # <<>> PROVE Aim \in Destinations
<1>1. ASSUME Staging PROVE input.chain \in Staged
  BY <1>1, Bottom, Vocabulary DEF Staging, CalledFromWithin
<1> QED BY <1>1 DEF Aim, Destinations, Target

\* Text goes only to the destinations.
LEMMA TicksTargets ==
    ASSUME Structure, InFront, CleanBefore, OnlyTargetsWritten, NEW a, Ticks(a), Touches(a)
    PROVE  OnlyTargetsWritten'
<1> SUFFICES ASSUME NEW w \in Place, copies'[w] + enters'[w] > 0
             PROVE  w \in Destinations'
  BY DEF OnlyTargetsWritten
<1>1. Callee(1) # "select_route" => Destinations' = Destinations
  BY TickView DEF Ticks, Destinations, Target
<1>2. CASE copies'[w] = copies[w] /\ enters'[w] = enters[w]
  <2>1. CASE Callee(1) = "select_route"
    <3>1. Clean
      BY <2>1, TickView DEF Annotated, RouteKept, CleanBefore, Settled
    <3> QED BY <1>2, <3>1 DEF Clean, Untouched
  <2>2. CASE Callee(1) # "select_route"
    BY <1>1, <1>2, <2>2 DEF OnlyTargetsWritten
  <2> QED BY <2>1, <2>2
<1>3. CASE ~(copies'[w] = copies[w] /\ enters'[w] = enters[w])
  <2>1. w = Where /\ Callee(1) \in Inserting \cup Entering
    BY <1>3 DEF Touches
  <2>2. w = Aim /\ stack # <<>>
    BY <2>1, TickView, WhereIsAim
  <2>3. Callee(1) # "select_route"
    BY <2>1 DEF Inserting, Entering
  <2> QED BY <1>1, <2>2, <2>3, AimIsDestination
<1> QED BY <1>2, <1>3

\* The steps that change nothing on the desktop but what is known of it.
LEMMA OthersTargets ==
    ASSUME OnlyTargetsWritten, UNCHANGED <<input, selected, copies, enters>>
    PROVE  OnlyTargetsWritten'
BY DEF OnlyTargetsWritten, Destinations, Target

-----------------------------------------------------------------------------
\* Enter.

\* The pressEnter a transfer was given is one the task, or its chain, asks for.
LEMMA GivenMayEnter ==
    ASSUME Structure, PressEnterGiven, Name(1) \in Inner, 1 \in DOMAIN stack
    PROVE  MayEnter(stack[1].it)
<1>1. PICK i \in DOMAIN stack :
        \/ input.enter
        \/ stack[i].name = "transfer_and_submit" /\ stack[i].it = "chat"
  BY DEF PressEnterGiven
<1>2. CASE input.enter
  BY <1>2 DEF MayEnter
<1>3. CASE Name(i) = "transfer_and_submit" /\ stack[i].it = "chat"
  <2>1. input.chain \in Submitter
    BY <1>3, Bottom DEF CalledFromWithin, Submitter
  <2>2. input.chain \in Submitting
    <3>1. input.chain \in Chain
      <4>1. stack # <<>>
        OBVIOUS
      <4> QED BY <4>1 DEF Structure, Started
    <3>2. input.chain # "transfer_and_submit"
      BY <3>1, CapabilityAssumption DEF Registered, Part
    <3> QED BY <2>1, <3>2 DEF Submitter
  <2>3. Name(i) \in Inner
    BY <1>3, VocabularyInner
  <2> QED BY <1>3, <2>2, <2>3, SameAsTop DEF MayEnter
<1> QED BY <1>1, <1>2, <1>3 DEF Name

\* Calls pass on only the leave to press Enter there is.
LEMMA InvokesAsked ==
    ASSUME Structure, Asked, Invokes PROVE Asked'
<1> SUFFICES ASSUME NEW i \in DOMAIN stack', MayEnterAt(Name(i)', At(i)')
             PROVE  MayEnter(stack'[i].it)
  BY InvokeView DEF Asked, MayEnter
<1>1. CASE i = 1
  <2>1. MayEnterAt(Name(1), At(1)) /\ Name(1) \in Inner
    BY <1>1, InvokeView, TableFacts DEF Annotated, EnterKept
  <2>2. StepAt(1).window = "it"
    BY <2>1, InvokeView DEF Annotated, WellNested
  <2> QED BY <1>1, <2>1, <2>2, InvokeView DEF Asked, About
<1>2. CASE i # 1
  BY <1>2, InvokeView DEF Asked
<1> QED BY <1>1, <1>2

\* Returns give no leave to press Enter.
LEMMA ReturnsAsked ==
    ASSUME Structure, Asked, Returns PROVE Asked'
<1> SUFFICES ASSUME NEW i \in DOMAIN stack', MayEnterAt(Name(i)', At(i)')
             PROVE  MayEnter(stack'[i].it)
  BY ReturnView DEF Asked, MayEnter, Judged
<1>1. CASE i = 1
  <2>1. MayEnterAt(Name(2), StepAt(2).next[At(1)])
    BY <1>1, ReturnView
  <2>2. Callee(2) \notin {"submits", "asked_to_send"}
    BY ReturnView, NoPrograms
  <2>3. MayEnterAt(Name(2), At(2))
    BY <2>1, <2>2, ReturnView DEF Annotated, EnterKept
  <2> QED BY <1>1, <2>3, ReturnView DEF Asked
<1>2. CASE i # 1
  BY <1>2, ReturnView DEF Asked
<1> QED BY <1>1, <1>2

\* The answers that give it are those of who was asked.
LEMMA TicksAsked ==
    ASSUME Structure, Asked, NEW a, Ticks(a) PROVE Asked'
<1> SUFFICES ASSUME NEW i \in DOMAIN stack', MayEnterAt(Name(i)', At(i)')
             PROVE  MayEnter(stack'[i].it)
  BY TickView DEF Asked, MayEnter
<1>1. CASE i = 1
  <2>1. MayEnterAt(Name(1), StepAt(1).next[a]) /\ stack'[1].it = stack[1].it
    BY <1>1, TickView
  <2>2. CASE MayEnterAt(Name(1), At(1))
    BY <1>1, <2>1, <2>2, TickView DEF Asked
  <2>3. CASE Callee(1) = "asked_to_send" /\ a = "yes"
    BY <2>3 DEF Ticks, MayEnter
  <2>4. CASE Callee(1) = "submits" /\ a = "yes"
    <3>1. Name(1) \in Inner
      BY <2>4, TickView DEF Annotated, EnterKept
    <3>2. stack[1].it = "browser" \/ PressEnterGiven
      BY <2>4 DEF Ticks
    <3> QED BY <1>1, <2>1, <3>1, <3>2, TickView, GivenMayEnter DEF MayEnter
  <2> QED BY <2>1, <2>2, <2>3, <2>4, TickView DEF Annotated, EnterKept
<1>2. CASE i # 1
  BY <1>2, TickView DEF Asked
<1> QED BY <1>1, <1>2

\* Enter is pressed only where it was asked for.
LEMMA TicksEnter ==
    ASSUME Structure, InFront, Asked, EnterOnlyWhenAsked, NEW a, Ticks(a), Touches(a)
    PROVE  EnterOnlyWhenAsked'
<1> SUFFICES ASSUME NEW w \in Place, enters'[w] > 0
             PROVE  MayEnter(w)
  BY TickView DEF EnterOnlyWhenAsked, MayEnter
<1>1. CASE enters'[w] = enters[w]
  BY <1>1 DEF EnterOnlyWhenAsked, MayEnter
<1>2. CASE enters'[w] # enters[w]
  <2>1. w = Where /\ Callee(1) \in Entering /\ enters' # enters
    BY <1>2 DEF Touches
  <2>2. w = stack[1].it
    BY <2>1, TickView, WhereIsAim
  <2>3. CASE Callee(1) = "Enter"
    BY <2>2, <2>3, TickView DEF Annotated, EnterKept, Asked
  <2>4. CASE Callee(1) = "TypeOver"
    <3>1. PressEnterGiven
      BY <2>1, <2>4 DEF Touches
    <3>2. Name(1) \in Inner
      BY <2>4, TickView DEF Annotated, EnterKept
    <3> QED BY <2>2, <3>1, <3>2, TickView, GivenMayEnter
  <2> QED BY <2>1, <2>3, <2>4 DEF Entering
<1> QED BY <1>1, <1>2

\* Steps that press nothing.
LEMMA OthersEnter ==
    ASSUME EnterOnlyWhenAsked, UNCHANGED <<input, enters>> PROVE EnterOnlyWhenAsked'
BY DEF EnterOnlyWhenAsked

\* What the delivering programs are.
LEMMA DelivererFacts ==
    /\ Deliverer \cup {"observe"} \cup Typing \subseteq DOMAIN Program
    /\ Delivering \subseteq Deliverer /\ {"editor"} \cup {"browser", "chat"} \subseteq Window
    /\ Router \cap Inserter = {} /\ Stager \notin FromFile
<1>1. Deliverer \cup {"observe"} \cup Typing \subseteq DOMAIN Program
  BY Names DEF AllNames, CapNames, ToolNames, Deliverer, Typing, Transfer, Outer, Routed,
     Staged,
     FromFile, Submitting
<1>2. Delivering \subseteq Deliverer
  BY DEF Delivering, Deliverer, Outer, Transfer
<1> QED BY <1>1, <1>2 DEF Window, Router, Inserter, Transfer, Stager, FromFile

\* No program has put in its text, or read its file, when it starts.
LEMMA StartsEmpty ==
    \A name \in DOMAIN Program : ~DeliveredAt(name, "start") /\ ~HaveTextAt(name, "start")
BY Annotations DEF ProgramsAnnotated, WellFormed, Annotated, DeliveryKept, TextKept

-----------------------------------------------------------------------------
\* The staging program.

\* It stages into the editor, and then delivers to the target.
LEMMA StagerStep ==
    ASSUME Structure, NEW k \in DOMAIN stack, Waits(k), Name(k) = Stager
    PROVE  /\ At(k) \in {"start", "deliver"} /\ Callee(k) \in Deliverer \ Staged
           /\ IsProgram(Callee(k))
           /\ \A a \in Reply(Callee(k)) :
                 /\ StepAt(k).next[a] # "start"
                 /\ StepAt(k).next[a] = "deliver" => At(k) = "start" /\ a = "yes"
<1>1. Annotated(Name(k), At(k), StepAt(k)) /\ StepAt(k).call = Callee(k)
  BY FrameAnnotated DEF Structure, Waits, Callee, StepAt
<1>2. DeliveryKept(Name(k), At(k), StepAt(k)) /\ WellNested(Name(k), At(k), StepAt(k))
  BY <1>1 DEF Annotated
<1>3. Callee(k) \in Deliverer \ Staged
  BY <1>1, <1>2 DEF DeliveryKept
<1>4. At(k) \in {"start", "deliver"} /\ \A a \in Reply(Callee(k)) : StepAt(k).next[a] # "start"
  BY <1>1, <1>2 DEF WellNested
<1>5. \A a \in Reply(Callee(k)) : StepAt(k).next[a] = "deliver" => At(k) = "start" /\ a = "yes"
  BY <1>1, <1>2 DEF DeliveryKept
<1> QED BY <1>3, <1>4, <1>5, DelivererFacts DEF IsProgram

\* While it runs the chain is a staged one, and text is put into the editor or the target.
StagerAims ==
    \A i \in DOMAIN stack : Name(i) = Stager =>
        /\ input.chain \in Staged /\ input.chain \notin Routed /\ input.text
        /\ input.window \in Window /\ input.window # "editor"
        /\ Aim = IF At(i) = "start" THEN "editor" ELSE input.window

\* It follows from the structure.
LEMMA StagerAim == Structure => StagerAims
<1> SUFFICES ASSUME Structure, NEW i \in DOMAIN stack, Name(i) = Stager
             PROVE  /\ input.chain \in Staged /\ input.chain \notin Routed /\ input.text
                    /\ input.window \in Window /\ input.window # "editor"
                    /\ Aim = IF At(i) = "start" THEN "editor" ELSE input.window
  BY DEF StagerAims
<1>1. input.chain \in Staged /\ input.chain \notin Routed
  BY Bottom, Vocabulary DEF CalledFromWithin
<1>2. input.chain \in Chain
  <2>1. stack # <<>>
    OBVIOUS
  <2> QED BY <2>1 DEF Structure, Started
<1>3. input.window \in {"browser", "chat"}
  BY <1>1, <1>2 DEF Structure, Started, Named
<1>4. input.text
  <2>1. input.chain \notin {"act_verify", "multi_window_route_execute"}
    BY <1>1 DEF Staged, Routed
  <2> QED BY <1>2, <2>1 DEF Structure, Started
<1>5. Staging <=> At(i) = "start"
  <2>1. ASSUME NEW j \in DOMAIN stack, Name(j) = Stager PROVE j = i
    <3>1. i < j \/ j < i \/ j = i
      BY DEF Structure
    <3> QED BY <2>1, <3>1, Vocabulary DEF Structure, OneCore
  <2> QED BY <2>1 DEF Staging
<1> QED BY <1>1, <1>3, <1>4, <1>5 DEF Aim, Window

\* Where a table speaks of the window text is put into, there is one.
AimsThere ==
    \A i \in DOMAIN stack :
        FreshAt(Name(i), At(i)) \/ FreshEnterAt(Name(i), At(i)) => Aim \in Place

\* It follows from the structure.
LEMMA AimThere == Structure => AimsThere
<1> SUFFICES ASSUME Structure, NEW i \in DOMAIN stack,
                    FreshAt(Name(i), At(i)) \/ FreshEnterAt(Name(i), At(i))
             PROVE  Aim \in Place
  BY DEF AimsThere
<1>1. stack[i] \in FrameSet
  BY DEF Structure
<1>2. CASE Name(i) \in Inserter
  <2>1. stack[i].it = Aim
    BY <1>2 DEF Structure, Aimed
  <2> QED BY <1>1, <2>1 DEF FrameSet, Place
<1>3. CASE Name(i) = Stager /\ At(i) = "deliver"
  BY <1>3, StagerAim DEF StagerAims, Place, Window
<1>4. CASE RoutedAt(Name(i), At(i))
  <2>1. selected # "none" /\ Name(i) \in Routed
    BY <1>4, Vocabulary DEF RoutedAt, Structure, Selected
  <2>2. input.chain \in Routed
    BY <2>1, Bottom DEF CalledFromWithin
  <2> QED BY <2>1, <2>2 DEF Aim, Structure, RunTypeOK, Place, Window
<1> QED BY <1>2, <1>3, <1>4, TableFacts

\* The same after a step.
LEMMA NextAims == Structure' => StagerAims' /\ AimsThere'
BY StagerAim, AimThere, PTL

\* It waits for a program: no other call is its own.
LEMMA TickNoStager ==
    ASSUME Structure, NEW a, Ticks(a) PROVE Name(1) # Stager
BY TickView, StagerStep

\* The frames below the first one that writes.
LEMMA UnsettledBelow ==
    ASSUME Structure, NEW k \in DOMAIN stack, Name(k) \in Writing, NEW i \in DOMAIN stack, k < i
    PROVE  ~Settled(i)
<1>1. Len(stack) \in Nat /\ DOMAIN stack = 1..Len(stack)
  BY DEF Structure
<1>2. /\ i - 1 \in 1..Len(stack) - 1 /\ i - 1 \in DOMAIN stack /\ k <= i - 1 /\ (i - 1) + 1 = i
      /\ i # 1
  BY <1>1
<1>3. Callee(i) = Name(i - 1)
  BY <1>2 DEF Structure, Linked
<1>4. Name(i - 1) \in Writing
  BY <1>2 DEF Structure, Nested, CalledFromWithin
<1> QED BY <1>2, <1>3, <1>4 DEF Settled

-----------------------------------------------------------------------------
\* Fresh windows.

\* An untouched window is fresh.
LEMMA CleanIsFresh ==
    ASSUME Clean, NEW w \in Place PROVE Fresh(w) /\ FreshEnter(w)
BY DEF Clean, Untouched, Fresh, FreshEnter

\* A settled frame after a step was settled before it.
LEMMA SettledBefore ==
    ASSUME NEW i, i # 1, NEW j, Callee(i)' = Callee(j), Settled(i)' PROVE Settled(j)
BY DEF Settled

\* No table of fresh windows is about the staging program when it starts.
LEMMA StagerTables ==
    /\ \A label : FreshAt(Stager, label) => label = "deliver"
    /\ \A label : ~FreshEnterAt(Stager, label)
    /\ \A label : CleanAt(Stager, label) => label = "start"
BY TableFacts, Vocabulary
   DEF Stager, RoutedAt, Router, CleanAt, FreshAt, FreshEnterAt, Transfer

\* Calls keep windows fresh.
LEMMA InvokesFresh ==
    ASSUME Structure, Structure', CleanBefore, FreshBefore, Invokes, Typed' PROVE FreshBefore'
<1> SUFFICES ASSUME NEW i \in DOMAIN stack', Settled(i)',
                    FreshAt(Name(i)', At(i)') \/ FreshEnterAt(Name(i)', At(i)')
             PROVE  /\ FreshAt(Name(i)', At(i)') => Fresh(Aim')
                    /\ FreshEnterAt(Name(i)', At(i)') => FreshEnter(Aim')
  BY InvokeView DEF FreshBefore, desktop, Fresh, FreshEnter
<1>1. Aim' \in Place
  BY NextAims DEF AimsThere
<1>2. CASE Callee(1) # Stager
  <2>1. Aim' = Aim
    BY <1>2, InvokesStructure
  <2>2. CASE i = 1
    <3>1. FreshAt(Callee(1), "start") \/ FreshEnterAt(Callee(1), "start")
      BY <2>2, InvokeView
    <3>2. CASE CleanAt(Name(1), At(1))
      <4>1. Clean
        BY <3>2, InvokeView DEF CleanBefore, Settled
      <4> QED BY <1>1, <4>1, CleanIsFresh
    <3>3. CASE ~CleanAt(Name(1), At(1))
      <4>1. /\ FreshAt(Callee(1), "start") => FreshAt(Name(1), At(1))
            /\ FreshEnterAt(Callee(1), "start") =>
                  FreshAt(Name(1), At(1)) \/ FreshEnterAt(Name(1), At(1))
        BY <3>3, InvokeView DEF Annotated, FreshKept
      <4>2. /\ FreshAt(Name(1), At(1)) => Fresh(Aim)
            /\ FreshEnterAt(Name(1), At(1)) => FreshEnter(Aim)
        BY InvokeView DEF FreshBefore, Settled
      <4> QED BY <2>1, <2>2, <4>1, <4>2, InvokeView DEF Fresh
    <3> QED BY <3>2, <3>3
  <2>3. CASE i # 1
    BY <2>1, <2>3, InvokeView, SettledBefore DEF FreshBefore
  <2> QED BY <2>2, <2>3
<1>3. CASE Callee(1) = Stager
  <2>1. Name(1)' = Stager /\ At(1)' = "start" /\ Stager \in Writing /\ 1 \in DOMAIN stack'
    BY <1>3, InvokeView, Vocabulary DEF Writing
  <2>2. i # 1
    BY <2>1, StagerTables
  <2>3. i - 1 \in DOMAIN stack /\ Callee(i)' = Callee(i - 1)
    BY <2>2, InvokeView
  <2>4. Name(1) \in Writing
    BY <1>3, InvokeView, Vocabulary DEF Annotated, WellNested, CalledFromWithin, Writing
  <2>5. Settled(i - 1)
    BY <2>2, <2>3, SettledBefore
  <2>6. CASE i - 1 # 1
    <3>1. 1 < i - 1 /\ 1 \in DOMAIN stack
      BY <2>3, <2>6 DEF Structure
    <3> QED BY <2>3, <2>4, <2>5, <3>1, UnsettledBelow
  <2>7. CASE i - 1 = 1
    BY <1>3, <2>1, <2>2, <2>3, <2>7 DEF Settled
  <2> QED BY <2>6, <2>7
<1> QED BY <1>2, <1>3

\* Returns keep windows fresh, and leave the aim in doubt where an insertion failed.
LEMMA ReturnsFresh ==
    ASSUME Structure, Structure', CleanBefore, FreshBefore, Staged1, Returns, Typed'
    PROVE  FreshBefore'
<1>0. /\ copies' = copies /\ enters' = enters /\ input' = input
      /\ doubted \subseteq doubted' /\ (Doubting(Name(1), At(1)) => stack[1].it \in doubted')
  BY ReturnView DEF Judged
<1> SUFFICES ASSUME NEW i \in DOMAIN stack', Settled(i)',
                    FreshAt(Name(i)', At(i)') \/ FreshEnterAt(Name(i)', At(i)')
             PROVE  /\ FreshAt(Name(i)', At(i)') => Fresh(Aim)'
                    /\ FreshEnterAt(Name(i)', At(i)') => FreshEnter(Aim)'
  BY DEF FreshBefore
<1>1. Aim' \in Place
  BY NextAims DEF AimsThere
<1>2. /\ Fresh(Aim') => Fresh(Aim)'
      /\ FreshEnter(Aim') => FreshEnter(Aim)'
  BY <1>0 DEF Fresh, FreshEnter
<1>3. CASE i # 1 /\ Name(2) # Stager
  BY <1>2, <1>3, ReturnsStructure, ReturnView, SettledBefore DEF FreshBefore
<1>4. CASE i # 1 /\ Name(2) = Stager
  <2>1. i + 1 \in DOMAIN stack /\ Settled(i + 1) /\ 2 < i + 1 /\ 2 \in DOMAIN stack
    <3>1. i + 1 \in DOMAIN stack /\ Settled(i + 1) /\ 2 \in DOMAIN stack
      BY <1>4, ReturnView, SettledBefore
    <3>2. i \in Nat /\ i > 0
      BY DEF Structure
    <3> QED BY <1>4, <3>1, <3>2
  <2> QED BY <1>4, <2>1, UnsettledBelow, Vocabulary DEF Writing
<1>5. CASE i = 1 /\ Name(2) = Stager
  <2>1. Name(1)' = Stager /\ At(1)' = "deliver" /\ StepAt(2).next[At(1)] = "deliver"
    BY <1>5, ReturnView, StagerTables
  <2>2. At(2) = "start"
    BY <1>5, <2>1, ReturnView, StagerStep DEF Returns
  <2>3. Untouched(input.window)
    BY <1>5, <2>2, ReturnView DEF Staged1
  <2>4. Aim' = input.window
    BY <1>0, <1>5, <2>1, NextAims, StartLabel DEF StagerAims
  <2> QED BY <1>0, <2>3, <2>4 DEF Untouched, Fresh, FreshEnter
<1>6. CASE i = 1 /\ Name(2) # Stager
  <2>1. Aim' = Aim
    BY <1>6, ReturnsStructure
  <2> DEFINE next == StepAt(2).next[At(1)]
  <2>2. Name(1)' = Name(2) /\ At(1)' = next /\ Callee(2) = Name(1)
    BY ReturnView
  <2>3. /\ FreshAt(Name(1), At(1)) => Fresh(Aim)
        /\ FreshEnterAt(Name(1), At(1)) => FreshEnter(Aim)
    BY ReturnView DEF FreshBefore, Settled
  <2>4. Callee(2) \notin Writing =>
          /\ FreshAt(Name(2), At(2)) => Fresh(Aim)
          /\ FreshEnterAt(Name(2), At(2)) => FreshEnter(Aim)
          /\ CleanAt(Name(2), At(2)) => Clean
    BY ReturnView DEF FreshBefore, CleanBefore, Settled
  <2>5. FreshKept(Name(2), At(2), StepAt(2)) /\ StepAt(2).call = Callee(2)
        /\ At(1) \in Reply(Callee(2))
    BY ReturnView DEF Annotated
  <2>6. ASSUME FreshAt(Name(2), next) PROVE Fresh(Aim)'
    <3>1. \/ FreshAt(Name(2), At(2)) /\ Callee(2) \notin Writing
          \/ CleanAt(Name(2), At(2)) /\ Callee(2) \notin Writing
          \/ FreshAt(Name(1), At(1))
          \/ Doubting(Name(1), At(1)) /\ Name(2) \in Inner \cap Inserter
      BY <1>6, <2>2, <2>5, <2>6 DEF FreshKept
    <3>2. CASE Doubting(Name(1), At(1)) /\ Name(2) \in Inner \cap Inserter
      <4>1. stack[1].it = stack[2].it /\ stack[2].it = Aim
        BY <3>2, ReturnView, SameAsTop DEF Structure, Aimed
      <4> QED BY <1>0, <2>1, <3>2, <4>1 DEF Fresh, FreshEnter
    <3>3. CASE CleanAt(Name(2), At(2)) /\ Callee(2) \notin Writing
      BY <1>1, <1>2, <2>4, <3>3, CleanIsFresh
    <3> QED BY <1>2, <2>1, <2>3, <2>4, <3>1, <3>2, <3>3
  <2>7. ASSUME FreshEnterAt(Name(2), next) PROVE FreshEnter(Aim)'
    <3>1. \/ /\ FreshEnterAt(Name(2), At(2)) \/ FreshAt(Name(2), At(2))
             /\ Callee(2) \notin Writing
          \/ FreshEnterAt(Name(1), At(1))
      BY <2>2, <2>5, <2>7 DEF FreshKept
    <3> QED BY <1>2, <2>1, <2>3, <2>4, <3>1 DEF Fresh
  <2> HIDE DEF next
  <2> QED BY <1>6, <2>2, <2>6, <2>7
<1> QED BY <1>3, <1>4, <1>5, <1>6

\* Answers keep windows fresh while nothing is put in.
LEMMA TicksFresh ==
    ASSUME Structure, Structure', InFront, CleanBefore, FreshBefore, NEW a, Ticks(a), Touches(a),
           Typed'
    PROVE  FreshBefore'
<1>0. /\ doubted' = doubted /\ (Callee(1) \notin Inserting => copies' = copies)
      /\ (Callee(1) \notin Entering => enters' = enters)
  BY TickView DEF Touches
<1>a. Callee(1) # "select_route" => Aim' = Aim
  BY TicksStructure, TickNoStager
<1>b. Callee(1) \in Inserting \cup Entering => Name(1) \in Inserter
  BY TickView, WhereIsAim
<1>c. Callee(1) = "select_route" => Name(1) \in Router /\ CleanAt(Name(1), At(1))
  BY TickView DEF Annotated, RouteKept
<1> SUFFICES ASSUME NEW i \in DOMAIN stack', Settled(i)',
                    FreshAt(Name(i)', At(i)') \/ FreshEnterAt(Name(i)', At(i)')
             PROVE  /\ FreshAt(Name(i)', At(i)') => Fresh(Aim)'
                    /\ FreshEnterAt(Name(i)', At(i)') => FreshEnter(Aim)'
  BY DEF FreshBefore
<1>1. Aim' \in Place
  BY NextAims DEF AimsThere
<1>2. Callee(1) \notin Inserting \cup Entering =>
        /\ Fresh(Aim') => Fresh(Aim)'
        /\ FreshEnter(Aim') => FreshEnter(Aim)'
  BY <1>0 DEF Fresh, FreshEnter
<1>3. CASE i # 1
  <2>1. Settled(i) /\ i \in DOMAIN stack /\ 1 \in DOMAIN stack
    BY <1>3, TickView, SettledBefore
  <2>2. Name(1) \notin Writing
    BY <1>3, <2>1, Unsettled
  <2>3. Callee(1) \notin Inserting \cup Entering \cup {"select_route"}
    BY <1>b, <1>c, <2>2, Vocabulary DEF Writing
  <2> QED BY <1>a, <1>2, <1>3, <2>1, <2>3, TickView DEF FreshBefore
<1>4. CASE i = 1
  <2> DEFINE next == StepAt(1).next[a]
  <2>1. /\ Name(1)' = Name(1) /\ At(1)' = next /\ ~IsProgram(Callee(1))
        /\ FreshKept(Name(1), At(1), StepAt(1)) /\ StepAt(1).call = Callee(1)
        /\ a \in Reply(Callee(1)) /\ 1 \in DOMAIN stack
    BY TickView DEF Annotated
  <2>2. /\ FreshAt(Name(1), At(1)) => Fresh(Aim)
        /\ FreshEnterAt(Name(1), At(1)) => FreshEnter(Aim)
        /\ CleanAt(Name(1), At(1)) => Clean /\ Name(1) \in Outer
    BY <2>1, TableFacts DEF FreshBefore, CleanBefore, Settled
  <2>3. ~Doubting(Callee(1), a)
    BY <2>1, DelivererFacts DEF Doubting, IsProgram
  <2>4. CleanAt(Name(1), At(1)) => Callee(1) \notin Inserting \cup Entering
    BY <1>b, <2>2, Vocabulary
  <2>5. CASE Callee(1) = "select_route"
    <3>1. Clean /\ Callee(1) \notin Inserting \cup Entering
      BY <1>c, <2>2, <2>4, <2>5
    <3> QED BY <1>1, <1>2, <3>1, CleanIsFresh
  <2>6. CASE Callee(1) # "select_route"
    <3>1. Aim' = Aim
      BY <1>a, <2>6
    <3>2. ASSUME FreshAt(Name(1), next) PROVE Fresh(Aim)'
      <4>1. \/ FreshAt(Name(1), At(1)) /\ Callee(1) \notin Inserting \cup Entering
            \/ CleanAt(Name(1), At(1))
        BY <2>1, <2>3, <3>2, TickNoStager DEF FreshKept
      <4> QED BY <1>1, <1>2, <2>2, <2>4, <3>1, <4>1, CleanIsFresh
    <3>3. ASSUME FreshEnterAt(Name(1), next) PROVE FreshEnter(Aim)'
      <4>1. /\ FreshEnterAt(Name(1), At(1)) \/ FreshAt(Name(1), At(1))
            /\ Callee(1) \notin Entering
        BY <2>1, <3>3 DEF FreshKept
      <4>2. FreshEnter(Aim)
        BY <2>2, <4>1 DEF Fresh
      <4> QED BY <1>0, <3>1, <4>1, <4>2 DEF FreshEnter
    <3> QED BY <1>4, <2>1, <3>2, <3>3
  <2> HIDE DEF next
  <2> QED BY <2>5, <2>6
<1> QED BY <1>3, <1>4

-----------------------------------------------------------------------------
\* Text and Enter a second time.

\* What is put in again is put into a window in doubt.
LEMMA TicksRepeats ==
    ASSUME Structure, InFront, FreshBefore, RepeatsOnlyInDoubt, NEW a, Ticks(a), Touches(a),
           Typed'
    PROVE  RepeatsOnlyInDoubt'
<1>t. copies \in [Place -> 0..Many] /\ enters \in [Place -> 0..Many] /\ Many \in Nat
  BY CapabilityAssumption DEF Structure, RunTypeOK
<1> SUFFICES ASSUME NEW w \in Place, copies'[w] > 1 \/ (enters'[w] > 1 /\ w # "browser")
             PROVE  w \in doubted
  BY TickView DEF RepeatsOnlyInDoubt
<1>1. /\ copies[w] \in Nat /\ enters[w] \in Nat /\ copies'[w] \in Nat /\ copies'[w] <= copies[w] + 1
      /\ enters'[w] \in {enters[w], enters[w] + 1}
  BY <1>t DEF Touches, Typed
<1>2. CASE copies'[w] = copies[w] /\ enters'[w] = enters[w]
  BY <1>2 DEF RepeatsOnlyInDoubt
<1>3. CASE ~(copies'[w] = copies[w] /\ enters'[w] = enters[w])
  <2>1. w = Where /\ Callee(1) \in Inserting \cup Entering
    BY <1>3 DEF Touches
  <2>2. w = Aim /\ 1 \in DOMAIN stack
    BY <2>1, TickView, WhereIsAim
  <2>3. CASE copies'[w] > 1
    <3>1. CASE copies'[w] = copies[w]
      BY <2>3, <3>1 DEF RepeatsOnlyInDoubt
    <3>2. CASE copies'[w] # copies[w]
      <4>1. Callee(1) \in Inserting /\ copies[w] # 0
        <5>1. Callee(1) \in Inserting
          BY <3>2 DEF Touches
        <5> QED BY <1>1, <2>3, <5>1
      <4>2. Callee(1) # "open_file"
        BY <2>1, <3>2, <4>1 DEF Touches
      <4>3. FreshAt(Name(1), At(1))
        BY <4>1, <4>2, TickView DEF Annotated, FreshKept
      <4> QED BY <2>2, <4>1, <4>3 DEF FreshBefore, Settled, Fresh
    <3> QED BY <3>1, <3>2
  <2>4. CASE enters'[w] > 1 /\ w # "browser"
    <3>1. CASE enters'[w] = enters[w]
      BY <2>4, <3>1 DEF RepeatsOnlyInDoubt
    <3>2. CASE enters'[w] # enters[w]
      <4>1. Callee(1) \in Entering /\ enters[w] # 0
        BY <1>1, <2>4, <3>2 DEF Touches
      <4>2. FreshAt(Name(1), At(1)) \/ FreshEnterAt(Name(1), At(1))
        <5>1. Callee(1) = "Enter" \/ Callee(1) \in Inserting \ {"open_file"}
          BY <4>1 DEF Entering, Inserting
        <5> QED BY <5>1, TickView DEF Annotated, FreshKept
      <4>3. FreshEnter(w)
        BY <2>2, <4>2 DEF FreshBefore, Settled, Fresh
      <4> QED BY <2>4, <4>1, <4>3 DEF FreshEnter
    <3> QED BY <3>1, <3>2
  <2> QED BY <2>3, <2>4
<1> QED BY <1>2, <1>3

\* Steps that put nothing in.
LEMMA OthersRepeats ==
    ASSUME RepeatsOnlyInDoubt, UNCHANGED <<copies, enters>>, doubted \subseteq doubted'
    PROVE  RepeatsOnlyInDoubt'
BY DEF RepeatsOnlyInDoubt

-----------------------------------------------------------------------------
\* The text where it is for.

\* What has been put in stays there.
LEMMA DeliveredStays ==
    ASSUME NEW a, Touches(a), NEW w \in Place, Delivered(w) PROVE Delivered(w)'
BY DEF Touches, Delivered

\* A frame is about a window of the desktop.
LEMMA FramePlaces ==
    ASSUME Structure, NEW i \in DOMAIN stack PROVE stack[i].it \in Place
<1>1. stack[i] \in FrameSet
  BY DEF Structure
<1> QED BY <1>1 DEF FrameSet, Place

\* Calls keep what has been put in.
LEMMA InvokesDelivered ==
    ASSUME Structure, DeliveredAfter, Invokes PROVE DeliveredAfter'
<1> SUFFICES ASSUME NEW i \in DOMAIN stack', DeliveredAt(Name(i)', At(i)'), input.text
             PROVE  Delivered(stack'[i].it)
  BY InvokeView DEF DeliveredAfter, Delivered, desktop
<1>1. i # 1
  BY InvokeView, StartsEmpty DEF IsProgram
<1> QED BY <1>1, InvokeView DEF DeliveredAfter

\* Returns keep it, or the program that returns has put it in.
LEMMA ReturnsDelivered ==
    ASSUME Structure, DeliveredAfter, Returns PROVE DeliveredAfter'
<1> SUFFICES ASSUME NEW i \in DOMAIN stack', DeliveredAt(Name(i)', At(i)'), input.text
             PROVE  Delivered(stack'[i].it)
  BY ReturnView DEF DeliveredAfter, Delivered, Judged
<1>1. CASE i # 1
  BY <1>1, ReturnView DEF DeliveredAfter
<1>2. CASE i = 1
  <2>1. DeliveredAt(Name(2), StepAt(2).next[At(1)])
    BY <1>2, ReturnView
  <2>2. DeliveryKept(Name(2), At(2), StepAt(2)) /\ StepAt(2).call = Name(1)
        /\ At(1) \in Reply(Name(1)) /\ IsProgram(Name(1))
    BY ReturnView DEF Annotated
  <2>3. DeliveredAt(Name(2), At(2)) \/ DeliveredAt(Name(1), At(1))
    <3>1. Name(1) \notin Inserting \cup {"has_text"}
      BY <2>2, FocusingNoProgram, NoPrograms
    <3> QED BY <2>1, <2>2, <3>1 DEF DeliveryKept
  <2>4. stack[1].it = stack[2].it
    <3>1. Name(2) \in Inner
      BY <2>1, <2>2 DEF DeliveryKept
    <3> QED BY <3>1, ReturnView, SameAsTop
  <2> QED BY <1>2, <2>3, <2>4, ReturnView DEF DeliveredAfter
<1> QED BY <1>1, <1>2

\* Answers keep it, or the call has put it in.
LEMMA TicksDelivered ==
    ASSUME Structure, InFront, DeliveredAfter, NEW a, Ticks(a), Touches(a)
    PROVE  DeliveredAfter'
<1> SUFFICES ASSUME NEW i \in DOMAIN stack', DeliveredAt(Name(i)', At(i)'), input.text,
                    NEW w, w = stack'[i].it
             PROVE  Delivered(w)'
  BY TickView DEF DeliveredAfter, Delivered
<1>0. i \in DOMAIN stack /\ w = stack[i].it
  BY TickView
<1>1. DeliveredAt(Name(i), At(i)) => Delivered(w)'
  BY <1>0, DeliveredStays, FramePlaces DEF DeliveredAfter
<1>2. CASE i # 1
  BY <1>1, <1>2, TickView
<1>3. CASE i = 1
  <2>1. DeliveredAt(Name(1), StepAt(1).next[a])
    BY <1>3, TickView
  <2>2. DeliveryKept(Name(1), At(1), StepAt(1)) /\ StepAt(1).call = Callee(1)
        /\ a \in Reply(Callee(1)) /\ ~IsProgram(Callee(1))
    BY TickView DEF Annotated
  <2>3. ~(Callee(1) = "has_text" /\ a # "yes")
    BY DEF Ticks
  <2>4. CASE Callee(1) \in Inserting \ {"open_file"} /\ a \in Answered
    <3>1. copies'[Where] > 0 \/ pastedOther'
      BY <2>4 DEF Touches
    <3>2. Where = stack[1].it
      BY <2>4, TickView, WhereIsAim
    <3> QED BY <1>0, <1>3, <3>1, <3>2 DEF Delivered
  <2> QED BY <1>1, <1>3, <2>1, <2>2, <2>3, <2>4 DEF DeliveryKept
<1> QED BY <1>2, <1>3

-----------------------------------------------------------------------------
\* Staging.

\* What is done stays done.
LEMMA DoneStays ==
    ASSUME NEW w, Done(w), Judged PROVE Done(w)'
BY DEF Done, Delivered, Judged

\* Calls keep the order of staging.
LEMMA InvokesStaged ==
    ASSUME Structure, CleanBefore, Staged1, Invokes PROVE Staged1'
<1> SUFFICES ASSUME NEW i \in DOMAIN stack', Name(i)' = Stager
             PROVE  /\ At(i)' = "start" => Untouched(input.window)
                    /\ At(i)' = "deliver" => Done("editor")
  BY InvokeView DEF Staged1, Untouched, Done, Delivered, desktop
<1>1. CASE i = 1
  <2>1. CleanAt(Stager, "start")
    BY Vocabulary DEF CleanAt
  <2>2. CleanAt(Name(1), At(1))
    BY <1>1, <2>1, InvokeView DEF Annotated, CleanKept
  <2>3. Clean
    BY <2>2, InvokeView DEF CleanBefore, Settled
  <2>4. input.window \in Place
    BY DEF Structure, RunTypeOK, Place
  <2> QED BY <1>1, <2>3, <2>4, InvokeView DEF Clean
<1>2. CASE i # 1
  BY <1>2, InvokeView DEF Staged1
<1> QED BY <1>1, <1>2

\* The text is confirmed in the editor before it is delivered.
LEMMA ReturnsStaged ==
    ASSUME Structure, Staged1, SeenAfter, Returns PROVE Staged1'
<1>0. UNCHANGED <<input, copies, enters>> /\ (Done("editor") => Done("editor")')
  BY ReturnView, DoneStays DEF Judged
<1> SUFFICES ASSUME NEW i \in DOMAIN stack', Name(i)' = Stager
             PROVE  /\ At(i)' = "start" => Untouched(input.window)
                    /\ At(i)' = "deliver" => Done("editor")
  BY <1>0 DEF Staged1, Untouched
<1>1. CASE i # 1
  BY <1>1, ReturnView DEF Staged1
<1>2. CASE i = 1
  <2>1. /\ Name(2) = Stager /\ At(i)' = StepAt(2).next[At(1)] /\ 2 \in DOMAIN stack
        /\ At(1) \in Reply(Callee(2)) /\ Callee(2) = Name(1) /\ 1 \in DOMAIN stack
    BY <1>2, ReturnView
  <2>2. /\ Name(1) \in Deliverer \ Staged /\ At(i)' # "start"
        /\ At(i)' = "deliver" => At(2) = "start" /\ At(1) = "yes"
    BY <2>1, StagerStep DEF Returns
  <2>3. ASSUME At(i)' = "deliver" PROVE Done("editor")
    <3>1. input.text /\ Aim = "editor"
      BY <2>1, <2>2, <2>3, StagerAim DEF StagerAims
    <3> QED BY <2>1, <2>2, <2>3, <3>1 DEF SeenAfter, DoneAt
  <2> QED BY <2>2, <2>3
<1> QED BY <1>1, <1>2

\* What a call does outside the window text is put into.
LEMMA Elsewhere ==
    ASSUME Structure, InFront, NEW a, Ticks(a), Touches(a), NEW w \in Place, w # Aim
    PROVE  /\ copies'[w] = copies[w] /\ enters'[w] = enters[w]
           /\ Done(w) => Done(w)'
<1>1. Callee(1) \in Inserting \cup Entering => Where = Aim
  BY TickView, WhereIsAim
<1>2. /\ copies'[w] = copies[w] /\ enters'[w] = enters[w]
      /\ w \in confirmed => w \in confirmed'
  BY <1>1 DEF Touches
<1> QED BY <1>2, DeliveredStays DEF Done

\* Answers keep the order of staging.
LEMMA TicksStaged ==
    ASSUME Structure, InFront, Staged1, NEW a, Ticks(a), Touches(a) PROVE Staged1'
<1> SUFFICES ASSUME NEW i \in DOMAIN stack', Name(i)' = Stager
             PROVE  /\ At(i)' = "start" => Untouched(input.window)'
                    /\ At(i)' = "deliver" => Done("editor")'
  BY DEF Staged1
<1>1. /\ i \in DOMAIN stack /\ Name(i) = Stager /\ At(i)' = At(i) /\ UNCHANGED input
  BY TickView, TickNoStager
<1>2. /\ input.window # "editor" /\ input.window \in Place /\ "editor" \in Place
      /\ Aim = IF At(i) = "start" THEN "editor" ELSE input.window
  BY <1>1, StagerAim DEF StagerAims, Place, Window
<1>3. CASE At(i) = "start"
  BY <1>1, <1>2, <1>3, Elsewhere DEF Staged1, Untouched
<1>4. CASE At(i) = "deliver"
  BY <1>1, <1>2, <1>4, Elsewhere DEF Staged1
<1> QED BY <1>1, <1>3, <1>4

-----------------------------------------------------------------------------
\* Success.

\* A frame that waits has not answered.
LEMMA WaitingBelow ==
    ASSUME Structure, NEW i \in DOMAIN stack, i # 1 PROVE At(i) # "yes" /\ Waits(i)
<1>1. Len(stack) \in Nat /\ DOMAIN stack = 1..Len(stack)
  BY DEF Structure
<1>2. i - 1 \in 1..Len(stack) - 1 /\ (i - 1) + 1 = i
  BY <1>1
<1>3. At(i) \in DOMAIN Program[Name(i)]
  BY <1>2 DEF Structure, Linked
<1>4. At(i) \notin Answer
  BY <1>3, FrameAnnotated DEF Structure
<1> QED BY <1>3, <1>4 DEF Answer, Waits

\* Calls keep what delivering programs have seen.
LEMMA InvokesSeen ==
    ASSUME Structure, SeenAfter, Invokes PROVE SeenAfter'
<1>1. ASSUME NEW i \in DOMAIN stack' PROVE At(i)' # "yes"
  <2>1. CASE i = 1
    BY <2>1, InvokeView
  <2>2. CASE i # 1
    <3>1. i - 1 \in DOMAIN stack /\ At(i)' = At(i - 1)
      BY <2>2, InvokeView
    <3>2. At(1) # "yes"
      BY InvokeView, FrameAnnotated DEF Invokes, Waits, Structure, Answer
    <3> QED BY <3>1, <3>2, WaitingBelow
  <2> QED BY <2>1, <2>2
<1> QED BY <1>1 DEF SeenAfter

\* Answers keep what delivering programs have seen.
LEMMA TicksSeen ==
    ASSUME Structure, SeenAfter, NEW a, Ticks(a) PROVE SeenAfter'
<1> SUFFICES ASSUME NEW i \in DOMAIN stack', Name(i)' \in Deliverer, At(i)' = "yes" PROVE FALSE
  BY DEF SeenAfter
<1>1. CASE i # 1
  BY <1>1, TickView, WaitingBelow
<1>2. CASE i = 1
  <2>1. Name(1) \in Deliverer /\ StepAt(1).next[a] = "yes"
    BY <1>2, TickView
  <2>2. Callee(1) \in Deliverer \cup {"observe"}
    BY <2>1, TickView DEF Annotated, DeliveryKept
  <2> QED BY <2>2, TickView, DelivererFacts DEF IsProgram
<1> QED BY <1>1, <1>2

\* A delivering program answers "yes" only to what was seen.
LEMMA ReturnsSeen ==
    ASSUME Structure, DeliveredAfter, Staged1, SeenAfter, Returns, Typed' PROVE SeenAfter'
<1>0. UNCHANGED <<input, selected>> /\ \A w : Done(w) => Done(w)'
  BY ReturnView, DoneStays DEF Judged
<1> SUFFICES ASSUME NEW i \in DOMAIN stack', Name(i)' \in Deliverer, At(i)' = "yes", input.text,
                    NEW w, w \in DoneAt(Name(i))'
             PROVE  Done(w)'
  BY <1>0 DEF SeenAfter
<1>1. CASE i # 1
  BY <1>1, ReturnView, WaitingBelow
<1>2. CASE i = 1
  <2>1. /\ Name(2) \in Deliverer /\ StepAt(2).next[At(1)] = "yes" /\ Name(i)' = Name(2)
        /\ StepAt(2).call = Name(1) /\ At(1) \in Reply(Name(1))
        /\ DeliveryKept(Name(2), At(2), StepAt(2))
        /\ 1 \in DOMAIN stack /\ 2 \in DOMAIN stack
    BY <1>2, ReturnView DEF Annotated
  <2>2. At(1) = "yes"
    BY <2>1 DEF DeliveryKept
  <2>3. Name(2) # Stager => Aim' = Aim
    BY ReturnsStructure
  <2>4. CASE /\ Name(1) \in Deliverer /\ (Name(1) \in Staged <=> Name(2) \in Staged \ {Stager})
             /\ (Name(2) = Stager => At(2) = "deliver")
    <3>1. \A v \in DoneAt(Name(1)) : Done(v)
      BY <2>1, <2>2, <2>4 DEF SeenAfter
    <3>2. CASE Name(2) = Stager
      <4>1. Aim = input.window /\ Done("editor")
        BY <2>1, <2>4, <3>2, StagerAim, StartLabel DEF StagerAims, Staged1
      <4>2. w \in {"editor", input.window} /\ DoneAt(Name(1)) = {Aim}
        BY <1>0, <2>1, <2>4, <3>2, Vocabulary DEF DoneAt
      <4> QED BY <1>0, <3>1, <4>1, <4>2
    <3>3. CASE Name(2) # Stager
      <4>1. w \in DoneAt(Name(1))
        BY <1>0, <2>1, <2>3, <2>4, <3>3 DEF DoneAt
      <4> QED BY <1>0, <3>1, <4>1
    <3> QED BY <3>2, <3>3
  <2>5. CASE Name(1) = "observe" /\ Name(2) \in Inner \cap Inserter /\ DeliveredAt(Name(2), At(2))
    <3>1. stack[1].it = stack[2].it /\ stack[2].it = Aim
      BY <2>1, <2>5, SameAsTop DEF Structure, Aimed
    <3>2. Delivered(Aim)
      BY <2>1, <2>5, <3>1 DEF DeliveredAfter
    <3>3. Name(2) \notin Staged
      BY <2>5, Vocabulary
    <3>4. w = Aim
      BY <2>1, <2>3, <3>3, Vocabulary DEF DoneAt
    <3>5. Aim \in confirmed' /\ copies' = copies /\ pastedOther' = pastedOther
      BY <2>2, <2>5, <3>1, ReturnView DEF Judged
    <3> QED BY <3>2, <3>4, <3>5 DEF Done, Delivered
  <2> QED BY <2>1, <2>4, <2>5 DEF DeliveryKept
<1> QED BY <1>1, <1>2

-----------------------------------------------------------------------------
\* The text of a file.

\* Calls keep the text that was read.
LEMMA InvokesText ==
    ASSUME Structure, TextRead, Invokes PROVE TextRead'
<1> SUFFICES ASSUME NEW i \in DOMAIN stack'
             PROVE  /\ HaveTextAt(Name(i)', At(i)') => haveText
                    /\ input.chain \in FromFile /\ Name(i)' \in Writing \ FromFile =>
                          Name(i)' \in Inserter /\ haveText
  BY InvokeView DEF TextRead
<1>1. CASE i # 1
  BY <1>1, InvokeView DEF TextRead
<1>2. CASE i = 1
  <2>1. ~HaveTextAt(Name(i)', At(i)')
    BY <1>2, InvokeView, StartsEmpty DEF IsProgram
  <2>2. ASSUME input.chain \in FromFile, Callee(1) \in Writing \ FromFile
        PROVE  Callee(1) \in Inserter /\ haveText
    <3>1. Name(1) \in Writing /\ (Callee(1) \in Outer => Name(1) \in Outer)
      BY <2>2, InvokeView DEF Annotated, WellNested, CalledFromWithin
    <3>2. CASE Name(1) \in FromFile
      BY <2>2, <3>2, InvokeView DEF Annotated, TextKept, TextRead
    <3>3. CASE Name(1) \notin FromFile
      <4>1. Name(1) \in Inserter /\ haveText
        BY <2>2, <3>1, <3>3, InvokeView DEF TextRead
      <4> QED BY <2>2, <3>1, <4>1, Vocabulary DEF Writing
    <3> QED BY <3>2, <3>3
  <2> QED BY <1>2, <2>1, <2>2, InvokeView
<1> QED BY <1>1, <1>2

\* Returns keep the text that was read.
LEMMA ReturnsText ==
    ASSUME Structure, TextRead, Returns PROVE TextRead'
<1> SUFFICES ASSUME NEW i \in DOMAIN stack'
             PROVE  /\ HaveTextAt(Name(i)', At(i)') => haveText
                    /\ input.chain \in FromFile /\ Name(i)' \in Writing \ FromFile =>
                          Name(i)' \in Inserter /\ haveText
  BY ReturnView DEF TextRead, Judged
<1>1. CASE i # 1
  BY <1>1, ReturnView DEF TextRead
<1>2. CASE i = 1
  <2>1. /\ StepAt(2).call = Name(1) /\ At(1) \in Reply(Name(1)) /\ IsProgram(Name(1))
        /\ TextKept(Name(2), At(2), StepAt(2)) /\ 1 \in DOMAIN stack /\ 2 \in DOMAIN stack
        /\ Name(1)' = Name(2) /\ At(1)' = StepAt(2).next[At(1)]
    BY ReturnView DEF Annotated
  <2>2. Name(1) \notin {"command_line", "read_workspace_text", "text_was_read"}
    BY <2>1, NoPrograms
  <2>3. HaveTextAt(Name(1)', At(1)') => HaveTextAt(Name(2), At(2)) \/ HaveTextAt(Name(1), At(1))
    BY <2>1, <2>2 DEF TextKept
  <2> QED BY <1>2, <2>1, <2>3 DEF TextRead
<1> QED BY <1>1, <1>2

\* Answers keep the text that was read, or read it.
LEMMA TicksText ==
    ASSUME Structure, TextRead, NEW a, Ticks(a) PROVE TextRead'
<1>0. haveText => haveText'
  BY DEF Ticks
<1> SUFFICES ASSUME NEW i \in DOMAIN stack'
             PROVE  /\ HaveTextAt(Name(i)', At(i)') => haveText'
                    /\ input.chain \in FromFile /\ Name(i)' \in Writing \ FromFile =>
                          Name(i)' \in Inserter /\ haveText'
  BY TickView DEF TextRead
<1>1. input.chain \in FromFile /\ Name(i)' \in Writing \ FromFile
           => Name(i)' \in Inserter /\ haveText'
  BY <1>0, TickView DEF TextRead
<1>2. CASE i # 1
  BY <1>0, <1>1, <1>2, TickView DEF TextRead
<1>3. CASE i = 1
  <2>1. /\ StepAt(1).call = Callee(1) /\ a \in Reply(Callee(1)) /\ ~IsProgram(Callee(1))
        /\ TextKept(Name(1), At(1), StepAt(1)) /\ 1 \in DOMAIN stack
        /\ Name(1)' = Name(1) /\ At(1)' = StepAt(1).next[a]
    BY TickView DEF Annotated
  <2>2. HaveTextAt(Name(1)', At(1)') =>
          \/ HaveTextAt(Name(1), At(1))
          \/ Callee(1) \in {"command_line", "read_workspace_text", "text_was_read"} /\ a = "yes"
    BY <2>1 DEF TextKept
  <2>3. HaveTextAt(Name(1)', At(1)') => haveText'
    BY <1>0, <2>1, <2>2 DEF TextRead, Ticks
  <2> QED BY <1>1, <1>3, <2>3
<1> QED BY <1>2, <1>3

-----------------------------------------------------------------------------
\* The order of staging, reading and delivering.

\* Text is put into the target after staging, and after reading.
LEMMA TicksStages ==
    ASSUME Structure, InFront, Staged1, TextRead, StagesInOrder, NEW a, Ticks(a), Touches(a), Typed'
    PROVE  StagesInOrder'
<1>0. UNCHANGED input /\ (haveText => haveText')
  BY TickView DEF Ticks
<1>t. input.window \in Place /\ "editor" \in Place
  BY DEF Structure, RunTypeOK, Place, Window
<1>1. CASE Callee(1) \notin Inserting
  <2>1. UNCHANGED <<copies, confirmed>>
    BY <1>1 DEF Touches
  <2>2. input.chain \in Staged => Target' = Target
    BY <1>0, Vocabulary DEF Target
  <2> QED BY <1>0, <2>1, <2>2 DEF StagesInOrder
<1>2. CASE Callee(1) \in Inserting
  <2>1. Name(1) \in Inserter /\ Name(1) \notin FromFile /\ 1 \in DOMAIN stack
    BY <1>2, TickView, WhereIsAim
  <2>2. input.chain \in FromFile => haveText'
    BY <1>0, <2>1 DEF TextRead, Writing
  <2>3. ASSUME input.chain \in Staged, copies'[input.window] > 0
        PROVE  "editor" \in confirmed'
    <3>1. PICK j \in DOMAIN stack : 1 < j /\ Name(j) = Stager
      BY <2>1, <2>3 DEF Structure, OneCore
    <3>2. At(j) \in {"start", "deliver"}
      BY <3>1, WaitingBelow, StagerStep
    <3>3. /\ input.window # "editor"
          /\ Aim = IF At(j) = "start" THEN "editor" ELSE input.window
      BY <3>1, StagerAim DEF StagerAims
    <3>4. CASE At(j) = "start"
      <4>1. copies'[input.window] = copies[input.window] /\ copies[input.window] = 0
        BY <1>t, <3>1, <3>3, <3>4, Elsewhere DEF Staged1, Untouched
      <4> QED BY <2>3, <4>1
    <3>5. CASE At(j) = "deliver"
      BY <1>t, <3>1, <3>3, <3>5, Elsewhere DEF Staged1, Done
    <3> QED BY <3>2, <3>4, <3>5
  <2>4. input.chain \in Staged => Target' = input.window
    BY <1>0, Vocabulary DEF Target
  <2> QED BY <1>0, <2>2, <2>3, <2>4 DEF StagesInOrder
<1> QED BY <1>1, <1>2

\* Steps that put no text in.
LEMMA OthersStages ==
    ASSUME StagesInOrder, UNCHANGED <<input, selected, haveText, copies>>,
           confirmed \subseteq confirmed'
    PROVE  StagesInOrder'
BY DEF StagesInOrder, Target

\* A run that succeeds has seen the text at its destinations.
LEMMA EndsSeen ==
    ASSUME Structure, SeenAfter, Ends PROVE SuccessWasSeen'
<1> SUFFICES ASSUME At(1) = "yes", input.chain \in Delivering, input.text, NEW w \in Destinations
             PROVE  Done(w)
  BY DEF Ends, Judged, SuccessWasSeen, Destinations, Target, Done, Delivered
<1>1. Name(1) = input.chain /\ DOMAIN stack = {1}
  <2>1. Len(stack) = 1
    BY DEF Ends
  <2>2. DOMAIN stack = 1..Len(stack)
    BY DEF Structure
  <2>3. stack # <<>> /\ 1..1 = {1}
    BY <2>1, EmptySeq
  <2> QED BY <2>1, <2>2, <2>3 DEF Structure, Started, Name
<1>2. \A v \in DoneAt(input.chain) : Done(v)
  BY <1>1, DelivererFacts DEF SeenAfter
<1>3. ~Staging
  BY <1>1 DEF Staging
<1>4. w \in DoneAt(input.chain)
  BY <1>3, Vocabulary DEF DoneAt, Destinations, Target, Aim
<1> QED BY <1>2, <1>4

-----------------------------------------------------------------------------
\* Every step keeps what is known.

\* Calls keep the invariant.
LEMMA InvokesInv ==
    ASSUME RunInv, Invokes, Typed' PROVE RunInv'
<1>1. Structure'
  BY InvokesStructure DEF RunInv
<1>2. InFront' /\ CleanBefore' /\ Asked' /\ FreshBefore'
  BY <1>1, InvokesFront, InvokesClean, InvokesAsked, InvokesFresh DEF RunInv
<1>3. DeliveredAfter' /\ Staged1' /\ SeenAfter' /\ TextRead'
  BY InvokesDelivered, InvokesStaged, InvokesSeen, InvokesText DEF RunInv
<1>4. UNCHANGED <<input, result, selected, haveText, desktop>>
  BY InvokeView DEF RunInv
<1>5. OnlyTargetsWritten' /\ StagesInOrder' /\ RepeatsOnlyInDoubt' /\ EnterOnlyWhenAsked'
  BY <1>4, OthersTargets, OthersStages, OthersRepeats, OthersEnter DEF RunInv, desktop
<1>6. SuccessWasSeen'
  BY <1>4 DEF RunInv, SuccessWasSeen, Destinations, Target, desktop
<1> QED BY <1>1, <1>2, <1>3, <1>5, <1>6 DEF RunInv

\* Returns keep the invariant.
LEMMA ReturnsInv ==
    ASSUME RunInv, Returns, Typed' PROVE RunInv'
<1>1. Structure'
  BY ReturnsStructure DEF RunInv
<1>2. InFront' /\ CleanBefore' /\ Asked' /\ FreshBefore'
  BY <1>1, ReturnsFront, ReturnsClean, ReturnsAsked, ReturnsFresh DEF RunInv
<1>3. DeliveredAfter' /\ Staged1' /\ SeenAfter' /\ TextRead'
  BY ReturnsDelivered, ReturnsStaged, ReturnsSeen, ReturnsText DEF RunInv
<1>4. /\ UNCHANGED <<input, result, selected, haveText, front, clipboard, copies, enters,
                     pastedOther>>
      /\ confirmed \subseteq confirmed' /\ doubted \subseteq doubted'
  BY ReturnView DEF RunInv, Judged
<1>5. OnlyTargetsWritten' /\ StagesInOrder' /\ RepeatsOnlyInDoubt' /\ EnterOnlyWhenAsked'
  BY <1>4, OthersTargets, OthersStages, OthersRepeats, OthersEnter DEF RunInv
<1>6. SuccessWasSeen'
  BY <1>4 DEF RunInv, SuccessWasSeen, Destinations, Target
<1> QED BY <1>1, <1>2, <1>3, <1>5, <1>6 DEF RunInv

\* Answers keep the invariant.
LEMMA TicksInv ==
    ASSUME RunInv, NEW a, Ticks(a), Touches(a), Typed' PROVE RunInv'
<1>1. Structure'
  BY TicksStructure DEF RunInv
<1>2. InFront' /\ CleanBefore' /\ Asked' /\ FreshBefore'
  BY <1>1, TicksFront, TicksClean, TicksAsked, TicksFresh DEF RunInv
<1>3. DeliveredAfter' /\ Staged1' /\ SeenAfter' /\ TextRead'
  BY TicksDelivered, TicksStaged, TicksSeen, TicksText DEF RunInv
<1>4. OnlyTargetsWritten' /\ StagesInOrder' /\ RepeatsOnlyInDoubt' /\ EnterOnlyWhenAsked'
  BY TicksTargets, TicksStages, TicksRepeats, TicksEnter DEF RunInv
<1>5. SuccessWasSeen'
  <2>1. result = "none" /\ result' = result
    <3>1. stack # <<>>
      <4>1. 1 \in DOMAIN stack
        BY TickView DEF RunInv
      <4> QED BY <4>1
    <3> QED BY <3>1, TickView DEF RunInv, Structure, Started
  <2> QED BY <2>1 DEF SuccessWasSeen
<1> QED BY <1>1, <1>2, <1>3, <1>4, <1>5 DEF RunInv

\* The end of a run keeps the invariant.
LEMMA EndsInv ==
    ASSUME RunInv, Ends, Typed' PROVE RunInv'
<1>1. Structure' /\ DOMAIN stack' = {}
  <2>1. DOMAIN stack' = {}
    BY DEF Ends
  <2> QED BY <2>1, EndsStructure DEF RunInv
<1>2. InFront' /\ CleanBefore' /\ Asked' /\ FreshBefore'
  BY <1>1 DEF InFront, CleanBefore, Asked, FreshBefore
<1>3. DeliveredAfter' /\ Staged1' /\ SeenAfter' /\ TextRead'
  BY <1>1 DEF DeliveredAfter, Staged1, SeenAfter, TextRead
<1>4. /\ UNCHANGED <<input, selected, haveText, front, clipboard, copies, enters, pastedOther>>
      /\ confirmed \subseteq confirmed' /\ doubted \subseteq doubted'
  BY DEF Ends, Judged
<1>5. OnlyTargetsWritten' /\ StagesInOrder' /\ RepeatsOnlyInDoubt' /\ EnterOnlyWhenAsked'
  BY <1>4, OthersTargets, OthersStages, OthersRepeats, OthersEnter DEF RunInv
<1>6. SuccessWasSeen'
  BY EndsSeen DEF RunInv
<1> QED BY <1>1, <1>2, <1>3, <1>5, <1>6 DEF RunInv

\* Before anything has been put anywhere, all that is said of text and Enter holds.
LEMMA CleanDesktop ==
    ASSUME Clean, result = "none", input.window \in Window
    PROVE  /\ OnlyTargetsWritten /\ StagesInOrder /\ SuccessWasSeen /\ RepeatsOnlyInDoubt
           /\ EnterOnlyWhenAsked
<1>1. \A w \in Place : copies[w] = 0 /\ enters[w] = 0
  BY DEF Clean, Untouched
<1>2. input.chain \in Staged => Target = input.window /\ Target \in Place
  BY Vocabulary DEF Target, Place
<1> QED BY <1>1, <1>2 DEF OnlyTargetsWritten, StagesInOrder, SuccessWasSeen, RepeatsOnlyInDoubt,
           EnterOnlyWhenAsked

\* A run that has done nothing yet, or none.
NewRun ==
    /\ Structure /\ Clean /\ result = "none" /\ input.window \in Window
    /\ \A i \in DOMAIN stack :
          /\ i = 1 /\ Name(i) = input.chain /\ At(i) = "start" /\ Name(i) \in DOMAIN Program
          /\ ~FrontAt(Name(i), "start") /\ ~MayEnterAt(Name(i), "start")

\* The invariant holds of it.
LEMMA NewRunInv == NewRun => RunInv
<1> SUFFICES ASSUME NewRun PROVE RunInv
  OBVIOUS
<1>1. InFront /\ CleanBefore /\ Asked
  BY DEF NewRun, InFront, CleanBefore, Asked
<1>2. FreshBefore
  BY AimThere, CleanIsFresh DEF NewRun, FreshBefore, AimsThere
<1>3. DeliveredAfter /\ SeenAfter
  BY StartsEmpty DEF NewRun, DeliveredAfter, SeenAfter
<1>4. Staged1
  BY DEF NewRun, Staged1, Clean, Place
<1>5. TextRead
  BY StartsEmpty DEF NewRun, TextRead
<1>6. /\ OnlyTargetsWritten /\ StagesInOrder /\ SuccessWasSeen /\ RepeatsOnlyInDoubt
      /\ EnterOnlyWhenAsked
  BY CleanDesktop DEF NewRun
<1> QED BY <1>1, <1>2, <1>3, <1>4, <1>5, <1>6 DEF NewRun, RunInv

\* The same after a step.
LEMMA NextNewRun == NewRun' => RunInv'
BY NewRunInv, PTL

\* The start of a run keeps the invariant.
LEMMA StartInv ==
    ASSUME RunInv, Start PROVE RunInv'
<1>1. /\ Structure' /\ Typed' /\ stack = <<>> /\ result = "none" /\ result' = "none"
      /\ UNCHANGED <<selected, haveText, desktop>>
      /\ input'.chain \in Chain
      /\ stack' \in Seq(FrameSet) /\ Len(stack') = 1 /\ stack'[1].name = input'.chain
      /\ stack'[1].at = "start" /\ input'.chain \in DOMAIN Program
  BY StartStructure, StartKind DEF RunInv
<1>2. Clean' /\ input'.window \in Window
  BY <1>1 DEF RunInv, Structure, Started, Clean, Untouched, desktop, Typed
<1>3. DOMAIN stack' = {1}
  <2>1. DOMAIN stack' = 1..1
    BY <1>1
  <2> QED BY <2>1
<1>4. NewRun'
  BY <1>1, <1>2, <1>3, ChainFacts DEF NewRun, Name, At
<1> QED BY <1>4, NextNewRun

\* Every step of a run keeps the invariant.
LEMMA RunInvStep ==
    ASSUME ~Strays, RunInv, RunNext \/ CallFails PROVE RunInv'
<1>1. Start \/ (Typed' /\ (Invokes \/ Ends \/ Returns)) \/ Kind
  BY StepIs DEF RunInv
<1>2. CASE Kind
  BY <1>2, TicksInv DEF Kind
<1> QED BY <1>1, <1>2, StartInv, InvokesInv, EndsInv, ReturnsInv

\* The types of the initial state.
LEMMA InitTypes == RunInit => RunTypeOK
<1> SUFFICES ASSUME RunInit PROVE RunTypeOK
  OBVIOUS
<1>1. DOMAIN stack = {}
  BY DEF RunInit
<1>2. copies \in [Place -> 0..Many] /\ enters \in [Place -> 0..Many]
  <2>1. 0 \in 0..Many
    BY CapabilityAssumption
  <2> QED BY <2>1 DEF RunInit
<1>3. input \in [chain : Chain \cup {"none"}, window : Window, enter : BOOLEAN, text : BOOLEAN]
  BY DEF RunInit, Window
<1> QED BY <1>1, <1>2, <1>3 DEF RunInit, RunTypeOK, Place

\* At first there is no run.
LEMMA InitStructure == RunInit => NewRun
<1> SUFFICES ASSUME RunInit PROVE NewRun
  OBVIOUS
<1>1. /\ stack = <<>> /\ Len(stack) = 0 /\ DOMAIN stack = {} /\ stack \in Seq(FrameSet)
  BY EmptySeq DEF RunInit
<1>2. Linked
  <2>1. 1..Len(stack) - 1 = {}
    BY <1>1
  <2> QED BY <2>1 DEF Linked
<1>3. Nested /\ OneCore /\ SameWindow /\ Aimed /\ Selected
  BY <1>1 DEF Nested, OneCore, SameWindow, Aimed, Selected
<1>4. Clean /\ result = "none" /\ input.window \in Window
  BY DEF RunInit, Clean, Untouched, Window
<1>5. Started
  <2>1. input.chain = "none" /\ input.window = "editor" /\ input.text = TRUE
    BY DEF RunInit
  <2>2. input.window \in Named(input.chain)
    BY <2>1 DEF Named, Routed, Staged, Submitting
  <2> QED BY <1>1, <1>4, <2>1, <2>2 DEF Started
<1>6. RunTypeOK
  BY InitTypes
<1> QED BY <1>1, <1>2, <1>3, <1>4, <1>5, <1>6 DEF NewRun, Structure

-----------------------------------------------------------------------------
\* The specification.

\* Steps of the service, of panels and of crashes leave the run alone.
LEMMA OtherSteps ==
    ASSUME UNCHANGED runVars PROVE (Structure => Structure') /\ (RunInv => RunInv')
<1>1. /\ input' = input /\ stack' = stack /\ result' = result /\ selected' = selected
      /\ haveText' = haveText /\ front' = front /\ clipboard' = clipboard /\ copies' = copies
      /\ enters' = enters /\ confirmed' = confirmed /\ doubted' = doubted
      /\ pastedOther' = pastedOther
  BY DEF runVars
<1>2. /\ \A i : Name(i)' = Name(i) /\ At(i)' = At(i) /\ Callee(i)' = Callee(i)
      /\ \A i : Settled(i)' = Settled(i)
      /\ Aim' = Aim
      /\ Target' = Target /\ Destinations' = Destinations
  BY <1>1 DEF Name, At, Callee, Settled, Aim, Staging, Target, Destinations
<1>3. Structure => Structure'
  <2>1. /\ RunTypeOK => RunTypeOK'
        /\ Started => Started'
    BY <1>1, <1>2 DEF RunTypeOK, Started, Clean, Untouched
  <2>2. Linked => Linked'
    <3> SUFFICES ASSUME Linked, NEW i \in 1..Len(stack') - 1
                 PROVE  At(i + 1)' \in DOMAIN Program[Name(i + 1)'] /\ Callee(i + 1)' = Name(i)'
      BY DEF Linked
    <3>1. i \in 1..Len(stack) - 1
      BY <1>1
    <3> QED BY <1>2, <3>1 DEF Linked
  <2>3. (Nested => Nested') /\ (OneCore => OneCore') /\ (SameWindow => SameWindow')
        /\ (Aimed => Aimed') /\ (Selected => Selected')
    BY <1>1, <1>2
       DEF Nested, OneCore, SameWindow, Aimed, Selected, CalledFromWithin, Outer, Writing,
           Inserter, FromFile, Submitter, Submitting, Routed, Staged
  <2>4. Structure => stack' \in Seq(FrameSet)
    BY <1>1 DEF Structure
  <2>5. Structure => RunTypeOK' /\ Linked' /\ Started'
    BY <2>1, <2>2 DEF Structure
  <2>6. Structure => Nested' /\ OneCore' /\ SameWindow' /\ Aimed' /\ Selected'
    BY <2>3 DEF Structure
  <2> HIDE DEF RunTypeOK, Linked, Started, Nested, OneCore, SameWindow, Aimed, Selected
  <2> QED BY <2>4, <2>5, <2>6 DEF Structure
<1>4. /\ InFront => InFront'
      /\ CleanBefore => CleanBefore'
      /\ Asked => Asked'
      /\ FreshBefore => FreshBefore'
  BY <1>1, <1>2 DEF InFront, CleanBefore, Clean, Untouched, Asked, MayEnter, FreshBefore,
     Fresh, FreshEnter
<1>5. /\ DeliveredAfter => DeliveredAfter'
      /\ Staged1 => Staged1'
      /\ SeenAfter => SeenAfter'
      /\ TextRead => TextRead'
  BY <1>1, <1>2 DEF DeliveredAfter, Delivered, Staged1, Untouched, Done, SeenAfter, DoneAt,
     TextRead
<1>6. /\ OnlyTargetsWritten => OnlyTargetsWritten'
      /\ StagesInOrder => StagesInOrder'
      /\ SuccessWasSeen => SuccessWasSeen'
      /\ RepeatsOnlyInDoubt => RepeatsOnlyInDoubt'
      /\ EnterOnlyWhenAsked => EnterOnlyWhenAsked'
  BY <1>1, <1>2 DEF OnlyTargetsWritten, StagesInOrder, SuccessWasSeen, RepeatsOnlyInDoubt,
     EnterOnlyWhenAsked
<1> QED BY <1>3, <1>4, <1>5, <1>6 DEF RunInv

\* The structure holds in every behaviour, strays or not.
LEMMA StructureHolds == ExecSpec => []Structure
<1>1. ExecInit => Structure
  BY InitStructure DEF ExecInit, NewRun
<1>2. Structure /\ [ExecNext]_execVars => Structure'
  <2> SUFFICES ASSUME Structure, [ExecNext]_execVars PROVE Structure'
    OBVIOUS
  <2>1. (RunNext \/ CallFails) \/ UNCHANGED runVars
    BY DEF ExecNext, RunStep, RunnerFinishes, ServiceStep, execVars, runVars
  <2> QED BY <2>1, StructureStep, OtherSteps
<1> QED BY <1>1, <1>2, PTL DEF ExecSpec

\* The invariant holds in every behaviour without strays.
LEMMA RunInvHolds == ~Strays => (ExecSpec => []RunInv)
<1> SUFFICES ASSUME ~Strays PROVE ExecSpec => []RunInv
  OBVIOUS
<1>1. ExecInit => RunInv
  BY InitStructure, NewRunInv DEF ExecInit
<1>2. RunInv /\ [ExecNext]_execVars => RunInv'
  <2> SUFFICES ASSUME RunInv, [ExecNext]_execVars PROVE RunInv'
    OBVIOUS
  <2>1. (RunNext \/ CallFails) \/ UNCHANGED runVars
    BY DEF ExecNext, RunStep, RunnerFinishes, ServiceStep, execVars, runVars
  <2> QED BY <2>1, RunInvStep, OtherSteps
<1> QED BY <1>1, <1>2, PTL DEF ExecSpec

-----------------------------------------------------------------------------
\* What holds of an executor and its runs.

\* The variables of the run and of the service keep their types in every behaviour,
\* elements found in other windows included.
THEOREM ExecutorTypesHold == ExecSpec => []ExecutorTypeOK
<1>1. Structure => RunTypeOK
  BY DEF Structure
<1> QED BY <1>1, StructureHolds, ServiceTypesHoldInRuns, PTL DEF ExecutorTypeOK

\* Text and Enter reach no window but the one the task is for and the editor of a staged
\* chain, whatever recoveries the chain goes through: any capabilities, any number of
\* attempts, failing calls, and a clipboard that others change (OnlyTargetsWritten).
THEOREM OnlyTargetsAreWritten == ~Strays => (ExecSpec => []OnlyTargetsWritten)
<1> SUFFICES ASSUME ~Strays PROVE ExecSpec => []OnlyTargetsWritten
  OBVIOUS
<1>1. RunInv => OnlyTargetsWritten
  BY DEF RunInv
<1> QED BY <1>1, RunInvHolds, PTL

\* A staged chain puts nothing into its target before the text in the editor is confirmed,
\* and a chain that delivers a file nothing anywhere before it has read it (StagesInOrder).
THEOREM StagingIsInOrder == ~Strays => (ExecSpec => []StagesInOrder)
<1> SUFFICES ASSUME ~Strays PROVE ExecSpec => []StagesInOrder
  OBVIOUS
<1>1. RunInv => StagesInOrder
  BY DEF RunInv
<1> QED BY <1>1, RunInvHolds, PTL

\* A delivering chain reports success only after an observation of every window it was to
\* put the text into (SuccessWasSeen).
THEOREM SuccessHasBeenSeen == ~Strays => (ExecSpec => []SuccessWasSeen)
<1> SUFFICES ASSUME ~Strays PROVE ExecSpec => []SuccessWasSeen
  OBVIOUS
<1>1. RunInv => SuccessWasSeen
  BY DEF RunInv
<1> QED BY <1>1, RunInvHolds, PTL

\* No recovery puts a text into a window again, or presses Enter there again, unless a
\* typing had failed or an observation had not confirmed it (RepeatsOnlyInDoubt).
THEOREM RepetitionIsInDoubt == ~Strays => (ExecSpec => []RepeatsOnlyInDoubt)
<1> SUFFICES ASSUME ~Strays PROVE ExecSpec => []RepeatsOnlyInDoubt
  OBVIOUS
<1>1. RunInv => RepeatsOnlyInDoubt
  BY DEF RunInv
<1> QED BY <1>1, RunInvHolds, PTL

\* Enter is pressed only where the task, or the kind of the capability, asks for it
\* (EnterOnlyWhenAsked).
THEOREM EnterIsAskedFor == ~Strays => (ExecSpec => []EnterOnlyWhenAsked)
<1> SUFFICES ASSUME ~Strays PROVE ExecSpec => []EnterOnlyWhenAsked
  OBVIOUS
<1>1. RunInv => EnterOnlyWhenAsked
  BY DEF RunInv
<1> QED BY <1>1, RunInvHolds, PTL
=============================================================================
