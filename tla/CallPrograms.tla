---------------------------- MODULE CallPrograms ----------------------------
(***************************************************************************)
(* The form in which the tools of WindowsTools.ts and the capabilities of   *)
(* BuiltinCapabilities.ts are written down: each is a program, a function   *)
(* from labels to steps.  A step names a call, the window the call is       *)
(* about, and for each answer of the call the label that follows.           *)
(*                                                                          *)
(* An answer is what the caller's next branch can depend on:                *)
(*   "no"      the call reports ok = false;                                 *)
(*   "ok"      it reports ok = true, but its data lacks what the caller     *)
(*             looks for (the window is not among those observed, there is  *)
(*             no text, no label, it is not verified);                      *)
(*   "yes"     ok = true, and the data has it;                              *)
(*   "thrown"  the call to the desktop server throws.                       *)
(* A label that is an answer ends the program with that answer.  A throw    *)
(* ends a tool or a capability with "no": the runtime, or createCapability- *)
(* Tool, catches it and reports a failed result.                            *)
(***************************************************************************)
Answer == {"no", "ok", "yes", "thrown"}

\* A step is about one of these, about the window its program was called for, "it", or
\* about the one the route chose, "selected".
Window == {"browser", "editor", "chat", "primary", "secondary"}

Step(call, window, next) == [call |-> call, window |-> window, next |-> next]

Call(call, window, no, ok, yes, thrown) ==
    Step(call, window, [no |-> no, ok |-> ok, yes |-> yes, thrown |-> thrown])

\* The result of the call is not looked at.
Then(call, window, label) == Call(call, window, label, label, label, label)

\* The call has to be ok.
Need(call, window, label, otherwise) ==
    Call(call, window, otherwise, label, label, otherwise)

\* The call has to be ok and its data has to show what is looked for.
Seen(call, window, label, otherwise) ==
    Call(call, window, otherwise, otherwise, label, otherwise)

\* A program put together from two parts (TLC's own operator for it is unknown to the
\* provers).
f ++ g == [label \in DOMAIN f \cup DOMAIN g |-> IF label \in DOMAIN f THEN f[label] ELSE g[label]]

\* The program answers what the call answers.
Relay(call, window) == Call(call, window, "no", "ok", "yes", "no")
=============================================================================
