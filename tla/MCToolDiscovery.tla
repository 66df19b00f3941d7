-------------------------- MODULE MCToolDiscovery --------------------------
(***************************************************************************)
(* Six tasks: "Open Notepad", "Deliver browser text", "Read package.json",  *)
(* "Open Notepad: results" with the Chinese word, and the Chinese for       *)
(* cleaning up results and for a look at the desktop.                       *)
(***************************************************************************)
EXTENDS ToolDiscovery

Asks(whole, words, intents, opens) ==
    [whole |-> whole, words |-> words, intents |-> intents, opens |-> opens]

MCTasks ==
    {Asks("open_notepad", {"open", "notepad"}, {}, TRUE),
     Asks("deliver_browser_text", {"deliver", "browser", "text"}, {}, FALSE),
     Asks("read_package_json", {"read", "package", "json"}, {"workspace_read"}, FALSE),
     Asks("open_notepad_jieguo", {"open", "notepad", "jieguo"}, {}, TRUE),
     Asks("qingli_jieguo", {"qingli", "jieguo"}, {}, FALSE),
     Asks("look_at_desktop", {}, {"desktop_observe"}, FALSE)}

----------------------------------------------------------------------------
\* What gateways reply: calls of a tool with all of its inputs, or with none, whole or in
\* deltas with or without an index, to the end or not, and JSON in the text.
Mark(t)  == [token |-> t]
Field(k) == [token |-> "field", name |-> k, fits |-> TRUE]
Inputs(n) == <<Mark("{")>> \o SetToSeq({Field(k) : k \in Record[n].required}) \o <<Mark("}")>>
Whole(n) == <<[of |-> n, part |-> "whole"]>>
Half(n, part) == <<[of |-> n, part |-> part]>>

RawCall(name, arguments, flat) == [name |-> name, arguments |-> arguments, flat |-> flat]
Delta(i, name, arguments) ==
    [index |-> i, name |-> name, arguments |-> arguments, flat |-> FALSE]
Chunk(calls_, finish) ==
    [type |-> "chunk", content |-> <<>>, calls |-> calls_, finish |-> finish]
Reply(calls_, content, finish) == [calls |-> calls_, content |-> content, finish |-> finish]
Complete(mode, reply) == [form |-> "message", mode |-> mode, message |-> reply]
Data(event) == [line |-> "data", event |-> event]
Blank == [line |-> "blank"]
Stream(lines) == [form |-> "stream", mode |-> "generic", lines |-> lines]

MCAsked ==
    {"capabilities.search", "tools.search", "skill.desktop.observe", "windows.snapshot",
     "workspace.write_text", "skill.browser.extract_then_transfer"}

CallOf(n) == Reply(<<RawCall(Whole(n), Inputs(n), FALSE)>>, <<>>, "tool_calls")

\* The lines of a streamed call: its name in two deltas, its arguments in two more.
Deltas(n, i) ==
    LET written == Inputs(n)
    IN <<Data(Chunk(<<Delta(i, Half(n, "first"), <<>>)>>, "none")), Blank,
         Data(Chunk(<<Delta(i, Half(n, "second"), <<>>)>>, "none")), Blank,
         Data(Chunk(<<Delta(i, <<>>, <<Head(written)>>)>>, "none")), Blank,
         [line |-> "comment"], Blank,
         Data(Chunk(<<Delta(i, <<>>, Tail(written))>>, "tool_calls"))>>

\* Streams that end after any of their lines or within one, or lack the blank lines.
Streams(n) ==
    LET isData(line) == line.line = "data"
    IN {Stream(SubSeq(Deltas(n, 0), 1, k)) : k \in 0 .. 9}
         \cup {Stream(Deltas(n, NoIndex)), Stream(Deltas(n, 1)),
               Stream(SelectSeq(Deltas(n, 0), isData)),
               Stream(Append(SubSeq(Deltas(n, 0), 1, 8), Data([type |-> "cut"])))}

Written(n) ==
    [token |-> "answer", type |-> "tool_calls",
     calls |-> <<[name |-> n, fields |-> ToSet(SubSeq(Inputs(n), 2, Len(Inputs(n)) - 1))]>>]

\* A search and a call of what it is to find, in one answer.
SearchAndUse ==
    Reply([i \in 1 .. 2 |->
              IF i = 1 THEN CallOf("capabilities.search").calls[1]
              ELSE CallOf("skill.browser.extract_then_transfer").calls[1]], <<>>, "tool_calls")

MCBodies ==
    {Complete("strict", CallOf(n)) : n \in MCAsked} \cup UNION {Streams(n) : n \in MCAsked}
      \cup {Complete(mode, Reply(<<RawCall(Whole("windows.snapshot"), <<>>, TRUE)>>, <<>>,
                                "tool_calls")) : mode \in {"openai", "ollama"}}
      \cup {Complete("strict", Reply(<<>>, <<Mark("prose")>>, finish))
            : finish \in {"stop", "tool_calls"}}
      \cup {Complete("generic", Reply(<<>>, <<Mark("prose"), Written(n)>>, "stop"))
            : n \in MCAsked}
      \cup {Complete("generic", Reply(<<>>, <<[token |-> "answer", type |-> "tool_calls",
                                              calls |-> <<>>]>>, "stop")),
            Complete("generic", SearchAndUse), [form |-> "none"]}

\* A call reads the same whether it is streamed or not.
ASSUME StreamAssumption ==
    \A n \in MCAsked :
        AnswerOf(Stream(Deltas(n, 0))) = AnswerOf(Complete("strict", CallOf(n)))

----------------------------------------------------------------------------
\* The sections of a text: with a window in focus, with windows only, with a tree only.
Button(type, name, place) ==
    [label |-> 1, window |-> "WeChat", type |-> type, name |-> name, place |-> place]

Text(focus, opened, controls, tree) ==
    [form |-> "text", text |-> [focus |-> focus, opened |-> opened, controls |-> controls,
                                tree |-> tree, numbers |-> {"7"}]]

Object(s) == [form |-> "snapshot", snapshot |-> s]

Login == Button("Button", "Login", 1)
Phone == Button("", "Phone", 0)
Page  == [texts |-> <<"Orders">>, described |-> TRUE]

MCReplies ==
    {Text(<<"WeChat">>, <<"name", "WeChat">>, <<Login>>, <<Login>>),
     Text(<<"7">>, <<"WeChat">>, <<>>, <<>>),
     Text(<<>>, <<"no windows found">>, <<Login>>, <<Login, Phone>>),
     Text(<<"WeChat">>, <<>>, <<Phone>>, <<>>),
     Object([Nothing EXCEPT !.details = <<"Login">>, !.recovery = "observe"]),
     Object([Nothing EXCEPT !.windows = <<"WeChat">>, !.titles = <<"WeChat">>]),
     Object([Nothing EXCEPT !.anchors = <<"Login">>, !.page = Page]),
     Object(Nothing), [form |-> "other", names |-> <<"Login">>]}

R(ok, verified, error, class, recovery) ==
    [result |-> [ok |-> ok, verified |-> verified, error |-> error, class |-> class],
     point |-> recovery]

\* Verified; not verified, with something to go back to; timed out; refused.
MCResult ==
    {R(TRUE, "passed", "none", "none", "none"), R(TRUE, "failed", "other", "none", "focus"),
     R(FALSE, "unknown", "timeout", "none", "none"),
     R(FALSE, "unknown", "denied", "none", "none")}
=============================================================================
