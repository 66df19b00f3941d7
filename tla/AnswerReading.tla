--------------------------- MODULE AnswerReading ---------------------------
(***************************************************************************)
(* OpenAICompatibleModelClient of ModelClient.ts: what it makes of the body *)
(* of a chat completion, whole or streamed, and which calls it lets pass.   *)
(*                                                                          *)
(* A text is a sequence of tokens: braces, fields of an object, prose, and, *)
(* in a message, a whole object that answers in JSON.  A name is written in *)
(* one part or two.  The encoding of names that have dots is undone exactly *)
(* when the parts fit together, so it is left out.                          *)
(***************************************************************************)
EXTENDS Catalogue, FiniteSetsExt, SequencesExt

Lenient == {"generic", "ollama"}        \* the modes that read calls of a flat shape
NoIndex == -1

Final == [type |-> "final", calls |-> <<>>]
Error == [type |-> "error", calls |-> <<>>]

\* Calls that are in the message itself ("tool_calls"), or written in its content.
ToolCalls(type, calls) == [type |-> type, calls |-> calls]

----------------------------------------------------------------------------
\* parseJsonObject, from the first brace to the last; what is around it is ignored.
Unreadable == [ok |-> FALSE, fields |-> {}]

JsonObject(text) ==
    LET places(t) == {i \in DOMAIN text : text[i].token = t}
        inside    == SubSeq(text, Min(places("{")) + 1, Max(places("}")) - 1)
        whole     == /\ places("{") # {} /\ places("}") # {}
                     /\ Min(places("{")) < Max(places("}"))
                     /\ \A i \in DOMAIN inside : inside[i].token = "field"
    IN IF whole THEN [ok |-> TRUE, fields |-> ToSet(inside)] ELSE Unreadable

\* parseMaybeJsonObject: a call without arguments has an empty object of them.
Arguments(text) == IF text = <<>> THEN [ok |-> TRUE, fields |-> {}] ELSE JsonObject(text)

\* The name that the parts spell: two that do not fit spell the name of no tool.
Spelled(name) ==
    IF Len(name) = 1 /\ name[1].part = "whole" THEN name[1].of
    ELSE IF Len(name) = 2 /\ name[1].part = "first" /\ name[2].part = "second"
            /\ name[1].of = name[2].of
         THEN name[1].of
    ELSE ""

\* validateToolInput and matchesSchemaType, against the tools of the context.
Passes(call, catalogue) ==
    /\ call.name \in catalogue
    /\ Record[call.name].required \subseteq {f.name : f \in call.fields}
    /\ \A f \in call.fields : f.fits

----------------------------------------------------------------------------
\* extractAssistantContent and the JSON answers of gateways that know no tools: one that
\* cannot be read is prose.
ContentAnswer(content) ==
    LET isAnswer(t) == t.token = "answer"
        answers     == SelectSeq(content, isAnswer)
    IN IF Len(answers) = 1 /\ answers[1].type = "tool_calls" THEN ToolCalls("content", answers[1].calls)
       ELSE Final

\* normalizeToolCalls and validateOpenAIToolCall, for a call of a message.
CallIn(call) ==
    [name |-> Spelled(call.name), fields |-> Arguments(call.arguments).fields]

\* getNormalizedToolName.
Named(call, mode) == call.name # <<>> /\ (call.flat => mode \in Lenient)

\* parseModelResponse.  Calls are numbered as they are in the message; a number without
\* a call passes here and makes the engine throw when it goes through the calls.
MessageAnswer(message, mode) ==
    LET calls == message.calls
    IN IF calls = <<>>
       THEN IF mode = "strict" /\ message.finish = "tool_calls" THEN Error
            ELSE ContentAnswer(message.content)
       ELSE IF /\ \E n \in DOMAIN calls : DOMAIN calls = 1 .. n
               /\ \A i \in DOMAIN calls : Named(calls[i], mode) /\ Arguments(calls[i].arguments).ok
            THEN ToolCalls("tool_calls", [i \in DOMAIN calls |-> CallIn(calls[i])])
       ELSE Error

----------------------------------------------------------------------------
\* mergeStreamingChunk: the deltas of a call have its index; one without an index is a
\* call of its own.  A name or arguments outside "function" are not read.
MergedCall(calls, delta) ==
    LET next    == IF calls = <<>> THEN 1 ELSE Max(DOMAIN calls) + 1
        index   == IF delta.index = NoIndex THEN next ELSE delta.index + 1
        current == IF index \in DOMAIN calls THEN calls[index]
                   ELSE [name |-> <<>>, arguments |-> <<>>, flat |-> FALSE]
        more    == [current EXCEPT !.name = @ \o delta.name,
                                   !.arguments = @ \o delta.arguments]
    IN (index :> IF delta.flat THEN current ELSE more) @@ calls

MergedEvent(message, event) ==
    IF event.type # "chunk" THEN message
    ELSE [content |-> message.content \o event.content,
          calls   |-> FoldLeft(MergedCall, message.calls, event.calls),
          finish  |-> IF event.finish = "none" THEN message.finish ELSE event.finish]

\* drainSseEvents and extractSseData: an event ends with a blank line, and the last one
\* with the body.  One without data says nothing; data that is cut off, or that of several
\* lines, cannot be parsed.
Events(lines) ==
    LET grouped(groups, line) ==
            IF line.line = "blank" THEN Append(groups, <<>>)
            ELSE Append(Front(groups), Append(Last(groups), line))
        groups == FoldLeft(grouped, <<<<>>>>, lines)
        isData(line) == line.line = "data"
        event(group) ==
            LET data == SelectSeq(group, isData)
            IN IF data = <<>> THEN [type |-> "nothing"]
               ELSE IF Len(data) = 1 THEN data[1].event
               ELSE [type |-> "cut"]
    IN [i \in DOMAIN groups |-> event(groups[i])]

\* finalizeStreamingAccumulator.
StreamedMessage(events) ==
    FoldLeft(MergedEvent, [content |-> <<>>, calls |-> <<>>, finish |-> "none"], events)

\* readStreamingChatCompletion.  The end of the body is the end of the answer, whatever
\* has arrived: neither [DONE] nor a finish_reason is asked for.
StreamAnswer(lines, mode) ==
    IF \E i \in DOMAIN Events(lines) : Events(lines)[i].type \in {"error", "cut"} THEN Error
    ELSE MessageAnswer(StreamedMessage(Events(lines)), mode)

\* executeRequest and readResponsePayload.  A request that is refused or not answered is
\* sent again while there are retries, and then it has failed.
AnswerOf(body) ==
    CASE body.form = "stream"  -> StreamAnswer(body.lines, body.mode)
      [] body.form = "message" -> MessageAnswer(body.message, body.mode)
      [] OTHER                 -> Error

\* What becomes of an answer in a context: a call that does not pass is an error, and
\* when it is written in the content, the content is the final answer.
InContext(answer, catalogue) ==
    IF \A i \in DOMAIN answer.calls : Passes(answer.calls[i], catalogue) THEN answer
    ELSE IF answer.type = "content" THEN Final
    ELSE Error
=============================================================================
