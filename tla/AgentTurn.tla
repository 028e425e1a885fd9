----------------------------- MODULE AgentTurn -----------------------------
(***************************************************************************)
(* How one chat turn is answered: the agent loop, which lets the model     *)
(* call tools for a few rounds (internal/chat/agent_loop.go, the tools of  *)
(* internal/skills/agent_skills.go), and, when it fails, a streamed answer *)
(* (streamConversationReply of internal/chat/service.go over               *)
(* streamWithProfile of internal/model/runtime.go).                        *)
(*                                                                         *)
(* What the provider answers is chosen: a text, tool calls or an error, and*)
(* in a stream chunks with pieces of text and fragments of tool calls, in  *)
(* any order, until [DONE], the end of the body or an error.  A text is a  *)
(* sequence of characters: "eol" ends a line, "tick" is a back quote.      *)
(***************************************************************************)
EXTENDS Integers, Sequences, FiniteSetsExt, SequencesExt

CONSTANTS
  Tools,          \* the registered tools: [name -> what its handler may return]
  Calls,          \* tool calls the model may make: [id, name, args]
  Chunks,         \* chunks of a stream: [text, calls], a call being a
                  \* fragment [index, id, name, args]
  maxAgentTurns,  \* rounds of tool calls (6 in the code)
  MaxParallel,    \* bound: tool calls of one answer
  MaxChunks       \* bound: chunks of one stream

\* Providers count the tool calls of an answer from zero.
ASSUME TurnAssumption ==
  /\ maxAgentTurns \in Nat /\ MaxParallel \in Nat /\ MaxChunks \in Nat
  /\ \A c \in Chunks :
       /\ c.text \in Seq(Range(c.text))
       /\ c.calls \in Seq(Range(c.calls))
       /\ \A f \in Range(c.calls) : f.index \in Nat /\ f.args \in Seq(Range(f.args))

VARIABLES
  phase,      \* "ask", "tools", "stream", "retry" or "done"
  rounds,     \* rounds of the loop so far
  msgs,       \* the conversation the next request carries
  todo,       \* tool calls of the last answer that are to be executed
  trace,      \* the message's ToolTrace: the tools shown to the user
  stage,      \* the message's stage
  content,    \* the message's text
  received,   \* ledger: the chunks of the stream so far
  text,       \* streamWithProfile: the builder
  partials,   \* streamWithProfile: the tool calls put together so far
  result,     \* ledger: what StreamText returned
  acted       \* ledger: the tools executed and what came of it

turnVars == <<phase, rounds, msgs, todo, trace, stage, content, received, text, partials,
              result, acted>>
streamed == <<received, text, partials, result>>

NoResult == [text |-> <<>>, calls |-> <<>>]

TurnInit ==
  /\ phase = "ask" /\ rounds = 0
  /\ msgs = <<[role |-> "system"], [role |-> "user"]>>
  /\ todo = <<>> /\ trace = <<>> /\ acted = <<>>
  /\ stage = "running" /\ content = <<>>
  /\ received = <<>> /\ text = <<>> /\ partials = <<>> /\ result = NoResult

Respond(c) == phase' = "done" /\ stage' = "responded" /\ content' = c

-----------------------------------------------------------------------------
(***************************************************************************)
(* The agent loop                                                          *)
(***************************************************************************)

\* GenerateText returns a text without tool calls: the answer.
FinalReply ==
  /\ phase = "ask" /\ rounds < maxAgentTurns
  /\ Respond(<<"answer">>)
  /\ UNCHANGED <<rounds, msgs, todo, trace, streamed, acted>>

\* GenerateText returns tool calls.
ToolCalls(cs) ==
  /\ phase = "ask" /\ rounds < maxAgentTurns
  /\ phase' = "tools" /\ rounds' = rounds + 1
  /\ msgs' = Append(msgs, [role |-> "assistant", calls |-> cs])
  /\ todo' = cs
  /\ UNCHANGED <<trace, stage, content, streamed, acted>>

\* The next call is announced ("tool_call").
AnnounceTool ==
  /\ phase = "tools" /\ todo # <<>> /\ stage # "tool_call"
  /\ trace' = Append(trace, [name |-> Head(todo).name, result |-> "pending"])
  /\ stage' = "tool_call" /\ content' = <<"calling">>
  /\ UNCHANGED <<phase, rounds, msgs, todo, streamed, acted>>

\* AgentSkillRegistry.Execute: no such tool and arguments that are no JSON
\* are errors, a panic becomes one; what the handlers return is in Tools.
Execute(call) ==
  IF call.name \notin DOMAIN Tools \/ call.args = "bad" THEN {"error"} ELSE Tools[call.name]

\* Mutant: a tool that fails is left out of the conversation.
ToolResultSkipped(out) ==
  /\ phase = "tools" /\ stage = "tool_call"
  /\ out \in Execute(Head(todo))
  /\ acted' = Append(acted, [name |-> Head(todo).name, result |-> out])
  /\ trace' = [trace EXCEPT ![Len(trace)].result = out]
  /\ msgs' = IF out = "error" THEN msgs
             ELSE Append(msgs, [role |-> "tool", id |-> Head(todo).id, result |-> out])
  /\ todo' = Tail(todo)
  /\ phase' = IF Len(todo) = 1 THEN "ask" ELSE "tools"
  /\ stage' = "tool_result" /\ content' = <<"finished">>
  /\ UNCHANGED <<rounds, streamed>>

\* The call is executed; its result, also an error, goes to the conversation
\* under the call's id and to the last entry of the trace ("tool_result").
ToolResult(out) ==
  /\ phase = "tools" /\ stage = "tool_call"
  /\ out \in Execute(Head(todo))
  /\ acted' = Append(acted, [name |-> Head(todo).name, result |-> out])
  /\ trace' = [trace EXCEPT ![Len(trace)].result = out]
  /\ msgs' = Append(msgs, [role |-> "tool", id |-> Head(todo).id, result |-> out])
  /\ todo' = Tail(todo)
  /\ phase' = IF Len(todo) = 1 THEN "ask" ELSE "tools"
  /\ stage' = "tool_result" /\ content' = <<"finished">>
  /\ UNCHANGED <<rounds, streamed>>

\* The rounds are used up: a fixed text, whatever the last tools returned.
TurnLimit ==
  /\ phase = "ask" /\ rounds = maxAgentTurns
  /\ Respond(<<"limit">>)
  /\ UNCHANGED <<rounds, msgs, todo, trace, streamed, acted>>

\* GenerateText fails or runs into a deadline: composeDirectReply, which
\* knows nothing of the tools that were executed.
LoopFails ==
  /\ phase = "ask" /\ rounds < maxAgentTurns
  /\ phase' = "stream"
  /\ UNCHANGED <<rounds, msgs, todo, trace, stage, content, streamed, acted>>

-----------------------------------------------------------------------------
(***************************************************************************)
(* The streamed answer                                                     *)
(***************************************************************************)

White == {" ", "eol"}

Trim(s) ==
  LET solid == {i \in DOMAIN s : s[i] \notin White}
  IN  IF solid = {} THEN <<>> ELSE SubSeq(s, Min(solid), Max(solid))

\* The Markdown marks that are taken out, one kind after the other.
Marks == << <<"tick", "tick", "tick">>, <<"*", "*">>, <<"_", "_">>, <<"tick">>,
            <<"#", "#", "#", " ">>, <<"#", "#", " ">>, <<"#", " ">> >>

Without(s, mark) ==
  LET n == Len(mark)
      from[i \in 1..(Len(s) + 1)] ==
        IF i > Len(s) THEN <<>>
        ELSE IF i + n - 1 <= Len(s) /\ SubSeq(s, i, i + n - 1) = mark THEN from[i + n]
        ELSE <<s[i]>> \o from[i + 1]
  IN  from[1]

\* Place i begins a list item: nothing but white space before it in its line,
\* a blank after it and then something else.
Item(s, i) ==
  /\ s[i] \in {"*", "-"} /\ i < Len(s) /\ s[i + 1] = " "
  /\ \A j \in 1..(i - 1) : s[j] \in White \/ \E k \in j..(i - 1) : s[k] = "eol"
  /\ \E j \in (i + 2)..Len(s) : s[j] \notin White /\ \A k \in i..j : s[k] # "eol"

\* What is shown of a text: without marks, and with bullets for list items.
normalizeAssistantText(s) ==
  LET plain == FoldLeft(Without, s, Marks)
  IN  Trim([i \in DOMAIN plain |-> IF Item(plain, i) THEN "bullet" ELSE plain[i]])

NoToolCall == [id |-> "", name |-> "", args |-> <<>>]

\* Mutant: each fragment is a call of its own.
AccumulateAppend(ps, f) == Append(ps, [id |-> f.id, name |-> f.name, args |-> f.args])

\* A fragment of a tool call: the list grows up to its index, an id or a name
\* that is there replaces, arguments are appended.
Accumulate(ps, f) ==
  LET grown == [i \in 1..Max({Len(ps), f.index + 1}) |->
                  IF i <= Len(ps) THEN ps[i] ELSE NoToolCall]
  IN  [grown EXCEPT ![f.index + 1] =
         [id |-> IF f.id = "" THEN @.id ELSE f.id,
          name |-> IF f.name = "" THEN @.name ELSE f.name,
          args |-> @.args \o f.args]]

\* The fragments of a chunk, one after the other.
AccumulateAll(ps, fs) ==
  LET upTo[k \in 0..Len(fs)] == IF k = 0 THEN ps ELSE Accumulate(upTo[k - 1], fs[k])
  IN  upTo[Len(fs)]

\* Mutant: every piece is normalised for itself.
GatheredNormal(t, c) == t \o normalizeAssistantText(c.text)

\* The builder with the text of a chunk.
Gathered(t, c) == t \o c.text

\* A chunk: its tool calls first, then its text; a text goes on to the
\* message when the last update is long enough ago (flush).
Receive(c, flush) ==
  /\ phase = "stream" /\ Len(received) < MaxChunks
  /\ received' = Append(received, c)
  /\ partials' = AccumulateAll(partials, c.calls)
  /\ text' = Gathered(text, c)
  /\ LET current == normalizeAssistantText(Trim(text'))
     IN  IF flush /\ c.text # <<>> /\ current # <<>>
         THEN content' = current /\ stage' = "running"
         ELSE UNCHANGED <<content, stage>>
  /\ UNCHANGED <<phase, rounds, msgs, todo, trace, result, acted>>

\* [DONE], or the body ends, which is not told apart.  Without text and calls
\* it is an error.  What is to be shown of the text is the answer; if that is
\* nothing, GenerateText is asked.
StreamEnds ==
  /\ phase = "stream"
  /\ Trim(text) # <<>> \/ partials # <<>>
  /\ result' = [text |-> Trim(text), calls |-> partials]
  /\ LET answer == normalizeAssistantText(Trim(text))
     IN  IF answer # <<>> THEN Respond(answer)
         ELSE phase' = "retry" /\ UNCHANGED <<stage, content>>
  /\ UNCHANGED <<rounds, msgs, todo, trace, received, text, partials, acted>>

\* Nothing was streamed, a chunk is an error or no JSON, the body cannot be
\* read on, the deadline passes, or the message cannot be saved.
StreamFails ==
  /\ phase = "stream"
  /\ phase' = "retry"
  /\ UNCHANGED <<rounds, msgs, todo, trace, stage, content, streamed, acted>>

\* GenerateText for the whole answer, or a message that says what failed.
RetryAnswers ==
  /\ phase = "retry"
  /\ \E t \in {"answer", "failure"} : Respond(<<t>>)
  /\ UNCHANGED <<rounds, msgs, todo, trace, streamed, acted>>

TurnNext ==
  \/ FinalReply \/ TurnLimit \/ LoopFails
  \/ \E n \in 1..MaxParallel : \E cs \in [1..n -> Calls] : ToolCalls(cs)
  \/ AnnounceTool
  \/ \E out \in {"text", "error"} : ToolResult(out)
  \/ \E c \in Chunks, flush \in BOOLEAN : Receive(c, flush)
  \/ StreamEnds \/ StreamFails \/ RetryAnswers

-----------------------------------------------------------------------------
(***************************************************************************)
(* Properties                                                              *)
(***************************************************************************)

\* The types of conversation, message and stream.
TurnTypeOK ==
  /\ phase \in {"ask", "tools", "stream", "retry", "done"}
  /\ rounds \in 0..maxAgentTurns
  /\ stage \in {"running", "tool_call", "tool_result", "responded"}
  /\ \A i \in DOMAIN msgs : msgs[i].role \in {"system", "user", "assistant", "tool"}
  /\ \A i \in DOMAIN partials : DOMAIN partials[i] = {"id", "name", "args"}
  /\ Len(received) <= MaxChunks

Assistant(i) == msgs[i].role = "assistant"
ToolMessages == {i \in DOMAIN msgs : msgs[i].role = "tool"}

\* Every request is a conversation the provider accepts: each tool call of
\* each answer is followed, in order and before anything else, by one tool
\* message with its id, whatever became of the tool; and the results in it
\* are those of the tools that were executed, in order.
ConversationWellFormed ==
  phase = "ask" =>
    /\ \A i \in DOMAIN msgs : Assistant(i) =>
         \A k \in DOMAIN msgs[i].calls :
           /\ i + k \in DOMAIN msgs
           /\ msgs[i + k].role = "tool" /\ msgs[i + k].id = msgs[i].calls[k].id
    /\ Cardinality(ToolMessages) = Len(acted)
    /\ \A i \in ToolMessages :
         msgs[i].result = acted[Cardinality({j \in ToolMessages : j <= i})].result

\* Between two tools, and in the final message, the tools shown to the user
\* are those that were executed, each with its own result; also when the loop
\* failed later on and the answer came from elsewhere.
TraceHonest == phase # "tools" => trace = acted

\* The provider and the user are told the same of the tools, what happened:
\* ConversationWellFormed and TraceHonest, over states of the right types.
ToolsHonest == TurnTypeOK /\ ConversationWellFormed /\ TraceHonest

\* The text that was sent, and the fragments of tool calls; of these the
\* arguments for an index, and the last id or name that is not empty.
SentText == FlattenSeq([k \in DOMAIN received |-> received[k].text])
Fragments == FlattenSeq([k \in DOMAIN received |-> received[k].calls])
ArgsOf(fs, i) == FlattenSeq([n \in DOMAIN fs |-> IF fs[n].index = i THEN fs[n].args ELSE <<>>])
IdsOf(fs, i) == [n \in DOMAIN fs |-> IF fs[n].index = i THEN fs[n].id ELSE ""]
NamesOf(fs, i) == [n \in DOMAIN fs |-> IF fs[n].index = i THEN fs[n].name ELSE ""]
LastSaid(s) ==
  LET said == {n \in DOMAIN s : s[n] # ""} IN IF said = {} THEN "" ELSE s[Max(said)]

\* What StreamText returns is what the provider sent, however it was cut into
\* chunks: the whole text in order but for white space at its ends, and
\* for each index the last id and name and all arguments in order.
StreamWhole ==
  result # NoResult =>
    /\ result.text = Trim(SentText)
    /\ \A i \in DOMAIN result.calls :
         /\ result.calls[i].args = ArgsOf(Fragments, i - 1)
         /\ result.calls[i].id = LastSaid(IdsOf(Fragments, i - 1))
         /\ result.calls[i].name = LastSaid(NamesOf(Fragments, i - 1))
    /\ \A n \in DOMAIN Fragments : Fragments[n].index + 1 \in DOMAIN result.calls

\* While an answer is streamed its message shows an initial part of the text
\* that was sent, as it would be shown if that were all: marks that are cut by
\* the end of a chunk are put together again (streamConversationReply).
PartialIsPrefix ==
  phase = "stream" /\ stage = "running" /\ content # <<>> =>
    \E sent \in Prefixes(SentText) : content = normalizeAssistantText(Trim(sent))

\* And the message that stays shows the whole of it, if there is anything to
\* show.
AnswerIsWhole ==
  result # NoResult /\ normalizeAssistantText(Trim(SentText)) # <<>> =>
    phase = "done" /\ content = normalizeAssistantText(Trim(SentText))

\* A streamed answer is what was sent, while it comes and in the end:
\* PartialIsPrefix, AnswerIsWhole and StreamWhole.
StreamFaithful == PartialIsPrefix /\ AnswerIsWhole /\ StreamWhole
=============================================================================
