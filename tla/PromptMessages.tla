-------------------------- MODULE PromptMessages --------------------------
(***************************************************************************)
(* Tool calls and their results on the way to a model: rounds of           *)
(* pkg/agent/loop.go build a request from the session's history            *)
(* (pkg/agent/context.go), extend it call by call, and every provider of   *)
(* pkg/providers turns it into a wire format of its own.  A provider       *)
(* refuses a request in which a call has no result right after it, or a    *)
(* result no call.                                                         *)
(*                                                                         *)
(* A message is its role, its calls and the call it answers.  A call is    *)
(* its id and which fields of ToolCall hold its name: Name (lost in the    *)
(* session file, json:"-") and Function.Name.  Texts are left out, and     *)
(* Save is one step (SessionHistory has its two).                          *)
(***************************************************************************)
EXTENDS Naturals, Sequences, SequencesExt

CONSTANTS
  Rounds,       \* goroutines that run rounds on the session
  MaxMessages,  \* bound on the messages of a behaviour
  MaxCalls,     \* bound on the tool calls of one response
  Nameless,     \* ids of the calls that the model sends without a name
  Keep,         \* messages that summarizeSession keeps (4)
  Threshold,    \* history length that triggers it (20)
  CompressMin,  \* history length that forceCompression leaves alone (4)
  MaxRetries,   \* compressions per LLM call (2)
  Formats       \* wire formats the requests are sent in

VARIABLES
  history,      \* session.Messages
  disk,         \* the messages of the session file
  messages,     \* messages[r]: the request r sends next
  pending,      \* pending[r]: calls of r's last response still to execute
  pc,           \* pc[r]: idle, llm, tools or compressing
  retry,        \* retry[r]: compressions made for its LLM call
  copy,         \* copy[r]: the history forceCompression has read
  summarizing,  \* a goroutine of summarizeSession is at work
  total,        \* messages added so far
  nextCall,     \* id of the next tool call
  torn          \* history: a call and its results were separated, by two rounds
                \* that overlapped or by a restart in the middle of a round

vars == <<history, disk, messages, pending, pc, retry, copy, summarizing, total,
          nextCall, torn>>

-----------------------------------------------------------------------------
(* Calls and messages                                                      *)

Call(id, name, fn) == [id |-> id, name |-> name, fn |-> fn]
Message(role, calls, answers) == [role |-> role, calls |-> calls, answers |-> answers]
User == Message("user", <<>>, 0)
Answer == Message("assistant", <<>>, 0)
Result(id) == Message("tool", <<>>, id)

Named(id) == id \notin Nameless

\* What each response parser makes of a call: the API formats fill Name only,
\* Antigravity and the command line providers fill Name and Function.
ParsedOpenAI(id) == Call(id, Named(id), FALSE)
ParsedAnthropic(id) == Call(id, Named(id), FALSE)
ParsedCodex(id) == Call(id, Named(id), FALSE)
ParsedAntigravity(id) == Call(id, Named(id), Named(id))
ParsedText(id) == Call(id, Named(id), Named(id))

Parsed(format, id) ==
  CASE format = "openai" -> ParsedOpenAI(id)
    [] format = "codex" -> ParsedCodex(id)
    [] format = "antigravity" -> ParsedAntigravity(id)
    [] format = "anthropic" -> ParsedAnthropic(id)
    [] OTHER -> ParsedText(id)

\* NormalizeToolCall: whichever name is there is put in both places.
Normalized(c) == Call(c.id, c.name \/ c.fn, c.name \/ c.fn)

\* The assistant message runLLMIteration appends and stores.
CallMessage(format, ids) ==
  Message("assistant", [i \in DOMAIN ids |-> Normalized(Parsed(format, ids[i]))], 0)

\* The session file after loadSessions: Name is not in the JSON.
Reloaded(h) ==
  [i \in DOMAIN h |-> [h[i] EXCEPT !.calls =
                         [k \in DOMAIN @ |-> Call(@[k].id, FALSE, @[k].fn)]]]

Calls(m) == m.role = "assistant" /\ m.calls # <<>>

-----------------------------------------------------------------------------
(* sanitizeHistoryForProvider                                              *)

\* Mutant of FollowsCalls: only the message before is looked at.
FollowsCallsDirectly(kept) == kept # <<>> /\ Calls(kept[Len(kept)])

\* The nearest message of kept that is no tool result asks for calls.
FollowsCalls(kept) ==
  \E i \in DOMAIN kept :
    /\ Calls(kept[i])
    /\ \A j \in i + 1..Len(kept) : kept[j].role = "tool"

MayFollow(kept, m) ==
  CASE m.role = "tool" -> FollowsCalls(kept)
    [] Calls(m) -> kept # <<>> /\ kept[Len(kept)].role \in {"user", "tool"}
    [] OTHER -> TRUE

Sanitized(h) ==
  LET step(kept, m) == IF MayFollow(kept, m) THEN Append(kept, m) ELSE kept
  IN FoldLeft(step, <<>>, h)

\* BuildMessages; the system message, always one and always first, is left out.
Built(h, current) == Sanitized(h) \o current

-----------------------------------------------------------------------------
(* Wire formats: the items a provider sends, in order                      *)

Item(kind, id, named) == [kind |-> kind, id |-> id, named |-> named]
Text == Item("text", 0, TRUE)
ResultItem(m) == <<Item("result", m.answers, TRUE)>>

\* The fields as they are in the JSON: function.name.
OpenAIItems(m) ==
  CASE Calls(m) -> [k \in DOMAIN m.calls |-> Item("call", m.calls[k].id, m.calls[k].fn)]
    [] m.role = "tool" -> ResultItem(m)
    [] OTHER -> <<Text>>

\* resolveCodexToolCall, and normalizeStoredToolCall for Antigravity: Name, or
\* else Function.Name.
CodexName(c) == c.name \/ c.fn

NamedCalls(m) == SelectSeq(m.calls, CodexName)

\* A call without a name is skipped; its result is not.
CodexItems(m) ==
  CASE Calls(m) -> [k \in DOMAIN NamedCalls(m) |-> Item("call", NamedCalls(m)[k].id, TRUE)]
    [] m.role = "tool" -> ResultItem(m)
    [] OTHER -> <<Text>>

\* resolveToolResponseName: a result carries the name of its call, found among
\* the named calls before it, in place of the id.
KnownBefore(ms, i) ==
  \E j \in 1..i - 1 : \E k \in DOMAIN ms[j].calls :
    ms[j].calls[k].id = ms[i].answers /\ CodexName(ms[j].calls[k])

AntigravityItems(ms, i) ==
  IF ms[i].role = "tool"
  THEN <<Item("result", ms[i].answers, KnownBefore(ms, i))>>
  ELSE CodexItems(ms[i])

\* Name only, as it is in memory.
AnthropicItems(m) ==
  CASE Calls(m) -> [k \in DOMAIN m.calls |-> Item("call", m.calls[k].id, m.calls[k].name)]
    [] m.role = "tool" -> ResultItem(m)
    [] OTHER -> <<Text>>

\* The command line providers send one text in which calls do not occur and a
\* result is a line of its own.
CliItems(m) == <<Text>>

Items(format, ms, i) ==
  CASE format = "openai" -> OpenAIItems(ms[i])
    [] format = "codex" -> CodexItems(ms[i])
    [] format = "antigravity" -> AntigravityItems(ms, i)
    [] format = "anthropic" -> AnthropicItems(ms[i])
    [] OTHER -> CliItems(ms[i])

Wire(format, ms) == FlattenSeq([i \in DOMAIN ms |-> Items(format, ms, i)])

-----------------------------------------------------------------------------
Init ==
  /\ history = <<>> /\ disk = <<>>
  /\ messages = [r \in Rounds |-> <<>>]
  /\ pending = [r \in Rounds |-> <<>>]
  /\ pc = [r \in Rounds |-> "idle"]
  /\ retry = [r \in Rounds |-> 0]
  /\ copy = [r \in Rounds |-> <<>>]
  /\ summarizing = FALSE
  /\ total = 0 /\ nextCall = 1
  /\ torn = FALSE

\* r reads or writes the session while another round is between a response and
\* its last tool result, or between reading and writing the history.
Tears(r) == \E o \in Rounds \ {r} : pc[o] \in {"tools", "compressing"}

\* AddMessage, AddFullMessage.
Add(r, m) ==
  /\ total < MaxMessages
  /\ total' = total + 1
  /\ history' = Append(history, m)
  /\ torn' = (torn \/ Tears(r))

\* runAgentLoop: the request is built before the user message is stored.
RoundBegin(r) ==
  /\ pc[r] = "idle"
  /\ messages' = [messages EXCEPT ![r] = Built(history, <<User>>)]
  /\ Add(r, User)
  /\ pc' = [pc EXCEPT ![r] = "llm"]
  /\ UNCHANGED <<disk, pending, retry, copy, summarizing, nextCall>>

\* A response with tool calls: appended to the request and to the session.
RoundCalls(r) ==
  /\ pc[r] = "llm"
  /\ \E n \in 1..MaxCalls, format \in Formats :
       LET ids == [i \in 1..n |-> nextCall + i - 1]
           m == CallMessage(format, ids)
       IN /\ messages' = [messages EXCEPT ![r] = Append(@, m)]
          /\ Add(r, m)
          /\ pending' = [pending EXCEPT ![r] = ids]
          /\ nextCall' = nextCall + n
  /\ pc' = [pc EXCEPT ![r] = "tools"]
  /\ retry' = [retry EXCEPT ![r] = 0]
  /\ UNCHANGED <<disk, copy, summarizing>>

\* The next call is executed, whatever it returns.
RoundResult(r) ==
  /\ pc[r] = "tools"
  /\ messages' = [messages EXCEPT ![r] = Append(@, Result(Head(pending[r])))]
  /\ Add(r, Result(Head(pending[r])))
  /\ pending' = [pending EXCEPT ![r] = Tail(@)]
  /\ pc' = [pc EXCEPT ![r] = IF Len(pending[r]) = 1 THEN "llm" ELSE "tools"]
  /\ UNCHANGED <<disk, retry, copy, summarizing, nextCall>>

\* The answer, or the default one when the iterations are used up: stored and
\* saved, and a summary begins when the history is long and none is under way.
RoundAnswer(r) ==
  /\ pc[r] = "llm"
  /\ Add(r, Answer)
  /\ disk' = history'
  /\ summarizing' = (summarizing \/ Len(history') > Threshold)
  /\ pc' = [pc EXCEPT ![r] = "idle"]
  /\ messages' = [messages EXCEPT ![r] = <<>>]
  /\ retry' = [retry EXCEPT ![r] = 0]
  /\ UNCHANGED <<pending, copy, nextCall>>

\* The LLM call fails: the round ends and saves nothing.
RoundFails(r) ==
  /\ pc[r] = "llm"
  /\ pc' = [pc EXCEPT ![r] = "idle"]
  /\ messages' = [messages EXCEPT ![r] = <<>>]
  /\ retry' = [retry EXCEPT ![r] = 0]
  /\ UNCHANGED <<history, disk, pending, copy, summarizing, total, nextCall, torn>>

\* forceCompression: the first message, the second half of what lies between,
\* the last message.
Compressed(h) ==
  LET between == SubSeq(h, 2, Len(h) - 1)
      mid == Len(between) \div 2
  IN <<h[1]>> \o SubSeq(between, mid + 1, Len(between)) \o <<h[Len(h)]>>

\* A context error: forceCompression reads the history; a short one is left.
CompressRead(r) ==
  /\ pc[r] = "llm" /\ retry[r] < MaxRetries
  /\ copy' = [copy EXCEPT ![r] = IF Len(history) <= CompressMin THEN <<>>
                                 ELSE Compressed(history)]
  /\ retry' = [retry EXCEPT ![r] = @ + 1]
  /\ pc' = [pc EXCEPT ![r] = "compressing"]
  /\ UNCHANGED <<history, disk, messages, pending, summarizing, total, nextCall, torn>>

\* It writes and saves it, and the request is built again without a user message.
CompressWrite(r) ==
  /\ pc[r] = "compressing"
  /\ IF copy[r] = <<>> THEN UNCHANGED <<history, disk>>
     ELSE /\ history' = copy[r]
          /\ disk' = copy[r]
  /\ torn' = (torn \/ Tears(r))
  /\ messages' = [messages EXCEPT ![r] = Built(history', <<>>)]
  /\ copy' = [copy EXCEPT ![r] = <<>>]
  /\ pc' = [pc EXCEPT ![r] = "llm"]
  /\ UNCHANGED <<pending, retry, summarizing, total, nextCall>>

\* summarizeSession truncates and saves, at any point of the rounds that run, or
\* its LLM call fails and it changes nothing.
SummaryEnds ==
  /\ summarizing
  /\ summarizing' = FALSE
  /\ \/ UNCHANGED <<history, disk>>
     \/ /\ history' = IF Len(history) <= Keep THEN history
                      ELSE SubSeq(history, Len(history) - Keep + 1, Len(history))
        /\ disk' = history'
  /\ UNCHANGED <<messages, pending, pc, retry, copy, total, nextCall, torn>>

\* The file was saved while a call of it was still without its result.
Open(h) == \E i \in DOMAIN h :
             /\ Calls(h[i])
             /\ \A j \in i + 1..Len(h) : h[j].role = "tool"
             /\ Len(h) - i < Len(h[i].calls)

Restart ==
  /\ history' = Reloaded(disk)
  /\ torn' = (torn \/ Open(disk))
  /\ disk' = Reloaded(disk)
  /\ messages' = [r \in Rounds |-> <<>>]
  /\ pending' = [r \in Rounds |-> <<>>]
  /\ pc' = [r \in Rounds |-> "idle"]
  /\ retry' = [r \in Rounds |-> 0]
  /\ copy' = [r \in Rounds |-> <<>>]
  /\ summarizing' = FALSE
  /\ UNCHANGED <<total, nextCall>>

Next ==
  \/ \E r \in Rounds : \/ RoundBegin(r) \/ RoundCalls(r) \/ RoundResult(r)
                       \/ RoundAnswer(r) \/ RoundFails(r)
                       \/ CompressRead(r) \/ CompressWrite(r)
  \/ SummaryEnds
  \/ Restart

Spec == Init /\ [][Next]_vars

-----------------------------------------------------------------------------
(* Properties                                                              *)

\* The items after i that are results, up to the next other item but a call of
\* the same response.
AnsweredAt(w, i, j) ==
  /\ i < j
  /\ w[j].kind = "result" /\ w[j].id = w[i].id
  /\ \E k \in i..j - 1 : /\ \A n \in i..k : w[n].kind = "call"
                         /\ \A n \in k + 1..j : w[n].kind = "result"

\* Calls come in groups, each directly followed by the results of its calls and
\* by no other.
PairedItems(w) ==
  /\ \A i \in DOMAIN w : w[i].kind = "call" =>
       \E j \in DOMAIN w : AnsweredAt(w, i, j)
  /\ \A j \in DOMAIN w : w[j].kind = "result" =>
       \E i \in DOMAIN w : w[i].kind = "call" /\ AnsweredAt(w, i, j)

NamedItems(w) == \A i \in DOMAIN w : w[i].named

\* The request has a call that was read from the session file, where Name is lost.
FromFile(ms) == \E i \in DOMAIN ms : \E k \in DOMAIN ms[i].calls : ~ms[i].calls[k].name

NamesGiven(ms) == \A i \in DOMAIN ms : \A k \in DOMAIN ms[i].calls :
                    ms[i].calls[k].id \notin Nameless

\* Whatever compressions, truncations at any point of a round and restarts cut
\* off the history, every request of every wire format pairs calls and results
\* and names the calls; except after two rounds tore a call from its results,
\* after a restart from a file saved in the middle of a round, and in requests
\* with a call the model itself sent without a name.  Anthropic's format pairs
\* them like the others, but leaves calls read from the file without a name.
RequestsPaired ==
  \A r \in Rounds : pc[r] = "llm" /\ ~torn /\ NamesGiven(messages[r]) =>
    \A format \in Formats :
      /\ PairedItems(Wire(format, messages[r]))
      /\ \/ NamedItems(Wire(format, messages[r]))
         \/ format = "anthropic" /\ FromFile(messages[r])

=============================================================================
