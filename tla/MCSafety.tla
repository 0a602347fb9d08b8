--------------------------- MODULE MCSafety ---------------------------
(* Small instances of the parts of the program that keep state, one by one. *)
(* They share nothing, so that a behaviour of this module is a behaviour of *)
(* one of them, chosen by part in the initial state; the variables of the   *)
(* others stay in their initial state, or are 0, in it.                     *)
EXTENDS SessionHistory, Fallback, PromptCache, McpManager, ActiveChannel, Credentials,
  ChannelInbound, ChannelOutbound, SocketServers, SkillFiles

CONSTANTS loop, cron, s1, s2

VARIABLES part, wireHistory, wireDisk, messages, wirePending, wirePc, wireRetry, wireCopy,
  summarizing, total, nextCall, torn, searchClock, entries, order, searchCall, asking, waiting,
  failed

TwoThenOne == [r1 |-> <<"p1", "p2">>, r2 |-> <<"p1">>]
AlikeAndOther == {<<1, 2, 3, 4, 5, 6>>, <<1, 2, 3, 4, 5, 6, 7>>, <<8, 9>>}
ThreeSkills == [hub |-> <<[slug |-> "x", score |-> 2], [slug |-> "y", score |-> 1]>>,
                own |-> <<[slug |-> "z", score |-> 2]>>]
SameAndOther == <<"same", "other">>
BothStored == <<"openai", "google">>

SessionVars == <<history, summary, last, disk, pc, trigger, pending, retry, copy, guard, talk,
  late, excused>>

AnsweringVars == <<now, entry, ctxDone, call, attempts, outcome, barred, lifted, failures>>

PromptVars == <<clock, log, content, mtime, cache, promptPc, todo, built, start>>

McpVars == <<loading, connect, session, gone, servers, runCtx, mcpState, closeErrs, toolCall,
  target>>

ChatVars == <<stateFile, known, saving, beat, beatChat, rounds, crashes, lastUser, saved>>

Wire == INSTANCE PromptMessages WITH
  Rounds <- {"loop", "cron"}, MaxMessages <- 6, MaxCalls <- 2, Nameless <- {3}, Keep <- 2,
  Threshold <- 3, CompressMin <- 2, MaxRetries <- 1, Formats <- {"openai", "codex",
  "antigravity", "anthropic", "cli"}, history <- wireHistory, disk <- wireDisk,
  pending <- wirePending, pc <- wirePc, retry <- wireRetry, copy <- wireCopy
WireVars == <<wireHistory, wireDisk, messages, wirePending, wirePc, wireRetry, wireCopy,
  summarizing, total, nextCall, torn>>

AuthVars == <<file, config, accepted, issued, due, task, sessions, active, ops, redeemed, out,
  lapsed, unsure>>

HandlersVars == <<setup, message, handlers, events, underWay, seen, downloads, acks, published,
  lost, ended, forgotten>>

SenderVars == <<adapter, parts, reply, holding, used, step, tries, pos, errors, shown, givenUp,
  refused, sent>>

SocketsVars == <<kind, running, contextEnded, stopPc, stopTodo, acceptor, listening, loopAt,
  table, closed, left, silent, count, sendPc, owed, visited, stable, taken, attempt, heard>>

Search == INSTANCE SkillSearch WITH
  Calls <- {1, 2}, Queries <- AlikeAndOther, Limits <- {2}, Registries <- {"hub", "own"},
  Offers <- ThreeSkills, MaxConcurrent <- 1, MaxEntries <- 1, TTL <- 1, MaxNow <- 1,
  clock <- searchClock, call <- searchCall
SearchVars == <<searchClock, entries, order, searchCall, asking, waiting, failed>>

SkillVars == <<present, skillFiles, lock, tool, op, met>>

ButSession == <<part, AnsweringVars, PromptVars, McpVars, ChatVars, WireVars, AuthVars,
  HandlersVars, SenderVars, SocketsVars, SearchVars, SkillVars>>
ButAnswering == <<part, SessionVars, PromptVars, McpVars, ChatVars, WireVars, AuthVars,
  HandlersVars, SenderVars, SocketsVars, SearchVars, SkillVars>>
ButPrompt == <<part, SessionVars, AnsweringVars, McpVars, ChatVars, WireVars, AuthVars,
  HandlersVars, SenderVars, SocketsVars, SearchVars, SkillVars>>
ButMcp == <<part, SessionVars, AnsweringVars, PromptVars, ChatVars, WireVars, AuthVars,
  HandlersVars, SenderVars, SocketsVars, SearchVars, SkillVars>>
ButChat == <<part, SessionVars, AnsweringVars, PromptVars, McpVars, WireVars, AuthVars,
  HandlersVars, SenderVars, SocketsVars, SearchVars, SkillVars>>
ButWire == <<part, SessionVars, AnsweringVars, PromptVars, McpVars, ChatVars, AuthVars,
  HandlersVars, SenderVars, SocketsVars, SearchVars, SkillVars>>
ButAuth == <<part, SessionVars, AnsweringVars, PromptVars, McpVars, ChatVars, WireVars,
  HandlersVars, SenderVars, SocketsVars, SearchVars, SkillVars>>
ButHandlers == <<part, SessionVars, AnsweringVars, PromptVars, McpVars, ChatVars, WireVars,
  AuthVars, SenderVars, SocketsVars, SearchVars, SkillVars>>
ButSender == <<part, SessionVars, AnsweringVars, PromptVars, McpVars, ChatVars, WireVars,
  AuthVars, HandlersVars, SocketsVars, SearchVars, SkillVars>>
ButSockets == <<part, SessionVars, AnsweringVars, PromptVars, McpVars, ChatVars, WireVars,
  AuthVars, HandlersVars, SenderVars, SearchVars, SkillVars>>
ButSearch == <<part, SessionVars, AnsweringVars, PromptVars, McpVars, ChatVars, WireVars,
  AuthVars, HandlersVars, SenderVars, SocketsVars, SkillVars>>
ButSkill == <<part, SessionVars, AnsweringVars, PromptVars, McpVars, ChatVars, WireVars,
  AuthVars, HandlersVars, SenderVars, SocketsVars, SearchVars>>

AllVars == <<part, SessionVars, AnsweringVars, PromptVars, McpVars, ChatVars, WireVars,
  AuthVars, HandlersVars, SenderVars, SocketsVars, SearchVars, SkillVars>>

NoWire == wireHistory = 0 /\ wireDisk = 0 /\ messages = 0 /\ wirePending = 0 /\ wirePc = 0 /\
  wireRetry = 0 /\ wireCopy = 0 /\ summarizing = 0 /\ total = 0 /\ nextCall = 0 /\ torn = 0
NoSearch == searchClock = 0 /\ entries = 0 /\ order = 0 /\ searchCall = 0 /\ asking = 0 /\
  waiting = 0 /\ failed = 0

SInit ==
  /\ Init /\ FbInit /\ PcInit /\ McpInit /\ AcInit /\ CrInit /\ InInit /\ OutInit /\ SvInit
  /\ SkInit
  /\ \/ part = "session" /\ NoWire /\ NoSearch
     \/ part = "fallback" /\ NoWire /\ NoSearch
     \/ part = "prompt" /\ NoWire /\ NoSearch
     \/ part = "mcp" /\ NoWire /\ NoSearch
     \/ part = "chat" /\ NoWire /\ NoSearch
     \/ part = "messages" /\ Wire!Init /\ NoSearch
     \/ part = "auth" /\ NoWire /\ NoSearch
     \/ part = "inbound" /\ NoWire /\ NoSearch
     \/ part = "outbound" /\ NoWire /\ NoSearch
     \/ part = "sockets" /\ NoWire /\ NoSearch
     \/ part = "search" /\ Search!Init /\ NoWire
     \/ part = "skill" /\ NoWire /\ NoSearch

SNext ==
  \/ part = "session" /\ Next /\ UNCHANGED ButSession
  \/ part = "fallback" /\ FbNext /\ UNCHANGED ButAnswering
  \/ part = "prompt" /\ PcNext /\ UNCHANGED ButPrompt
  \/ part = "mcp" /\ McpNext /\ UNCHANGED ButMcp
  \/ part = "chat" /\ AcNext /\ UNCHANGED ButChat
  \/ part = "messages" /\ Wire!Next /\ UNCHANGED ButWire
  \/ part = "auth" /\ CrNext /\ UNCHANGED ButAuth
  \/ part = "inbound" /\ InNext /\ UNCHANGED ButHandlers
  \/ part = "outbound" /\ OutNext /\ UNCHANGED ButSender
  \/ part = "sockets" /\ SvNext /\ UNCHANGED ButSockets
  \/ part = "search" /\ Search!Next /\ UNCHANGED ButSearch
  \/ part = "skill" /\ SkNext /\ UNCHANGED ButSkill

SSpec == SInit /\ [][SNext]_AllVars

\* The properties of the parts, each where its part is the one that runs.
RequestsPaired == part = "messages" => Wire!RequestsPaired
SearchSound == part = "search" => Search!SearchSound
=============================================================================
