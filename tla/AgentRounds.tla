---------------------------- MODULE AgentRounds ----------------------------
(***************************************************************************)
(* pkg/agent/loop.go with pkg/tools/message.go: what one agent round sends *)
(* to whom.  Run takes inbound messages one at a time; cron jobs and       *)
(* heartbeats run rounds of their own on other goroutines.  Every agent    *)
(* has one MessageTool, whose default target and sentInRound flag are      *)
(* plain fields that each round, and each tool call, overwrites.  Run      *)
(* publishes the round's response unless the flag of the default agent's   *)
(* tool says that something was sent.  The gateway shuts down by ending    *)
(* Run's context and then closing the bus; what is published after that is *)
(* refused, and the rounds do not look at the error.                       *)
(*                                                                         *)
(* Sessions and their histories are module SessionHistory.                 *)
(***************************************************************************)
EXTENDS Naturals, Sequences, FiniteSets

CONSTANTS
  Agents,        \* the agents of the registry
  DefaultAgent,  \* registry.GetDefaultAgent()
  Chats,         \* "channel:chatID" pairs outside the internal channels
  Internal,      \* a chat of an internal channel, which nobody reads
  Named,         \* chats the LLM names in a message tool call
  Inbound,       \* messages on the bus: commands, chat and system messages
  Direct,        \* rounds started by the cron and heartbeat goroutines
  MayCompress,   \* whether LLM calls fail for the size of the context
  MaxIterations  \* MaxIterations[a]: agent.MaxIterations

\* A message knows its chat and the agent ResolveRoute picks for it.
Message(kinds) == [id : Nat, kind : kinds, chat : Chats \cup {Internal}, agent : Agents]

ASSUME RoundsAssumption ==
  /\ DefaultAgent \in Agents
  /\ Internal \notin Chats
  /\ Named \subseteq Chats
  /\ Inbound \subseteq Message({"command", "chat", "system"})
  /\ Direct \subseteq Message({"cron", "heartbeat"})
  /\ \A m \in Inbound \cup Direct :
       m.kind \in {"system", "heartbeat"} => m.agent = DefaultAgent
  /\ MayCompress \in BOOLEAN
  /\ MaxIterations \in [Agents -> Nat \ {0}]

NoMessage == [id |-> 0, kind |-> "none", chat |-> Internal, agent |-> DefaultAgent]

\* The goroutine of Run; the others are named by the round they make.
Loop == [NoMessage EXCEPT !.kind = "loop"]
Threads == {Loop} \cup Direct
Idle == [pc |-> "idle", msg |-> NoMessage, iter |-> 0, target |-> Internal]

VARIABLES
  inbox,     \* inbound messages the bus holds
  round,     \* round[t]: the step of goroutine t, its message and iteration
  toolChat,  \* toolChat[a]: defaultChannel and defaultChatID of a's MessageTool
  toolSent,  \* toolSent[a]: its sentInRound
  outbox,    \* what was published: to which chat, for which message, by what
  shutdown,  \* how far the gateway's shutdown is: Run's context ends, the bus closes
  verdict,   \* history: how the round of a message ended
  lastCall,  \* history: how its last message tool call ended
  disturbed  \* history: the rounds another one has taken the tool from

vars == <<inbox, round, toolChat, toolSent, outbox, shutdown, verdict, lastCall, disturbed>>

Init ==
  /\ inbox = <<>>
  /\ round = [t \in Threads |-> IF t = Loop THEN Idle
                                ELSE [Idle EXCEPT !.pc = "waiting", !.msg = t]]
  /\ toolChat = [a \in Agents |-> Internal]
  /\ toolSent = [a \in Agents |-> FALSE]
  /\ outbox = {}
  /\ shutdown = "running"
  /\ disturbed = {}
  /\ verdict = [m \in Inbound \cup Direct |-> "none"]
  /\ lastCall = [m \in Inbound \cup Direct |-> "none"]

Goto(t, pc) == round' = [round EXCEPT ![t].pc = pc]
Emit(t, chat, via) ==
  outbox' = outbox \cup {[to |-> chat, for |-> round[t].msg, via |-> via]}

\* PublishOutbound with the round's context, which for the rounds of the cron and
\* heartbeat goroutines never ends.  Its error is ignored.
CanPublish(t) == IF t = Loop THEN shutdown = "running" ELSE shutdown # "closed"
Publish(t, chat, via) ==
  IF CanPublish(t) THEN Emit(t, chat, via) ELSE UNCHANGED outbox

\* Goroutine t writes a field of its agent's tool while other rounds of this agent
\* are between their own SetContext and their end.
InRound(t) == round[t].pc \in {"llm", "execute", "mark", "publish"}
Disturb(t) ==
  disturbed' = disturbed \cup
    {round[u].msg : u \in {v \in Threads \ {t} :
                             InRound(v) /\ round[v].msg.agent = round[t].msg.agent}}

\* Mutant of SetContext: the flag is reset and the target is not.
SetContextFlagOnly(a, chat) ==
  /\ toolSent' = [toolSent EXCEPT ![a] = FALSE]
  /\ UNCHANGED toolChat

\* MessageTool.SetContext
SetContext(a, chat) ==
  /\ toolChat' = [toolChat EXCEPT ![a] = chat]
  /\ toolSent' = [toolSent EXCEPT ![a] = FALSE]

-----------------------------------------------------------------------------
(* Run and processMessage                                                  *)

Arrived == {inbox[i] : i \in DOMAIN inbox} \cup {m \in Inbound : verdict[m] # "none"}
           \cup {round[Loop].msg}

Arrive(m) ==
  /\ m \notin Arrived
  /\ shutdown # "closed"
  /\ inbox' = Append(inbox, m)
  /\ UNCHANGED <<round, toolChat, toolSent, outbox, shutdown, verdict, lastCall, disturbed>>

\* The gateway shuts down: cancel, then Close, which throws away what the bus holds.
ContextEnds ==
  /\ shutdown = "running"
  /\ shutdown' = "cancelled"
  /\ UNCHANGED <<inbox, round, toolChat, toolSent, outbox, verdict, lastCall, disturbed>>

BusCloses ==
  /\ shutdown = "cancelled"
  /\ shutdown' = "closed"
  /\ inbox' = <<>>
  /\ UNCHANGED <<round, toolChat, toolSent, outbox, verdict, lastCall, disturbed>>

\* A command has its response at once; a system message from an internal
\* channel has none; the others go to an agent.  The select of ConsumeInbound may
\* still take a message when the context has ended.
LoopTake ==
  LET m == Head(inbox) IN
  /\ round[Loop].pc = "idle"
  /\ inbox # <<>>
  /\ inbox' = Tail(inbox)
  /\ IF m.kind = "system" /\ m.chat = Internal
     THEN /\ verdict' = [verdict EXCEPT ![m] = "silent"]
          /\ UNCHANGED round
     ELSE /\ round' = [round EXCEPT ![Loop] =
                        [Idle EXCEPT !.msg = m,
                                     !.pc = IF m.kind = "command" THEN "publish" ELSE "start"]]
          /\ UNCHANGED verdict
  /\ UNCHANGED <<toolChat, toolSent, outbox, shutdown, lastCall, disturbed>>

\* Run publishes the response or the error text to msg.Channel, which for a
\* system message is the internal channel "system", unless the default agent's
\* message tool has sent in this round.
LoopPublish ==
  LET m == round[Loop].msg IN
  /\ round[Loop].pc = "publish"
  /\ IF toolSent[DefaultAgent]
     THEN /\ verdict' = [verdict EXCEPT ![m] = "skipped"]
          /\ UNCHANGED outbox
     ELSE /\ verdict' = [verdict EXCEPT ![m] =
                          IF CanPublish(Loop) THEN "answered" ELSE "unsent"]
          /\ Publish(Loop, IF m.kind = "system" THEN Internal ELSE m.chat, "response")
  /\ round' = [round EXCEPT ![Loop] = Idle]
  /\ UNCHANGED <<inbox, toolChat, toolSent, shutdown, lastCall, disturbed>>

\* The context has ended: Run returns between two rounds.
LoopStop ==
  /\ round[Loop].pc = "idle"
  /\ shutdown # "running"
  /\ Goto(Loop, "stopped")
  /\ UNCHANGED <<inbox, toolChat, toolSent, outbox, shutdown, verdict, lastCall, disturbed>>

\* ProcessDirectWithChannel for a job with deliver=false, ProcessHeartbeat.
DirectStart(t) ==
  /\ t \in Direct
  /\ round[t].pc = "waiting"
  /\ Goto(t, "start")
  /\ UNCHANGED <<inbox, toolChat, toolSent, outbox, shutdown, verdict, lastCall, disturbed>>

-----------------------------------------------------------------------------
(* runAgentLoop and runLLMIteration                                        *)

\* SetContext in processMessage and again in updateToolContexts.
RoundStart(t) ==
  LET m == round[t].msg IN
  /\ round[t].pc = "start"
  /\ SetContext(m.agent, m.chat)
  /\ Disturb(t)
  /\ Goto(t, "llm")
  /\ UNCHANGED <<inbox, outbox, shutdown, verdict, lastCall>>

\* The LLM answers without tool calls, or the iterations are used up; an empty
\* answer becomes the default response.  A system round sends it itself.
RoundAnswer(t) ==
  LET m == round[t].msg IN
  /\ round[t].pc = "llm"
  /\ Goto(t, "publish")
  /\ IF m.kind = "system" THEN Publish(t, m.chat, "response") ELSE UNCHANGED outbox
  /\ UNCHANGED <<inbox, toolChat, toolSent, shutdown, verdict, lastCall, disturbed>>

\* The round is at an LLM call: its iterations are not used up.
Calling(t) ==
  /\ round[t].pc = "llm"
  /\ round[t].iter < MaxIterations[round[t].msg.agent]

\* The LLM call fails after its retries.
RoundError(t) ==
  /\ Calling(t)
  /\ Goto(t, "publish")
  /\ UNCHANGED <<inbox, toolChat, toolSent, outbox, shutdown, verdict, lastCall, disturbed>>

\* A context window error: the user is told before the retry.
RoundCompress(t) ==
  LET m == round[t].msg IN
  /\ MayCompress
  /\ Calling(t)
  /\ m.chat # Internal
  /\ Publish(t, m.chat, "notice")
  /\ UNCHANGED <<inbox, round, toolChat, toolSent, shutdown, verdict, lastCall, disturbed>>

\* Mutant of CallOther: the iteration is not counted.
CallOtherUncounted(t) ==
  LET m == round[t].msg IN
  /\ Calling(t)
  /\ round' = [round EXCEPT ![t].target = IF @ = Internal THEN m.chat ELSE Internal]
  /\ UNCHANGED <<inbox, toolChat, toolSent, outbox, shutdown, verdict, lastCall, disturbed>>

\* A call of another tool.  A system round sends its ForUser content.
CallOther(t) ==
  LET m == round[t].msg IN
  /\ Calling(t)
  /\ round' = [round EXCEPT ![t].iter = @ + 1]
  /\ \/ UNCHANGED outbox
     \/ m.kind = "system" /\ Publish(t, m.chat, "result")
  /\ UNCHANGED <<inbox, toolChat, toolSent, shutdown, verdict, lastCall, disturbed>>

\* ExecuteWithContext of the message tool: SetContext, then Execute.  The call
\* names a chat, or leaves it to the tool's default (target Internal).
CallMessage(t) ==
  LET m == round[t].msg IN
  /\ Calling(t)
  /\ SetContext(m.agent, m.chat)
  /\ Disturb(t)
  /\ \E c \in Named \cup {Internal} :
       round' = [round EXCEPT ![t].pc = "execute", ![t].iter = @ + 1, ![t].target = c]
  /\ UNCHANGED <<inbox, outbox, shutdown, verdict, lastCall>>

\* Execute resolves the target and publishes, with a context of its own: it gives
\* up after five seconds, or when the bus is closed.
MessageSend(t) ==
  LET m == round[t].msg
      own == round[t].target = Internal
  IN
  /\ round[t].pc = "execute"
  /\ shutdown # "closed"
  /\ Goto(t, "mark")
  /\ Emit(t, IF own THEN toolChat[m.agent] ELSE round[t].target,
             IF own THEN "tool" ELSE "explicit")
  /\ UNCHANGED <<inbox, toolChat, toolSent, shutdown, verdict, lastCall, disturbed>>

\* Mutant of MessageFails: a call that failed counts as sent.
MessageFailsMarked(t) ==
  /\ round[t].pc = "execute"
  /\ toolSent' = [toolSent EXCEPT ![round[t].msg.agent] = TRUE]
  /\ lastCall' = [lastCall EXCEPT ![round[t].msg] = "failed"]
  /\ Disturb(t)
  /\ Goto(t, "llm")
  /\ UNCHANGED <<inbox, toolChat, outbox, shutdown, verdict>>

MessageFails(t) ==
  /\ round[t].pc = "execute"
  /\ Goto(t, "llm")
  /\ lastCall' = [lastCall EXCEPT ![round[t].msg] = "failed"]
  /\ UNCHANGED <<inbox, toolChat, toolSent, outbox, shutdown, verdict, disturbed>>

MessageMark(t) ==
  /\ round[t].pc = "mark"
  /\ toolSent' = [toolSent EXCEPT ![round[t].msg.agent] = TRUE]
  /\ lastCall' = [lastCall EXCEPT ![round[t].msg] = "sent"]
  /\ Disturb(t)
  /\ Goto(t, "llm")
  /\ UNCHANGED <<inbox, toolChat, outbox, shutdown, verdict>>

\* The caller of a direct round throws the response away.
DirectEnd(t) ==
  /\ t \in Direct
  /\ round[t].pc = "publish"
  /\ verdict' = [verdict EXCEPT ![t] = "discarded"]
  /\ Goto(t, "stopped")
  /\ UNCHANGED <<inbox, toolChat, toolSent, outbox, shutdown, lastCall, disturbed>>

-----------------------------------------------------------------------------
Step(t) == \/ RoundStart(t)
           \/ RoundAnswer(t)
           \/ RoundError(t)
           \/ RoundCompress(t)
           \/ CallOther(t)
           \/ CallMessage(t)
           \/ MessageSend(t)
           \/ MessageFails(t)
           \/ MessageMark(t)
           \/ DirectEnd(t)

Next ==
  \/ \E m \in Inbound : Arrive(m)
  \/ ContextEnds
  \/ BusCloses
  \/ LoopTake
  \/ LoopPublish
  \/ LoopStop
  \/ \E t \in Direct : DirectStart(t)
  \/ \E t \in Threads : Step(t)

Spec == Init /\ [][Next]_vars

\* Started goroutines run.  A compression retry is taken at most twice per LLM
\* call, so it does not count as progress.
FairSpec ==
  /\ Spec
  /\ WF_vars(LoopTake)
  /\ WF_vars(LoopPublish)
  /\ WF_vars(LoopStop)
  /\ \A t \in Threads : WF_vars(Step(t) /\ round' # round)

-----------------------------------------------------------------------------
(* Properties                                                              *)

Verdicts == {"none", "silent", "skipped", "answered", "unsent", "discarded"}
Pcs == {"idle", "waiting", "start", "llm", "execute", "mark", "publish", "stopped"}

TypeOK ==
  /\ inbox \in Seq(Inbound)
  /\ round \in [Threads -> [pc : Pcs, msg : Inbound \cup Direct \cup {NoMessage},
                            iter : Nat, target : Chats \cup {Internal}]]
  /\ \A t \in Threads : round[t].iter <= MaxIterations[round[t].msg.agent]
  /\ toolChat \in [Agents -> Chats \cup {Internal}]
  /\ toolSent \in [Agents -> BOOLEAN]
  /\ outbox \subseteq [to : Chats \cup {Internal}, for : Inbound \cup Direct,
                       via : {"response", "notice", "result", "tool", "explicit"}]
  /\ shutdown \in {"running", "cancelled", "closed"}
  /\ verdict \in [Inbound \cup Direct -> Verdicts]
  /\ lastCall \in [Inbound \cup Direct -> {"none", "sent", "failed"}]
  /\ disturbed \subseteq Inbound \cup Direct

\* For a chat message of the default agent whose round had the tool to itself, the
\* response is withheld exactly when the round's last message tool call went
\* through: a flag of an earlier round or an earlier call decides nothing.
SkipFollowsLastCall ==
  \A m \in Inbound \ disturbed : m.kind = "chat" /\ m.agent = DefaultAgent =>
    /\ verdict[m] = "skipped" => lastCall[m] = "sent"
    /\ verdict[m] \in {"answered", "unsent"} => lastCall[m] # "sent"

\* What the comment in processMessage says ("so we don't skip publishing due to
\* a previous round"), for every message that comes to Run.
NoSkipByEarlierRound ==
  \A m \in Inbound : verdict[m] = "skipped" => lastCall[m] = "sent"

\* What the comment in Run says: the check against the default agent's tool
\* avoids duplicates for every agent ("message tool is shared").
NoDuplicateAnswer ==
  \A m \in Inbound : m.kind = "chat" /\ lastCall[m] = "sent" => verdict[m] # "answered"

\* A message tool call without a target goes to the chat its round is about, which
\* is what "the current message context" (pkg/tools/base.go) says.
DefaultTargetIsOwnChat == \A d \in outbox : d.via = "tool" => d.to = d.for.chat

\* It does for as long as no other round of the agent has used the tool meanwhile.
UndisturbedTargets ==
  \A d \in outbox : d.via = "tool" /\ d.for \notin disturbed => d.to = d.for.chat

\* What ExecuteJob's comment says: the response of a deliver=false job is sent.
CronResponseSent ==
  \A t \in Direct : t.kind = "cron" /\ verdict[t] = "discarded" =>
    \E d \in outbox : d.for = t

\* Whoever wrote gets something, or the message tool has sent something: a finished
\* round of the default agent leaves a trace outside.  Two cases are left: its
\* response was refused because the gateway is shutting down, and it was withheld
\* for what another round has sent with the same tool.
NoRoundVanishes ==
  \A m \in Inbound : m.kind = "chat" /\ m.agent = DefaultAgent /\ verdict[m] # "none" =>
    \/ \E d \in outbox : d.for = m /\ d.via # "notice"
    \/ verdict[m] = "unsent" /\ shutdown # "running"
    \/ verdict[m] = "skipped" /\ m \in disturbed

\* Both: the user is answered once, by the response or by the tool.
VerdictsSound == SkipFollowsLastCall /\ NoRoundVanishes

\* Every message that arrives is finished, unless Run has returned: the
\* iterations of a round are bounded whatever the LLM asks for.
EveryRoundEnds ==
  \A m \in Inbound : (m \in Arrived) ~> (verdict[m] # "none" \/ round[Loop].pc = "stopped")

=============================================================================
