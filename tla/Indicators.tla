----------------------------- MODULE Indicators -----------------------------
(***************************************************************************)
(* The "I am on it" signs of a channel: BaseChannel.HandleMessage shows a  *)
(* typing indicator, a reaction and a placeholder message and records how  *)
(* to end them in three sync.Maps of the Manager, keyed by chat; preSend   *)
(* ends them before the reply; the janitor ends what is older than its     *)
(* TTL.  Handlers of different messages, the channel's worker and the      *)
(* janitor run concurrently.                                               *)
(*                                                                         *)
(* An indicator is named by the inbound message it was started for.        *)
(***************************************************************************)
EXTENDS Naturals, Sequences, FiniteSets

CONSTANTS
  Inbound,     \* the inbound messages of one channel (positive numbers)
  ChatOf,      \* ChatOf[m]: the chat of message m, which is the map key
  Capable,     \* which of Kinds the channel implements
  MaxReplies   \* bound on the outbound messages of one agent round

Kinds == {"typing", "reaction", "placeholder"}
Chats == {ChatOf[m] : m \in Inbound}
Nothing == 0

ASSUME IndicatorAssumption == /\ Inbound \subseteq Nat \ {0}
                              /\ Capable \subseteq Kinds
                              /\ MaxReplies \in Nat

VARIABLES
  handler,    \* handler[m]: the step of the HandleMessage call of m
  entry,      \* entry[k][c]: whose indicator the map of kind k holds for chat c
  expired,    \* expired[k]: messages whose entry is older than the TTL
  shown,      \* shown[k]: messages whose indicator is visible to the user
  inbox,      \* inbound messages the agent has not taken yet
  outbox,     \* chats to reply to, with the message replied to: the worker queue
  worker,     \* the step of the worker and the message it replies to
  janitor,    \* the entry the janitor has read and not yet deleted
  answered,   \* history: replies that went out, by the message replied to
  lost        \* history: lost[k], indicators whose entry went without being ended

vars == <<handler, entry, expired, shown, inbox, outbox, worker, janitor, answered, lost>>

NoRead == [kind |-> "none", msg |-> Nothing]

Init ==
  /\ handler = [m \in Inbound |-> "new"]
  /\ entry = [k \in Kinds |-> [c \in Chats |-> Nothing]]
  /\ expired = [k \in Kinds |-> {}]
  /\ shown = [k \in Kinds |-> {}]
  /\ inbox = <<>>
  /\ outbox = <<>>
  /\ worker = [pc |-> "idle", msg |-> Nothing]
  /\ janitor = NoRead
  /\ answered = {}
  /\ lost = [k \in Kinds |-> {}]

-----------------------------------------------------------------------------
(* HandleMessage                                                           *)

NextStep == [new |-> "typing", typing |-> "reaction", reaction |-> "placeholder",
             placeholder |-> "publish"]

\* Mutant of HandleAllowed: the message is published before its indicators are
\* recorded.
HandleAllowedPublishing(m) ==
  /\ handler[m] = "new"
  /\ handler' = [handler EXCEPT ![m] = "typing"]
  /\ inbox' = Append(inbox, m)
  /\ UNCHANGED <<entry, expired, shown, outbox, worker, janitor, answered, lost>>

\* The sender is allowed: the handler goes on to the indicators.
HandleAllowed(m) ==
  /\ handler[m] = "new"
  /\ handler' = [handler EXCEPT ![m] = "typing"]
  /\ UNCHANGED <<entry, expired, shown, inbox, outbox, worker, janitor, answered, lost>>

HandleRefused(m) ==
  /\ handler[m] = "new"
  /\ handler' = [handler EXCEPT ![m] = "done"]
  /\ UNCHANGED <<entry, expired, shown, inbox, outbox, worker, janitor, answered, lost>>

\* StartTyping + RecordTypingStop, ReactToMessage + RecordReactionUndo,
\* SendPlaceholder + RecordPlaceholder: the entry of an earlier message of the
\* chat is overwritten.
HandleIndicate(m, k) ==
  LET c == ChatOf[m]
      before == entry[k][c]
  IN
  /\ handler[m] = k
  /\ k \in Capable
  /\ shown' = [shown EXCEPT ![k] = @ \cup {m}]
  /\ entry' = [entry EXCEPT ![k][c] = m]
  /\ lost' = [lost EXCEPT ![k] = @ \cup ({before} \ {Nothing})]
  /\ handler' = [handler EXCEPT ![m] = NextStep[k]]
  /\ UNCHANGED <<expired, inbox, outbox, worker, janitor, answered>>

\* The channel lacks the capability, has it switched off, or the call failed.
HandleSkip(m, k) ==
  /\ handler[m] = k
  /\ handler' = [handler EXCEPT ![m] = NextStep[k]]
  /\ UNCHANGED <<entry, expired, shown, inbox, outbox, worker, janitor, answered, lost>>

HandlePublish(m) ==
  /\ handler[m] = "publish"
  /\ handler' = [handler EXCEPT ![m] = "done"]
  /\ inbox' = Append(inbox, m)
  /\ UNCHANGED <<entry, expired, shown, outbox, worker, janitor, answered, lost>>

\* PublishInbound failed: logged, and the indicators stay as they are.
HandlePublishFails(m) ==
  /\ handler[m] = "publish"
  /\ handler' = [handler EXCEPT ![m] = "done"]
  /\ UNCHANGED <<entry, expired, shown, inbox, outbox, worker, janitor, answered, lost>>

-----------------------------------------------------------------------------
(* The agent (module AgentRounds): a round publishes some replies, or none.*)

AgentRound(n) ==
  /\ inbox # <<>>
  /\ inbox' = Tail(inbox)
  /\ outbox' = outbox \o [i \in 1..n |-> Head(inbox)]
  /\ UNCHANGED <<handler, entry, expired, shown, worker, janitor, answered, lost>>

-----------------------------------------------------------------------------
(* preSend, called by the worker for each outbound message                 *)

WorkerTake ==
  /\ worker.pc = "idle"
  /\ outbox # <<>>
  /\ outbox' = Tail(outbox)
  /\ worker' = [pc |-> "typing", msg |-> Head(outbox)]
  /\ UNCHANGED <<handler, entry, expired, shown, inbox, janitor, answered, lost>>

\* Mutant of PreSendEnd: the entry is deleted and its function never called.
PreSendForget(k) ==
  /\ worker.pc = k
  /\ k \in {"typing", "reaction"}
  /\ entry' = [entry EXCEPT ![k][ChatOf[worker.msg]] = Nothing]
  /\ worker' = [worker EXCEPT !.pc = NextStep[k]]
  /\ UNCHANGED <<handler, expired, shown, inbox, outbox, janitor, answered, lost>>

\* LoadAndDelete, then stop() or undo() of the entry that was there.
PreSendEnd(k) ==
  LET c == ChatOf[worker.msg] IN
  /\ worker.pc = k
  /\ k \in {"typing", "reaction"}
  /\ shown' = [shown EXCEPT ![k] = @ \ {entry[k][c]}]
  /\ entry' = [entry EXCEPT ![k][c] = Nothing]
  /\ worker' = [worker EXCEPT !.pc = NextStep[k]]
  /\ UNCHANGED <<handler, expired, inbox, outbox, janitor, answered, lost>>

\* The placeholder entry is taken and the message edited: this is the reply.
PreSendEdit ==
  LET c == ChatOf[worker.msg] IN
  /\ worker.pc = "placeholder"
  /\ entry["placeholder"][c] # Nothing
  /\ shown' = [shown EXCEPT !["placeholder"] = @ \ {entry["placeholder"][c]}]
  /\ entry' = [entry EXCEPT !["placeholder"][c] = Nothing]
  /\ answered' = answered \cup {worker.msg}
  /\ worker' = [pc |-> "idle", msg |-> Nothing]
  /\ UNCHANGED <<handler, expired, inbox, outbox, janitor, lost>>

\* No entry, no MessageEditor, or the edit failed: the entry is gone all the
\* same, and the reply is sent as a message of its own.
PreSendSend ==
  LET c == ChatOf[worker.msg]
      before == entry["placeholder"][c]
  IN
  /\ worker.pc = "placeholder"
  /\ entry' = [entry EXCEPT !["placeholder"][c] = Nothing]
  /\ lost' = [lost EXCEPT !["placeholder"] = @ \cup ({before} \ {Nothing})]
  /\ answered' = answered \cup {worker.msg}
  /\ worker' = [pc |-> "idle", msg |-> Nothing]
  /\ UNCHANGED <<handler, expired, shown, inbox, outbox, janitor>>

-----------------------------------------------------------------------------
(* runTTLJanitor                                                           *)

\* Time passes: the entry that is now in the map is older than its TTL.
Age(k, c) ==
  /\ entry[k][c] # Nothing
  /\ expired' = [expired EXCEPT ![k] = @ \cup {entry[k][c]}]
  /\ UNCHANGED <<handler, entry, shown, inbox, outbox, worker, janitor, answered, lost>>

\* Range visits an expired entry.
JanitorRead(k, c) ==
  /\ janitor = NoRead
  /\ entry[k][c] \in expired[k]
  /\ janitor' = [kind |-> k, msg |-> entry[k][c]]
  /\ UNCHANGED <<handler, entry, expired, shown, inbox, outbox, worker, answered, lost>>

\* LoadAndDelete(key) removes whatever is there by now; stop() and undo() are
\* those of the entry Range saw.  A placeholder is forgotten, not edited.
JanitorDelete ==
  LET k == janitor.kind
      c == ChatOf[janitor.msg]
      there == entry[k][c]
  IN
  /\ janitor # NoRead
  /\ entry' = [entry EXCEPT ![k][c] = Nothing]
  /\ IF k # "placeholder" /\ there # Nothing
     THEN /\ shown' = [shown EXCEPT ![k] = @ \ {janitor.msg}]
          /\ lost' = [lost EXCEPT ![k] = @ \cup ({there} \ {janitor.msg})]
     ELSE /\ lost' = [lost EXCEPT ![k] = @ \cup ({there} \ {Nothing})]
          /\ UNCHANGED shown
  /\ janitor' = NoRead
  /\ UNCHANGED <<handler, expired, inbox, outbox, worker, answered>>

-----------------------------------------------------------------------------
Handle(m) ==
  \/ HandleAllowed(m)
  \/ HandleRefused(m)
  \/ \E k \in Kinds : HandleIndicate(m, k) \/ HandleSkip(m, k)
  \/ HandlePublish(m)
  \/ HandlePublishFails(m)

Agent == \E n \in 0..MaxReplies : AgentRound(n)

Worker == \/ WorkerTake
          \/ \E k \in Kinds : PreSendEnd(k)
          \/ PreSendEdit
          \/ PreSendSend

Janitor == (\E k \in Kinds, c \in Chats : JanitorRead(k, c)) \/ JanitorDelete

Next ==
  \/ \E m \in Inbound : Handle(m)
  \/ Agent
  \/ Worker
  \/ \E k \in Kinds, c \in Chats : Age(k, c)
  \/ Janitor

Spec == Init /\ [][Next]_vars

\* Time passes, the janitor's ticker fires, and started handlers, the agent and
\* the worker run.
FairSpec ==
  /\ Spec
  /\ \A m \in Inbound : WF_vars(Handle(m))
  /\ WF_vars(Agent)
  /\ WF_vars(Worker)
  /\ \A k \in Kinds, c \in Chats : /\ WF_vars(Age(k, c))
                                   /\ SF_vars(JanitorRead(k, c))
  /\ WF_vars(JanitorDelete)

-----------------------------------------------------------------------------
(* Properties                                                              *)

TypeOK ==
  /\ handler \in [Inbound -> Kinds \cup {"new", "publish", "done"}]
  /\ entry \in [Kinds -> [Chats -> Inbound \cup {Nothing}]]
  /\ expired \in [Kinds -> SUBSET Inbound]
  /\ shown \in [Kinds -> SUBSET Inbound]
  /\ inbox \in Seq(Inbound)
  /\ outbox \in Seq(Inbound)
  /\ worker \in [pc : Kinds \cup {"idle"}, msg : Inbound \cup {Nothing}]
  /\ janitor \in [kind : Kinds \cup {"none"}, msg : Inbound \cup {Nothing}]
  /\ answered \subseteq Inbound
  /\ lost \in [Kinds -> SUBSET Inbound]
  /\ \A k \in Kinds, c \in Chats : entry[k][c] # Nothing => ChatOf[entry[k][c]] = c

\* Recording comes before publishing, so the first reply to a message finds the
\* indicators of that message: when it has gone out they are over, except for
\* one whose entry another message of the chat or the janitor displaced.
ReplyEndsOwnIndicators ==
  \A k \in {"typing", "reaction"}, m \in answered : m \in shown[k] => m \in lost[k]

\* An indicator still showing can be ended by somebody: it is in the map, or it
\* was displaced.  Nothing removes an entry without running its stop function
\* except an overwrite and the janitor's read-then-delete.
ShownIsReachable ==
  \A k \in {"typing", "reaction"} : \A m \in shown[k] :
    entry[k][ChatOf[m]] = m \/ m \in lost[k]

\* Only another message of the same chat can displace a typing or reaction
\* entry, so a chat that sends one message at a time loses none.
LossNeedsOverlap ==
  \A k \in {"typing", "reaction"} : \A m \in lost[k] :
    \E n \in Inbound \ {m} : ChatOf[n] = ChatOf[m] /\ handler[n] \notin {"new", k}

\* Both: what is shown is in the map, or a second message displaced it.
ShownOrDisplaced == ShownIsReachable /\ LossNeedsOverlap

\* And a message's first reply ends what it shows.
IndicatorsAccounted == ReplyEndsOwnIndicators /\ ShownOrDisplaced

\* preSend and the janitor below it: every indicator that is shown ends, unless
\* its entry was displaced.
ReachableIndicatorEnds ==
  \A k \in {"typing", "reaction"}, m \in Inbound :
    (m \in shown[k]) ~> (m \notin shown[k] \/ m \in lost[k])

\* What README 3.4 promises for typing and reactions ("when the agent finishes
\* processing a message, preSend calls the recorded stop / undo"): no indicator
\* stays for good.
EveryIndicatorEnds ==
  \A k \in {"typing", "reaction"}, m \in Inbound :
    (m \in shown[k]) ~> (m \notin shown[k])

=============================================================================
