--------------------------- MODULE ChannelInbound ---------------------------
(***************************************************************************)
(* From a platform's event to the message bus: what the handlers of the    *)
(* channel adapters (pkg/channels/...) do with a message before it is      *)
(* published, and with its attachments.  A handler is a sequence of stages, *)
(* each of which may drop the message; the sequences differ in their order, *)
(* and the properties are about that order.  The same platform message may *)
(* lead to several events: a platform that sees no answer delivers it      *)
(* again, and Slack reports a mention twice.                               *)
(***************************************************************************)
EXTENDS Naturals, Sequences, FiniteSets

CONSTANTS
  InboundAdapters,  \* the handlers looked at
  MaxDeliveries     \* bound on how often a platform delivers one event

VARIABLES
  setup,      \* [trigger, listed, known]: group trigger; is there an allow list;
              \* does the bot know its own name
  message,    \* the message
  handlers,   \* the handlers its events are for
  events,     \* events[h]: deliveries of the event to handler h so far
  underWay,   \* handler executions under way
  seen,       \* has the deduplicator of the channel seen the message
  downloads,  \* attachments downloaded and not handed on
  acks,       \* is the message the one a reply in its chat refers to
  published,  \* published[h]: messages on the bus
  lost,       \* the handlers that could not publish
  ended,      \* has the bus been closed, or the channel's context ended
  forgotten   \* how often the deduplicator has forgotten the message

inVars == <<setup, message, handlers, events, underWay, seen, downloads, acks, published,
            lost, ended, forgotten>>

-----------------------------------------------------------------------------
(* The handlers                                                            *)

\* Mutant of Telegram: attachments are fetched before the allow list is looked at.
TelegramEager == <<"download", "allow", "fill", "trigger", "handle">>

Telegram == <<"allow", "download", "fill", "trigger", "handle">>

Discord == <<"self", "allow", "strip", "trigger", "download", "blank", "handle">>

SlackMessage == <<"self", "allow", "ack", "strip", "trigger", "download", "blank", "handle">>

SlackMention == <<"self", "allow", "ack", "strip", "blank", "handle">>

SlackCommand == <<"allow", "fill", "handle">>

Line == <<"verify", "ack", "download", "stripGroup", "blank", "trigger", "allow", "handle">>

WeComBot == <<"verify", "once", "trigger", "allow", "handle">>

WeComApp == <<"verify", "once", "handle">>

QQDirect == <<"once", "blank", "allow", "handle">>

QQGroup == <<"once", "blank", "trigger", "allow", "handle">>

DingTalk == <<"blank", "ack", "trigger", "allow", "handle">>

Feishu == <<"fill", "trigger", "allow", "handle">>

MaixCam == <<"allow", "handle">>

WhatsApp == <<"allow", "handle">>

WhatsAppNative == <<"blank", "allow", "handle">>

Pico == <<"blank", "allow", "handle">>

Stages == [telegram |-> Telegram, discord |-> Discord, slack |-> SlackMessage,
           slackMention |-> SlackMention, slackCommand |-> SlackCommand, line |-> Line,
           wecom |-> WeComBot, wecomApp |-> WeComApp, qq |-> QQDirect, qqGroup |-> QQGroup,
           dingtalk |-> DingTalk, feishu |-> Feishu, maixcam |-> MaixCam,
           whatsapp |-> WhatsApp, whatsappNative |-> WhatsAppNative, pico |-> Pico]

ASSUME InboundAssumption == InboundAdapters \subseteq DOMAIN Stages /\ MaxDeliveries \in Nat

\* Adapters that fetch attachments; the others pass URLs or nothing.
Downloading == {"telegram", "discord", "slack", "line"}

\* Adapters that are told what the account itself says, and look at it; WhatsApp's native
\* client hears what the owner writes on another device, and takes it for a message.
Asking == {"discord", "slack", "slackMention"}
Mirroring == {"whatsappNative"}

Attachments(h) == IF h \in Downloading /\ message.files THEN 1 ELSE 0

\* isBotMentioned of LINE, with the bot's id and name from fetchBotInfo.
MentionedOnLine(m) == \/ m.mention = "all"
                      \/ m.mention = "bot" /\ setup.known

\* isBotMentioned of Telegram: the entities are compared with the bot's user name.
MentionedOnTelegram(m) == setup.known /\ m.mention = "bot"

\* Discord lists who is mentioned; a GroupAT event of QQ always mentions the bot; the
\* others pass FALSE.
Mentioned(h, m) ==
  CASE h = "line" -> MentionedOnLine(m)
    [] h = "telegram" -> MentionedOnTelegram(m)
    [] h = "discord" -> m.mention = "bot"
    [] h = "qqGroup" -> TRUE
    [] OTHER -> FALSE

\* ShouldRespondInGroup
Responds(mentioned, text) ==
  CASE mentioned -> TRUE
    [] ~mentioned /\ setup.trigger = "mention_only" -> FALSE
    [] ~mentioned /\ setup.trigger = "prefixes" -> text = "prefixed"
    [] OTHER -> TRUE

\* IsAllowedSender, IsAllowed: without a list everybody is.
Allowed == setup.listed => message.listed

-----------------------------------------------------------------------------
(* Messages and their events                                               *)

Texts == {"empty", "plain", "prefixed"}

PlatformMessages ==
  [genuine : BOOLEAN, own : BOOLEAN, listed : BOOLEAN, group : BOOLEAN, files : BOOLEAN,
   mention : {"none", "bot", "all"}, text : Texts]

\* What Slack reports: a mention is a message and an app mention.
HandlersFor(h, m) ==
  IF h = "slack" /\ m.group /\ m.mention = "bot" THEN {"slack", "slackMention"} ELSE {h}

\* Which of the handlers a message can be meant for.
Possible(h, m) ==
  /\ h \in {"qq", "maixcam", "slackCommand", "wecomApp", "pico"} => ~m.group
  /\ h = "qqGroup" => m.group
  /\ h = "slackMention" => m.group /\ m.mention = "bot"
  /\ ~m.genuine => h \in {"line", "wecom", "wecomApp"}
  /\ m.own => h \in Asking \cup Mirroring
  /\ h = "line" /\ m.files => m.text = "empty" /\ m.mention = "none"
  /\ ~m.group => m.mention = "none"

NoMessage == [genuine |-> FALSE, own |-> FALSE, listed |-> FALSE, group |-> FALSE,
              files |-> FALSE, mention |-> "none", text |-> "empty"]

InInit ==
  /\ setup = [trigger |-> "none", listed |-> FALSE, known |-> FALSE]
  /\ message = NoMessage /\ handlers = {} /\ events = <<>> /\ underWay = {}
  /\ seen = FALSE /\ downloads = 0 /\ acks = FALSE /\ published = <<>>
  /\ lost = {} /\ ended = FALSE /\ forgotten = 0

\* What makes no difference to a message is not varied.
Plain(h, m, s) ==
  /\ ~m.group => s.trigger = "none"
  /\ h \notin {"line", "telegram"} => ~s.known
  /\ ~s.listed => m.listed
  /\ h \notin Downloading => ~m.files

\* A channel has been configured, and somebody writes the message.
Arrive(h, m) ==
  /\ Possible(h, m)
  /\ setup' \in [trigger : {"none", "mention_only", "prefixes"}, listed : BOOLEAN,
                 known : BOOLEAN]
  /\ Plain(h, m, setup')
  /\ message' = m
  /\ handlers' = HandlersFor(h, m)
  /\ events' = [x \in handlers' |-> 0]
  /\ published' = [x \in handlers' |-> 0]
  /\ UNCHANGED <<underWay, seen, downloads, acks, lost, ended, forgotten>>

\* The gateway shuts down: the channels' contexts end, the bus is closed.
Shutdown ==
  /\ handlers # {} /\ ~ended
  /\ ended' = TRUE
  /\ UNCHANGED <<setup, message, handlers, events, underWay, seen, downloads, acks, published,
                 lost, forgotten>>

\* So many messages have come since that the deduplicator drops this one's id: WeCom's
\* ring is full, or QQ deletes any half of a map at its limit.
Forget ==
  /\ seen
  /\ seen' = FALSE /\ forgotten' = forgotten + 1
  /\ UNCHANGED <<setup, message, handlers, events, underWay, downloads, acks, published, lost,
                 ended>>

\* A run of handler h: its stage and the content so far.  While a mention is in the
\* text it is not empty.
Run(h, n, stage, text, marked, files) ==
  [handler |-> h, n |-> n, stage |-> stage, text |-> text, marked |-> marked,
   files |-> files]

Deliver(h) ==
  /\ events[h] < MaxDeliveries
  /\ events' = [events EXCEPT ![h] = @ + 1]
  /\ underWay' = underWay \cup
                   {Run(h, events'[h], 1, message.text, message.mention # "none", 0)}
  /\ UNCHANGED <<setup, message, handlers, seen, downloads, acks, published, lost, ended,
                 forgotten>>

StageOf(r) == Stages[r.handler][r.stage]
Wordless(r) == r.text = "empty" /\ ~r.marked /\ r.files = 0

\* The run with another content.
Content(r, text, marked, files) == Run(r.handler, r.n, r.stage, text, marked, files)

Advance(r, to) ==
  underWay' = (underWay \ {r}) \cup
                {Run(to.handler, to.n, to.stage + 1, to.text, to.marked, to.files)}

\* What was downloaded for a dropped message stays in the store.
Drop(r) == underWay' = underWay \ {r} /\ UNCHANGED <<seen, downloads, acks, published>>

PassOrDrop(r, passes, to) ==
  IF passes THEN Advance(r, to) /\ UNCHANGED <<seen, downloads, acks, published>>
  ELSE Drop(r)

\* A webhook's signature is checked before anything else.
Verify(r) == StageOf(r) = "verify" /\ PassOrDrop(r, message.genuine, r)

\* The bot's own messages, and those who may not talk to it.
Self(r) == StageOf(r) = "self" /\ PassOrDrop(r, ~message.own, r)

Allow(r) == StageOf(r) = "allow" /\ PassOrDrop(r, Allowed, r)

\* A message of an id that is remembered is not looked at again.
OnlyOnce(r) ==
  /\ StageOf(r) = "once"
  /\ IF seen THEN Drop(r)
     ELSE Advance(r, r) /\ seen' = TRUE /\ UNCHANGED <<downloads, acks, published>>

\* The reply token, the session webhook or the message that will get the check mark.
Ack(r) ==
  /\ StageOf(r) = "ack"
  /\ acks' = TRUE
  /\ Advance(r, r)
  /\ UNCHANGED <<seen, downloads, published>>

\* A download may fail; what has been fetched is named in the content.  Discord names
\* what it could not fetch by its URL.
Fetched(r, n) ==
  Content(r, IF r.handler = "discord" /\ message.files /\ r.text = "empty" THEN "plain"
             ELSE r.text, r.marked, n)

Download(r) ==
  /\ StageOf(r) = "download"
  /\ \E n \in 0..Attachments(r.handler) :
       /\ downloads' = downloads + n
       /\ Advance(r, Fetched(r, n))
  /\ UNCHANGED <<seen, acks, published>>

Stripped(r) ==
  LET gone == message.mention = "bot" /\ (r.handler = "line" => setup.known)
  IN  Content(r, r.text, r.marked /\ ~gone, r.files)

Strip(r) ==
  /\ StageOf(r) \in {"strip", "stripGroup"}
  /\ PassOrDrop(r, TRUE, IF StageOf(r) = "strip" \/ message.group THEN Stripped(r) ELSE r)

\* An empty message is dropped, or gets a text that says so ("help" for a command).
Blank(r) == StageOf(r) = "blank" /\ PassOrDrop(r, ~Wordless(r), r)

Filled(r) == Content(r, "plain", r.marked, r.files)

Fill(r) ==
  /\ StageOf(r) = "fill"
  /\ PassOrDrop(r, TRUE, IF Wordless(r) THEN Filled(r) ELSE r)

\* The prefix goes with the trigger, and so does the mention on Telegram.
Trigger(r) ==
  LET mentioned == Mentioned(r.handler, message)
      text == IF r.marked /\ ~mentioned THEN "plain" ELSE r.text
      cleaned == IF mentioned /\ r.handler = "telegram" THEN Stripped(r)
                 ELSE IF ~mentioned /\ setup.trigger = "prefixes"
                 THEN Filled(r) ELSE r IN
  /\ StageOf(r) = "trigger"
  /\ IF message.group THEN PassOrDrop(r, Responds(mentioned, text), cleaned)
     ELSE PassOrDrop(r, TRUE, r)

\* PublishInbound puts the message on the bus.  It fails once the bus is closed or the
\* context has ended; that is logged, and the message is gone.
HandOver(r) ==
  \/ /\ published' = [published EXCEPT ![r.handler] = @ + 1]
     /\ downloads' = downloads - r.files
     /\ UNCHANGED lost
  \/ /\ ended
     /\ lost' = lost \cup {r.handler}
     /\ UNCHANGED <<published, downloads>>

\* HandleMessage looks at the allow list again.
HandleMessage(r) ==
  /\ StageOf(r) = "handle"
  /\ underWay' = underWay \ {r}
  /\ IF Allowed THEN HandOver(r) ELSE UNCHANGED <<published, downloads, lost>>
  /\ UNCHANGED <<seen, acks>>

Look(r) ==
  \/ Verify(r) \/ Self(r) \/ Allow(r) \/ OnlyOnce(r) \/ Ack(r) \/ Download(r) \/ Strip(r)
  \/ Blank(r) \/ Fill(r) \/ Trigger(r)

Step(r) ==
  /\ (Look(r) /\ UNCHANGED lost) \/ HandleMessage(r)
  /\ UNCHANGED <<setup, message, handlers, events, ended, forgotten>>

InNext ==
  \/ handlers = {} /\ \E h \in InboundAdapters : \E m \in PlatformMessages : Arrive(h, m)
  \/ (\E h \in handlers : Deliver(h))
  \/ Forget \/ Shutdown
  \/ \E r \in underWay : Step(r)

InSpec == InInit /\ [][InNext]_inVars

-----------------------------------------------------------------------------
(* Properties                                                              *)

InboundTypeOK ==
  /\ message \in PlatformMessages /\ handlers \subseteq DOMAIN Stages
  /\ events \in [handlers -> 0..MaxDeliveries]
  /\ published \in [handlers -> 0..MaxDeliveries]
  /\ downloads \in Nat /\ forgotten \in 0..MaxDeliveries
  /\ lost \subseteq handlers /\ ended \in BOOLEAN

\* What a message in a group says once a leading mention of the bot is gone.
Said(h) ==
  IF message.mention = "none" \/ (message.mention = "bot" /\ h = "slack")
  THEN message.text ELSE "plain"

\* Is a message in a group for the bot?  Slack tells a mention by a second event;
\* the WhatsApp channels have no group trigger.
Wanted(h) ==
  message.group /\ h \notin {"slackMention", "whatsapp", "whatsappNative"} =>
    Responds(Mentioned(h, message), Said(h))

\* Nothing forged, of somebody not listed, or said in a group and not to the bot comes to
\* the agent, and nothing the bot has said itself, but on WhatsApp's native client.
OnlyWanted ==
  \A h \in handlers : published[h] > 0 =>
    /\ message.genuine /\ Allowed /\ Wanted(h)
    /\ message.own => h \in Mirroring

\* Attachments of somebody not listed are not fetched, and nothing is kept for a reply,
\* where the handler says that the list comes first.  What is fetched is handed on,
\* unless the handler asks later whether the message is for the bot (Telegram) or from
\* somebody listed (LINE).
NothingForStrangers ==
  (\E h \in handlers : h \in {"telegram", "discord", "slack"}) /\ ~Allowed
    => downloads = 0 /\ ~acks

\* What was downloaded for a message that is dropped after all would stay in the store;
\* it does when the message could not be published.
NoneLeftBehind ==
  (\A h \in handlers : h \notin {"telegram", "line"}) /\ underWay = {} /\ lost = {}
    => downloads = 0

\* Channels with a deduplicator publish a message once however often it is delivered, and
\* once more for each time the deduplicator has forgotten it.
PublishedOnce ==
  \A h \in handlers : \A n \in DOMAIN Stages[h] :
    Stages[h][n] = "once" => published[h] <= 1 + forgotten

\* Whoever is allowed and speaks to the bot is heard: when all deliveries are through,
\* a direct message with a text, and a mention where the adapter sees mentions; unless
\* the program was shutting down when the handler wanted to publish.
Heard ==
  \A h \in handlers :
    /\ message.genuine /\ ~message.own /\ Allowed /\ message.text # "empty" /\ events[h] > 0
    /\ underWay = {}
    /\ message.group => Mentioned(h, message) \/ setup.trigger = "none"
    => published[h] > 0 \/ h \in lost

\* What the order of the stages in the handlers is for: the conditions above.
InboundSound ==
  OnlyWanted /\ NothingForStrangers /\ NoneLeftBehind /\ PublishedOnce /\ Heard

=============================================================================
