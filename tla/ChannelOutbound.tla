--------------------------- MODULE ChannelOutbound ---------------------------
(***************************************************************************)
(* One message on its way to a platform: the Send and SendMedia of the     *)
(* channel adapters (pkg/channels/...) under the retries of the manager's  *)
(* worker (sendWithRetry, sendMediaWithRetry).  An adapter makes a few     *)
(* requests for a message; each may be carried out although its answer is  *)
(* lost, fail for a while, or be refused; what the adapter reports decides *)
(* whether the worker sends the whole message again.  Meanwhile files      *)
(* expire, tokens come and go, and the channel may be stopped.             *)
(***************************************************************************)
EXTENDS Naturals, Sequences, FiniteSets

CONSTANTS
  OutboundAdapters,  \* the adapters looked at
  MaxParts,          \* bound on the parts of a media message
  WorkerRetries,     \* maxRetries of manager.go
  MaxSent            \* bound on the messages sent one after the other

ASSUME OutboundAssumption == MaxParts \in Nat /\ WorkerRetries \in Nat /\ MaxSent \in Nat

VARIABLES
  adapter,   \* the adapter, "none" before there is a message
  parts,     \* parts of a media message; <<>> is a text message
  reply,     \* LINE: [id, fresh] of the chat's reply token, id 0 is none
  holding,   \* LINE: id of the reply token this attempt has taken
  used,      \* LINE: used[id]: requests made with a reply token
  step,      \* "idle", "begin", "asking", "wait" or how the message ended
  tries,     \* retries so far
  pos,       \* next request of the attempt
  errors,    \* requests of this message that were answered by an error
  shown,     \* what the platform shows of the message, a set for each request
  givenUp,   \* Discord: what a request given up by the adapter may yet show
  refused,   \* 1 + the length of shown when an error came that is not retried, or 0
  sent       \* messages so far

outVars == <<adapter, parts, reply, holding, used, step, tries, pos,
          errors, shown, givenUp, refused, sent>>

-----------------------------------------------------------------------------
(* What the adapters ask for                                               *)

Texting == [part |-> 0, as |-> "text"]
File(i) == [part |-> i, as |-> "file"]
Caption(i) == [part |-> i, as |-> "text"]

\* A request: what it shows; can it be made ("yes"), is it left out ("skip") or does it
\* fail here ("fail"); by how much to go on after an answer, an error (0: the attempt
\* fails) or when left out.
AskFor(shows, can, then, else, over) ==
  [shows |-> shows, can |-> can, then |-> then, else |-> else, over |-> over]
AskOnce(shows, can) == AskFor(shows, can, 1, 0, 1)

\* Telegram tries HTML and then plain text; LINE its reply token and then a push.
TelegramText == <<AskFor({Texting}, "yes", 2, 1, 1), AskOnce({Texting}, "yes")>>
LineText == IF holding = 0 THEN <<AskOnce({Texting}, "yes")>>
            ELSE <<AskFor({Texting}, "yes", 2, 1, 1), AskOnce({Texting}, "yes")>>
PlainText == <<AskOnce({Texting}, "yes")>>

TextRequests ==
  CASE adapter = "telegram" -> TelegramText
    [] adapter = "line" -> LineText
    [] OTHER -> PlainText

TelegramPart(i) == <<AskOnce({File(i)}, IF parts[i].ref = "ok" THEN "yes" ELSE "skip")>>

SlackPart(i) ==
  <<AskOnce({File(i)}, CASE parts[i].ref = "ok" -> "yes"
                      [] parts[i].ref = "gone" -> "skip"
                      [] parts[i].ref = "missing" -> "fail")>>

\* LINE has no media: the caption, or the file's name, is pushed.
LinePart(i) == <<AskOnce({Caption(i)}, "yes")>>

\* WeCom: an upload; if it fails the caption, whose own failure is not looked at; else
\* the image, or for other files the caption or the name.
WeComAppPart(i) ==
  <<AskFor({}, CASE parts[i].ref = "ok" -> "yes"
              [] parts[i].ref = "gone" -> "skip"
              [] parts[i].ref = "missing" -> "fail", 2, 1, 3),
    AskFor({Caption(i)}, IF parts[i].caption THEN "yes" ELSE "skip", 2, 2, 2),
    AskOnce({IF parts[i].image THEN File(i) ELSE Caption(i)}, "yes")>>

\* Discord and OneBot put all files into one request, if there are any.
AllAtOnce(readable) ==
  LET some == {i \in DOMAIN parts : parts[i].ref \in readable} IN
  <<AskOnce({File(i) : i \in some}, IF some = {} THEN "skip" ELSE "yes")>>

PartRequests(i) ==
  CASE adapter = "telegram" -> TelegramPart(i)
    [] adapter = "slack" -> SlackPart(i)
    [] adapter = "line" -> LinePart(i)
    [] adapter = "wecomApp" -> WeComAppPart(i)

\* The parts are gone through in order, with Each requests for a part.
Each == IF adapter = "wecomApp" THEN 3 ELSE 1

MediaRequests ==
  CASE adapter = "discord" -> AllAtOnce({"ok"})
    [] adapter = "onebot" -> AllAtOnce({"ok", "missing"})
    [] OTHER -> [n \in 1..(Each * Len(parts)) |->
                   PartRequests(((n - 1) \div Each) + 1)[((n - 1) % Each) + 1]]

Requests == IF parts = <<>> THEN TextRequests ELSE MediaRequests

WithMedia == {"telegram", "slack", "line", "wecomApp", "discord", "onebot"}

\* ClassifySendError tells errors apart by the HTTP status; the other adapters call
\* every failure temporary.  An error code in a good answer is wrapped by nobody.
Class(a, outcome) ==
  IF a \notin {"line", "wecom", "wecomApp"} THEN "temporary"
  ELSE CASE outcome = "limited" -> "rateLimit"
         [] outcome \in {"down", "lost"} -> "temporary"
         [] outcome = "refused" -> "failed"
         [] outcome = "code" -> "unknown"

Answers(a) ==
  {"ok", "lost", "down"} \cup (IF a \in {"line", "wecom", "wecomApp"}
                               THEN {"limited", "refused"} ELSE {})
    \cup (IF a \in {"wecom", "wecomApp"} THEN {"code"} ELSE {})
    \cup (IF a = "discord" THEN {"late"} ELSE {})

-----------------------------------------------------------------------------
(* The worker                                                              *)

Ended == {"ok", "failed", "dropped"}

OutInit ==
  /\ adapter = "none" /\ parts = <<>>
  /\ reply = [id |-> 0, fresh |-> FALSE] /\ holding = 0 /\ used = <<>>
  /\ step = "idle" /\ tries = 0 /\ pos = 1 /\ errors = 0
  /\ shown = <<>> /\ givenUp = {} /\ refused = 0 /\ sent = 0

\* What makes no difference to the adapter is not varied; a part is there to begin with.
Matters(a, p) == p.ref = "ok" /\ (p.image \/ p.caption => a = "wecomApp")

\* The worker takes the next message off its queue.
Take(a, ps) ==
  /\ adapter \in {"none", a} /\ (ps # <<>> => a \in WithMedia)
  /\ \A i \in DOMAIN ps : Matters(a, ps[i])
  /\ adapter' = a /\ parts' = ps /\ step' = "begin" /\ sent' = sent + 1
  /\ tries' = 0 /\ errors' = 0 /\ shown' = <<>> /\ givenUp' = {} /\ refused' = 0
  /\ UNCHANGED <<reply, holding, used, pos>>

\* Mutant of WorkerHears: what the platform refuses is sent again.
WorkerRepeats(class) ==
  /\ refused' = IF class \in {"failed", "notRunning"} THEN Len(shown') + 1 ELSE refused
  /\ IF class = "notRunning" \/ tries = WorkerRetries
     THEN step' = "failed" /\ UNCHANGED tries
     ELSE step' = "wait" /\ tries' = tries + 1

\* The worker's answer to what the adapter reports.
WorkerHears(class) ==
  /\ refused' = IF class \in {"failed", "notRunning"} THEN Len(shown') + 1 ELSE refused
  /\ IF class \in {"failed", "notRunning"} \/ tries = WorkerRetries
     THEN step' = "failed" /\ UNCHANGED tries
     ELSE step' = "wait" /\ tries' = tries + 1

\* The adapter is called, and may find the channel stopped or, on the WeCom app, that no
\* access token is valid.  LINE takes the chat's reply token out of its map, and uses it
\* if it is fresh.
CallAdapter(isRunning, hasToken) ==
  /\ step = "begin" /\ (~hasToken => adapter = "wecomApp")
  /\ IF ~isRunning \/ ~hasToken
     THEN /\ UNCHANGED <<shown, pos, reply, holding>>
          /\ WorkerHears(IF ~isRunning THEN "notRunning"
                    ELSE IF parts = <<>> THEN "unknown" ELSE "temporary")
     ELSE /\ step' = "asking" /\ pos' = 1
          /\ IF adapter = "line" /\ parts = <<>>
             THEN /\ holding' = IF reply.fresh THEN reply.id ELSE 0
                  /\ reply' = [id |-> 0, fresh |-> FALSE]
             ELSE holding' = 0 /\ UNCHANGED reply
          /\ UNCHANGED <<tries, shown, refused>>
  /\ UNCHANGED <<adapter, parts, used, errors, givenUp, sent>>

\* The next request, or the end of the attempt.
LeaveOut ==
  /\ step = "asking"
  /\ LET asks == Requests IN
     pos <= Len(asks) /\ asks[pos].can = "skip" /\ pos' = pos + asks[pos].over
  /\ UNCHANGED <<adapter, parts, reply, holding, used, step, tries,
                 errors, shown, givenUp, refused, sent>>

Request(outcome) ==
  LET asks == Requests
      ask == asks[pos] IN
  /\ step = "asking" /\ pos <= Len(asks) /\ ask.can # "skip"
  /\ ask.can = "fail" => outcome = "down"
  /\ shown' = IF outcome \in {"ok", "lost"} THEN Append(shown, ask.shows) ELSE shown
  /\ givenUp' = IF outcome = "late" THEN givenUp \cup {<<tries, ask.shows>>} ELSE givenUp
  /\ used' = IF holding # 0 /\ pos = 1 THEN [used EXCEPT ![holding] = @ + 1] ELSE used
  /\ errors' = IF outcome = "ok" THEN errors ELSE errors + 1
  /\ IF outcome = "ok" \/ ask.else # 0
     THEN /\ pos' = pos + (IF outcome = "ok" THEN ask.then ELSE ask.else)
          /\ UNCHANGED <<step, tries, refused>>
     ELSE WorkerHears(Class(adapter, outcome)) /\ UNCHANGED pos
  /\ UNCHANGED <<adapter, parts, reply, holding, sent>>

Finish ==
  /\ step = "asking" /\ pos > Len(Requests)
  /\ step' = "ok"
  /\ UNCHANGED <<adapter, parts, reply, holding, used, tries, pos,
                 errors, shown, givenUp, refused, sent>>

\* The delay before a retry ends, or the worker's context does.
Wait ==
  /\ step = "wait"
  /\ step' \in {"begin", "dropped"}
  /\ UNCHANGED <<adapter, parts, reply, holding, used, tries, pos,
                 errors, shown, givenUp, refused, sent>>

-----------------------------------------------------------------------------
(* What happens meanwhile                                                  *)

\* A request the adapter has given up after sendTimeout comes through after all.
Land ==
  /\ \E l \in givenUp : shown' = Append(shown, l[2]) /\ givenUp' = givenUp \ {l}
  /\ UNCHANGED <<adapter, parts, reply, holding, used, step, tries,
                 pos, errors, refused, sent>>

PartAs(ref, image, caption) == [ref |-> ref, image |-> image, caption |-> caption]

\* The media store releases a ref, or somebody removes the file.
Expire(i) ==
  /\ step \notin Ended /\ i \in DOMAIN parts /\ adapter # "line"
  /\ parts[i].ref = "ok" \/ parts[i].ref = "missing"
  /\ \E state \in {"missing", "gone"} \ {parts[i].ref} :
       parts' = [parts EXCEPT ![i] = PartAs(state, parts[i].image, parts[i].caption)]
  /\ UNCHANGED <<adapter, reply, holding, used, step, tries, pos,
                 errors, shown, givenUp, refused, sent>>

\* LINE: a message comes into the chat, or the last one's token grows too old.
MessageComes ==
  /\ adapter = "line" /\ parts = <<>> /\ Len(used) < MaxSent
  /\ reply' = [id |-> Len(used) + 1, fresh |-> TRUE]
  /\ used' = Append(used, 0)
  /\ UNCHANGED <<adapter, parts, holding, step, tries, pos,
                 errors, shown, givenUp, refused, sent>>

TokenAges ==
  /\ reply.fresh
  /\ reply' = [id |-> reply.id, fresh |-> FALSE]
  /\ UNCHANGED <<adapter, parts, holding, used, step, tries, pos,
                 errors, shown, givenUp, refused, sent>>

PartsOf == [ref : {"ok", "missing", "gone"}, image : BOOLEAN, caption : BOOLEAN]

\* Only a reply token outlives a message.
TakeAny ==
  \/ /\ sent = 0
     /\ \E a \in OutboundAdapters, n \in 0..MaxParts : \E ps \in [1..n -> PartsOf] : Take(a, ps)
  \/ sent \in 1..(MaxSent - 1) /\ adapter = "line" /\ Take("line", <<>>)

OutNext ==
  \/ step \in Ended \cup {"idle"} /\ TakeAny
  \/ \E isRunning, hasToken \in BOOLEAN : CallAdapter(isRunning, hasToken)
  \/ LeaveOut \/ Finish \/ Wait
  \/ \E outcome \in Answers(adapter) : Request(outcome)
  \/ Land \/ MessageComes \/ TokenAges
  \/ \E i \in 1..MaxParts : Expire(i)

OutSpec == OutInit /\ [][OutNext]_outVars

-----------------------------------------------------------------------------
(* Properties                                                              *)

OutboundTypeOK ==
  /\ adapter \in OutboundAdapters \cup {"none"} /\ parts \in Seq(PartsOf)
  /\ tries \in 0..WorkerRetries /\ pos \in Nat \ {0} /\ errors \in Nat
  /\ shown \in Seq(SUBSET [part : 0..MaxParts, as : {"text", "file"}])
  /\ step \in Ended \cup {"idle", "begin", "asking", "wait"}

Times(item) == Cardinality({n \in DOMAIN shown : item \in shown[n]})

\* What has to be visible of a part that is still there when the adapter reports
\* success.  The WeCom app goes on after a failed upload.
Due(i) ==
  CASE adapter = "line" -> {Caption(i)}
    [] adapter = "wecomApp" ->
         IF errors > 0 \/ parts[i].ref # "ok" THEN {}
         ELSE {IF parts[i].image THEN File(i) ELSE Caption(i)}
    [] OTHER -> IF parts[i].ref = "ok" THEN {File(i)} ELSE {}

\* A message reported as sent is on the platform: the text, or every part that can
\* still be read.
ShownWhenReported ==
  step = "ok" =>
    \A item \in IF parts = <<>> THEN {Texting} ELSE UNION {Due(i) : i \in DOMAIN parts} :
      Times(item) > 0

\* Nothing is shown once more than requests have failed: a message is repeated only
\* after an error, and at most once for each.
RepeatsFollowErrors ==
  \A n \in DOMAIN shown : \A item \in shown[n] : Times(item) <= 1 + errors

\* Within the first attempt parts appear in their order.
InOrder ==
  tries = 0 => \A m, n \in DOMAIN shown : m < n =>
    \A a \in shown[m], b \in shown[n] : a.part <= b.part

\* After an error that is not retried nothing more is sent; what Discord's adapter has
\* given up may still come.
NothingAfterRefusal == refused > 0 /\ adapter # "discord" => Len(shown) = refused - 1

\* A reply token is used in one request, whatever becomes of it.
TokenOnce == \A id \in DOMAIN used : used[id] <= 1

\* What becomes of one message: the conditions above.
OutboundSound ==
  /\ ShownWhenReported /\ RepeatsFollowErrors /\ InOrder
  /\ NothingAfterRefusal /\ TokenOnce

=============================================================================
