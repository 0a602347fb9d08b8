--------------------------- MODULE MCChannels ---------------------------
(* Small instances of the channels with state of their own.  They share     *)
(* nothing, so that a behaviour of this module is a behaviour of one of     *)
(* them, chosen by part in the initial state.                               *)
EXTENDS AIBotTasks, OneBotLink, WhatsAppLink

VARIABLES part

OneChat == [t \in {"t1", "t2"} |-> "c"]

BotVars == <<botRunning, streamTasks, chatTasks, answerCh, streamClosed, finished, cancelled,
  opened, passed, poll, send, delivered, overtaken>>

OneBotVars == <<obState, conn, dials, alive, link, listener, dedup, ring, ringIdx, fresh,
  handled, req, reqConn, pending, late>>

WhatsAppVars == <<mode, up, isRunning, ended, client, online, store, listenLoop, badReads,
  stopping, reconnecting, recon, finishing, qr, wg, events, halt, breaks, missed, raced>>

ButBot == <<part, OneBotVars, WhatsAppVars>>
ButOneBot == <<part, BotVars, WhatsAppVars>>
ButWhatsApp == <<part, BotVars, OneBotVars>>

AllVars == <<part, BotVars, OneBotVars, WhatsAppVars>>

SInit ==
  /\ part \in {"aibot", "onebot", "whatsapp"}
  /\ BotInit /\ ObInit /\ WaInit

SNext ==
  \/ part = "aibot" /\ BotNext /\ UNCHANGED ButBot
  \/ part = "onebot" /\ ObNext /\ UNCHANGED ButOneBot
  \/ part = "whatsapp" /\ WaNext /\ UNCHANGED ButWhatsApp

SSpec ==
  /\ SInit /\ [][SNext]_AllVars
  /\ \A t \in Tasks : WF_AllVars(part = "aibot" /\ Request(t) /\ UNCHANGED ButBot)
  /\ WF_AllVars(part = "aibot" /\ Sender /\ UNCHANGED ButBot)
  /\ \A t \in Tasks : WF_AllVars(part = "aibot" /\ (\E limit \in {"deadline", "grace", "lifetime"} : Pass(t, limit)) /\ UNCHANGED ButBot)
  /\ WF_AllVars(part = "aibot" /\ Cleanup /\ UNCHANGED ButBot)
  /\ WF_AllVars(part = "onebot" /\ Dialer /\ UNCHANGED ButOneBot)
  /\ \A k \in Conns : WF_AllVars(part = "onebot" /\ ListenStart(k) /\ UNCHANGED ButOneBot)
  /\ \A k \in Conns : WF_AllVars(part = "onebot" /\ ListenFails(k) /\ UNCHANGED ButOneBot)

=============================================================================
