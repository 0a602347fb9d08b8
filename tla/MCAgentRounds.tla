--------------------------- MODULE MCAgentRounds ---------------------------
(* Instances of AgentRounds: two agents, two chats, rounds of one tool call.  *)
EXTENDS AgentRounds

CONSTANTS main, helper, chat1, chat2, internal

Msg(i, k, c, a) == [id |-> i, kind |-> k, chat |-> c, agent |-> a]

ChatAndReport == {Msg(1, "chat", chat1, main), Msg(4, "system", chat2, main)}
ChatAndCommand == {Msg(1, "chat", chat1, main), Msg(2, "command", chat1, main)}
RoutedChats == {Msg(1, "chat", chat1, helper)}
OneChat == {Msg(1, "chat", chat1, main)}
CronOfHelper == {Msg(9, "cron", chat2, helper)}
Nobody == {}
Once == [a \in Agents |-> 1]
CronOfMain == {Msg(9, "cron", chat2, main)}
BeatOfMain == {Msg(9, "heartbeat", internal, main)}
=============================================================================
