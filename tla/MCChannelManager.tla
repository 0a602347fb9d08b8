-------------------------- MODULE MCChannelManager --------------------------
(* Instances of ChannelManager with queues of one message, so that a queue   *)
(* fills up, and one retry, so that a retry can succeed and be exhausted.    *)
EXTENDS ChannelManager

CONSTANTS c1, c2, k1

Text(i, c, n) == [id |-> i, lane |-> "text", parts |-> n, to |-> c]
Media(i, c) == [id |-> i, lane |-> "media", parts |-> 1, to |-> c]

OneChannel == {c1}
TwoChannels == {c1, c2}
Crowd == {Text(1, c1, 2), Text(2, c1, 1), Text(3, c1, 1), Text(4, c2, 1)}
TextAndMedia == {Text(1, c1, 1), Media(3, c1)}
TwoTexts == {Text(1, c1, 2), Text(2, c1, 1)}
CallerText == [k \in {k1} |-> Text(9, c1, 1)]
NoCalls == [k \in {} |-> NoMessage]
=============================================================================
