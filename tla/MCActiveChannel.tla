--------------------------- MODULE MCActiveChannel ---------------------------
(* The last chat with two chats and a file of an older version.             *)
EXTENDS ActiveChannel
=============================================================================
