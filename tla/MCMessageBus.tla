---------------------------- MODULE MCMessageBus ----------------------------
(* Small instances of MessageBus: channels of one message, so that a publish *)
(* call finds its channel full and blocks.                                   *)
EXTENDS MessageBus

CONSTANTS p1, p2, c1

MCPublishers == {p1, p2}
MCConsumers == {c1}
=============================================================================
