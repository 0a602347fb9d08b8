----------------------------- MODULE MessageBus -----------------------------
(***************************************************************************)
(* pkg/bus: the three bounded Go channels every other part talks through.  *)
(* A publish call is three steps of its goroutine (the closed flag, the    *)
(* context, the select), a consume call is one blocking select, and Close  *)
(* swaps the flag, closes done and then empties the channels in order.     *)
(* The channels themselves are never closed.                               *)
(*                                                                         *)
(* A context may be cancelled at any moment, so "ctx is done" is a choice  *)
(* of the environment and no variable.  A message is <<p, n>>: the n-th    *)
(* call of publisher p.                                                    *)
(***************************************************************************)
EXTENDS Naturals, Sequences

CONSTANTS Publishers,  \* goroutines that call Publish*
          Consumers,   \* goroutines that call ConsumeInbound / Subscribe*
          Capacity,    \* size of each channel (64 in the code)
          MaxCalls     \* bound on the publish calls of one publisher

ASSUME BusAssumption == Capacity \in Nat \ {0} /\ MaxCalls \in Nat

Topics == {"inbound", "outbound", "media"}
NoTopic == "none"
Msgs == Publishers \X (1..MaxCalls)

VARIABLES
  closed,    \* mb.closed
  done,      \* mb.done has been closed
  buf,       \* buf[t]: contents of the channel of topic t
  pub,       \* pub[p]: where the publish call of p is, and on which topic
  calls,     \* calls[p]: publish calls p has started
  con,       \* con[c]: the topic c is blocked on, or NoTopic
  closePc,   \* where the Close call that won the swap is
  accepted,  \* history: accepted[t], messages whose publish returned nil
  taken,     \* history: taken[t], messages removed from t, in that order
  late       \* history: messages accepted after the swap

history == <<accepted, taken, late>>
vars == <<closed, done, buf, pub, calls, con, closePc, accepted, taken, late>>

Idle == [pc |-> "idle", topic |-> NoTopic]

\* The drain loops run one after the other, in this order.
NextDrain == [inbound |-> "outbound", outbound |-> "media", media |-> "returned"]

Init ==
  /\ closed = FALSE
  /\ done = FALSE
  /\ buf = [t \in Topics |-> <<>>]
  /\ pub = [p \in Publishers |-> Idle]
  /\ calls = [p \in Publishers |-> 0]
  /\ con = [c \in Consumers |-> NoTopic]
  /\ closePc = "open"
  /\ accepted = [t \in Topics |-> <<>>]
  /\ taken = [t \in Topics |-> <<>>]
  /\ late = {}

-----------------------------------------------------------------------------
(* PublishInbound, PublishOutbound, PublishOutboundMedia                   *)

\* Mutant: the closed check is missing.
PublishStartUnchecked(p, t) ==
  /\ pub[p].pc = "idle"
  /\ calls[p] < MaxCalls
  /\ calls' = [calls EXCEPT ![p] = @ + 1]
  /\ pub' = [pub EXCEPT ![p] = [pc |-> "ctx", topic |-> t]]
  /\ UNCHANGED <<closed, done, buf, con, closePc, history>>

\* mb.closed.Load(): the call returns ErrBusClosed at once, or goes on.
PublishStart(p, t) ==
  /\ pub[p].pc = "idle"
  /\ calls[p] < MaxCalls
  /\ calls' = [calls EXCEPT ![p] = @ + 1]
  /\ pub' = IF closed THEN pub
                      ELSE [pub EXCEPT ![p] = [pc |-> "ctx", topic |-> t]]
  /\ UNCHANGED <<closed, done, buf, con, closePc, history>>

\* ctx.Err() is nil: the call enters its select.
PublishCtxAlive(p) ==
  /\ pub[p].pc = "ctx"
  /\ pub' = [pub EXCEPT ![p].pc = "select"]
  /\ UNCHANGED <<closed, done, buf, calls, con, closePc, history>>

\* select: the channel has room and the send is chosen.
PublishSend(p) ==
  LET t == pub[p].topic
      m == <<p, calls[p]>>
  IN
  /\ pub[p].pc = "select"
  /\ Len(buf[t]) < Capacity
  /\ buf' = [buf EXCEPT ![t] = Append(@, m)]
  /\ accepted' = [accepted EXCEPT ![t] = Append(@, m)]
  /\ late' = IF closed THEN late \cup {m} ELSE late
  /\ pub' = [pub EXCEPT ![p] = Idle]
  /\ UNCHANGED <<closed, done, calls, con, closePc, taken>>

\* select: mb.done is closed and that case is chosen.
PublishDone(p) ==
  /\ pub[p].pc = "select"
  /\ done
  /\ pub' = [pub EXCEPT ![p] = Idle]
  /\ UNCHANGED <<closed, done, buf, calls, con, closePc, history>>

\* Mutant: the call gives up but stays registered on its topic.
PublishCancelledHalfway(p) ==
  /\ pub[p].pc \in {"ctx", "select"}
  /\ pub' = [pub EXCEPT ![p].pc = "idle"]
  /\ UNCHANGED <<closed, done, buf, calls, con, closePc, history>>

\* ctx.Err() or ctx.Done(): the caller's context has ended.
PublishCancelled(p) ==
  /\ pub[p].pc \in {"ctx", "select"}
  /\ pub' = [pub EXCEPT ![p] = Idle]
  /\ UNCHANGED <<closed, done, buf, calls, con, closePc, history>>

-----------------------------------------------------------------------------
(* ConsumeInbound, SubscribeOutbound, SubscribeOutboundMedia               *)

\* The caller enters the select and blocks on its topic.
ConsumeStart(c, t) ==
  /\ con[c] = NoTopic
  /\ con' = [con EXCEPT ![c] = t]
  /\ UNCHANGED <<closed, done, buf, pub, calls, closePc, history>>

\* A message is there and its case is chosen, even when done is closed too.
ConsumeTake(c) ==
  LET t == con[c] IN
  /\ t # NoTopic
  /\ buf[t] # <<>>
  /\ buf' = [buf EXCEPT ![t] = Tail(@)]
  /\ taken' = [taken EXCEPT ![t] = Append(@, Head(buf[t]))]
  /\ con' = [con EXCEPT ![c] = NoTopic]
  /\ UNCHANGED <<closed, done, pub, calls, closePc, accepted, late>>

ConsumeDone(c) ==
  /\ con[c] # NoTopic
  /\ done
  /\ con' = [con EXCEPT ![c] = NoTopic]
  /\ UNCHANGED <<closed, done, buf, pub, calls, closePc, history>>

\* Mutant: the message is received first and dropped when the context has ended.
ConsumeCancelledDropping(c) ==
  /\ con[c] # NoTopic
  /\ con' = [con EXCEPT ![c] = NoTopic]
  /\ buf' = [buf EXCEPT ![con[c]] = IF @ = <<>> THEN @ ELSE Tail(@)]
  /\ UNCHANGED <<closed, done, pub, calls, closePc, history>>

ConsumeCancelled(c) ==
  /\ con[c] # NoTopic
  /\ con' = [con EXCEPT ![c] = NoTopic]
  /\ UNCHANGED <<closed, done, buf, pub, calls, closePc, history>>

-----------------------------------------------------------------------------
(* Close                                                                   *)

\* CompareAndSwap(false, true).  A later Close finds closed set and returns
\* without a step.
CloseSwap ==
  /\ ~closed
  /\ closed' = TRUE
  /\ closePc' = "swapped"
  /\ UNCHANGED <<done, buf, pub, calls, con, history>>

\* Mutant: Close drains without closing the done channel.
CloseDoneSilent ==
  /\ closePc = "swapped"
  /\ closePc' = "inbound"
  /\ UNCHANGED <<closed, done, buf, pub, calls, con, history>>

\* close(mb.done)
CloseDone ==
  /\ closePc = "swapped"
  /\ done' = TRUE
  /\ closePc' = "inbound"
  /\ UNCHANGED <<closed, buf, pub, calls, con, history>>

\* One turn of a drain loop: a message is received and thrown away.
DrainOne ==
  /\ closePc \in Topics
  /\ buf[closePc] # <<>>
  /\ buf' = [buf EXCEPT ![closePc] = Tail(@)]
  /\ taken' = [taken EXCEPT ![closePc] = Append(@, Head(buf[closePc]))]
  /\ UNCHANGED <<closed, done, pub, calls, con, closePc, accepted, late>>

\* The default case: the channel is empty, the next loop (or the return).
DrainNext ==
  /\ closePc \in Topics
  /\ buf[closePc] = <<>>
  /\ closePc' = NextDrain[closePc]
  /\ UNCHANGED <<closed, done, buf, pub, calls, con, history>>

-----------------------------------------------------------------------------
Publish(p) ==
  \/ \E t \in Topics : PublishStart(p, t)
  \/ PublishCtxAlive(p)
  \/ PublishSend(p)
  \/ PublishDone(p)
  \/ PublishCancelled(p)

Consume(c) ==
  \/ \E t \in Topics : ConsumeStart(c, t)
  \/ ConsumeTake(c)
  \/ ConsumeDone(c)
  \/ ConsumeCancelled(c)

Close == CloseSwap \/ CloseDone \/ DrainOne \/ DrainNext

Next ==
  \/ \E p \in Publishers : Publish(p)
  \/ \E c \in Consumers : Consume(c)
  \/ Close

Spec == Init /\ [][Next]_vars

\* A goroutine inside a call keeps running when one of its cases is ready;
\* whether a call starts, a context ends or a ready message beats done is
\* nobody's obligation.
Fairness ==
  /\ \A p \in Publishers : /\ WF_vars(PublishCtxAlive(p))
                           /\ WF_vars(PublishSend(p) \/ PublishDone(p))
  /\ \A c \in Consumers : WF_vars(ConsumeTake(c) \/ ConsumeDone(c))
  /\ WF_vars(CloseDone \/ DrainOne \/ DrainNext)

FairSpec == Spec /\ Fairness

-----------------------------------------------------------------------------
(* Properties                                                              *)

TypeOK ==
  /\ closed \in BOOLEAN
  /\ done \in BOOLEAN
  /\ buf \in [Topics -> Seq(Msgs)]
  /\ pub \in [Publishers -> [pc : {"idle", "ctx", "select"},
                             topic : Topics \cup {NoTopic}]]
  /\ \A p \in Publishers : pub[p].pc = "idle" <=> pub[p].topic = NoTopic
  /\ calls \in [Publishers -> 0..MaxCalls]
  /\ \A p \in Publishers : pub[p].pc # "idle" => calls[p] > 0
  /\ con \in [Consumers -> Topics \cup {NoTopic}]
  /\ closePc \in {"open", "swapped", "returned"} \cup Topics
  /\ accepted \in [Topics -> Seq(Msgs)]
  /\ taken \in [Topics -> Seq(Msgs)]
  /\ late \in SUBSET Msgs

\* Bounded lossless FIFO: while publishers, consumers and the drain interleave,
\* what left a channel followed by what is still in it is what publish calls
\* reported as sent, in that order, and the channel stays within its size.
Conservation ==
  \A t \in Topics : /\ accepted[t] = taken[t] \o buf[t]
                    /\ Len(buf[t]) <= Capacity

\* Close has passed the drain loop of t.
Drained(t) == \/ closePc = "returned"
              \/ t = "inbound" /\ closePc \in {"outbound", "media"}
              \/ t = "outbound" /\ closePc = "media"

\* Publishers race with Close without a lock.  A call that was already past
\* the closed check may still be accepted, but only that one: behind the drain
\* there is at most one message of each publisher, in all channels together.
StrandedAtMostOne ==
  \A t, u \in Topics : Drained(t) /\ Drained(u) =>
    \A i \in DOMAIN buf[t], j \in DOMAIN buf[u] :
      buf[t][i][1] = buf[u][j][1] => <<t, i>> = <<u, j>>

\* Once Close has swapped the flag it returns and every publisher leaves its call for
\* good, whether or not anyone consumes; and no consumer stays blocked on an empty
\* channel.
CloseReleases ==
  /\ closed ~> [](closePc = "returned" /\ \A p \in Publishers : pub[p] = Idle)
  /\ \A c \in Consumers : (closed /\ con[c] # NoTopic) ~> (con[c] = NoTopic)

\* What the comment in Close says of the drain ("so messages aren't silently
\* lost"): when it has returned there is nothing left that was accepted and
\* neither consumed nor counted by the drain.
NothingLeftBehind ==
  closePc = "returned" => \A t \in Topics : buf[t] = <<>>

-----------------------------------------------------------------------------
(* The bus implements bounded channels with one atomic shutdown.           *)

Contract == INSTANCE BusContract
              WITH open <- ~closed,
                   owed <- {p \in Publishers : pub[p] # Idle},
                   queue <- buf

Contracted == Contract!FairSpec

=============================================================================
