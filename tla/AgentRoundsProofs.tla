------------------------- MODULE AgentRoundsProofs -------------------------
(***************************************************************************)
(* What is proved of the agent rounds, for any set of agents, chats,       *)
(* messages, direct rounds and iterations: module AgentRounds is type      *)
(* correct, and VerdictsSound and UndisturbedTargets are invariants.       *)
(***************************************************************************)
EXTENDS AgentRounds, TLAPS

\* The goroutine has a message and is not done with it.
Busy(t) == round[t].pc \notin {"idle", "stopped"}

\* Run works on inbound messages and a direct round on its own.
RoundsKeepTheirMessage ==
  /\ round[Loop].msg \in Inbound \cup {NoMessage}
  /\ Busy(Loop) <=> round[Loop].msg # NoMessage
  /\ round[Loop].pc # "waiting"
  /\ \A t \in Direct : round[t].msg = t /\ round[t].pc # "idle"

TypeInv == TypeOK /\ RoundsKeepTheirMessage

-----------------------------------------------------------------------------
(* Lemmas                                                                  *)

\* The parts of a message, and that the three sorts of goroutine names and
\* messages are apart.
LEMMA MessageParts ==
  /\ \A m \in Inbound \cup Direct \cup {NoMessage} :
       m.agent \in Agents /\ m.chat \in Chats \cup {Internal}
  /\ \A m \in Inbound : m.kind \in {"command", "chat", "system"}
  /\ \A m \in Direct : m.kind \in {"cron", "heartbeat"}
  /\ Inbound \cap Direct = {}
  /\ NoMessage \notin Inbound \cup Direct
  /\ Loop \notin Direct
  /\ \A a \in Agents : MaxIterations[a] \in Nat
<1>1. NoMessage.kind = "none" /\ NoMessage.agent = DefaultAgent /\ NoMessage.chat = Internal
  BY DEF NoMessage
<1>2. Loop.kind = "loop"
  BY DEF Loop, NoMessage
<1> QED BY RoundsAssumption, <1>1, <1>2 DEF RoundsAssumption, Message

\* A step of a goroutine's round is a step from and to a few places, leaves the
\* message and every other goroutine alone, and counts up at most to the bound.
LEMMA StepShape ==
  ASSUME TypeInv, NEW t \in Threads, Step(t)
  PROVE  /\ round' \in [Threads -> [pc : Pcs, msg : Inbound \cup Direct \cup {NoMessage},
                                    iter : Nat, target : Chats \cup {Internal}]]
         /\ round'[t].msg = round[t].msg
         /\ round'[t].iter <= MaxIterations[round[t].msg.agent]
         /\ \A u \in Threads \ {t} : round'[u] = round[u]
         /\ round[t].pc \in {"start", "llm", "execute", "mark", "publish"}
         /\ round'[t].pc \in {"llm", "execute", "mark", "publish", "stopped"}
         /\ round'[t].pc = "stopped" => t \in Direct
         /\ UNCHANGED inbox
         /\ t = Loop => UNCHANGED verdict
<1> USE DEF TypeInv, TypeOK, Pcs, Goto
<1>0. round[t].msg.agent \in Agents /\ MaxIterations[round[t].msg.agent] \in Nat
  BY MessageParts
<1>1. CASE RoundStart(t)
  BY <1>0, <1>1 DEF RoundStart
<1>2. CASE RoundAnswer(t)
  BY <1>0, <1>2 DEF RoundAnswer
<1>3. CASE RoundError(t)
  BY <1>0, <1>3 DEF RoundError, Calling
<1>4. CASE RoundCompress(t)
  BY <1>0, <1>4 DEF RoundCompress, Calling
<1>5. CASE CallOther(t)
  <2>1. /\ round[t].pc = "llm"
        /\ round[t].iter < MaxIterations[round[t].msg.agent]
        /\ round' = [round EXCEPT ![t].iter = @ + 1]
        /\ UNCHANGED <<inbox, verdict>>
    BY <1>5 DEF CallOther, Calling
  <2>2. round[t].iter + 1 \in Nat /\ round[t].iter + 1 <= MaxIterations[round[t].msg.agent]
    BY <1>0, <2>1
  <2> QED BY <2>1, <2>2
<1>6. CASE CallMessage(t)
  BY <1>0, <1>6, RoundsAssumption DEF CallMessage, Calling
<1>7. CASE MessageSend(t)
  BY <1>0, <1>7 DEF MessageSend
<1>8. CASE MessageFails(t)
  BY <1>0, <1>8 DEF MessageFails
<1>9. CASE MessageMark(t)
  BY <1>0, <1>9 DEF MessageMark
<1>10. CASE DirectEnd(t)
  <2>1. /\ t \in Direct /\ t # Loop
        /\ round[t].pc = "publish"
        /\ round' = [round EXCEPT ![t].pc = "stopped"]
        /\ UNCHANGED inbox
    BY <1>10, MessageParts DEF DirectEnd
  <2> QED BY <1>0, <2>1
<1> QED BY <1>1, <1>2, <1>3, <1>4, <1>5, <1>6, <1>7, <1>8, <1>9, <1>10 DEF Step

-----------------------------------------------------------------------------
(* Type correctness                                                        *)

RoundRecord == [pc : Pcs, msg : Inbound \cup Direct \cup {NoMessage},
                iter : Nat, target : Chats \cup {Internal}]

Deliveries == [to : Chats \cup {Internal}, for : Inbound \cup Direct,
               via : {"response", "notice", "result", "tool", "explicit"}]

Within(r) == r \in RoundRecord /\ r.iter <= MaxIterations[r.msg.agent]

\* The record of a goroutine that has made no step of a round yet.
LEMMA FreshRecord ==
  ASSUME NEW p \in Pcs, NEW m \in Inbound \cup Direct \cup {NoMessage},
         NEW r, r = [pc |-> p, msg |-> m, iter |-> 0, target |-> Internal]
  PROVE  Within(r)
<1>1. MaxIterations[m.agent] \in Nat
  BY MessageParts
<1>2. r \in RoundRecord /\ r.msg = m /\ r.iter = 0
  BY DEF RoundRecord
<1> QED BY <1>1, <1>2 DEF Within

\* The record Idle, and what becomes of it when it is given a message.
LEMMA IdleWith ==
  /\ Idle = [pc |-> "idle", msg |-> NoMessage, iter |-> 0, target |-> Internal]
  /\ \A p \in Pcs : \A m :
       /\ [Idle EXCEPT !.msg = m, !.pc = p]
          = [pc |-> p, msg |-> m, iter |-> 0, target |-> Internal]
       /\ [Idle EXCEPT !.pc = p, !.msg = m]
          = [pc |-> p, msg |-> m, iter |-> 0, target |-> Internal]
<1>1. Idle = [pc |-> "idle", msg |-> NoMessage, iter |-> 0, target |-> Internal]
  BY DEF Idle
<1>2. ASSUME NEW p \in Pcs, NEW m
      PROVE  [Idle EXCEPT !.msg = m, !.pc = p]
             = [pc |-> p, msg |-> m, iter |-> 0, target |-> Internal]
  <2>1. PICK x : x = [Idle EXCEPT !.msg = m]
    OBVIOUS
  <2>2. x = [pc |-> "idle", msg |-> m, iter |-> 0, target |-> Internal]
    BY <1>1, <2>1
  <2>3. [x EXCEPT !.pc = p] = [pc |-> p, msg |-> m, iter |-> 0, target |-> Internal]
    BY <2>2 DEF Pcs
  <2>4. [Idle EXCEPT !.msg = m, !.pc = p] = [x EXCEPT !.pc = p]
    BY <1>1, <2>1
  <2> QED BY <2>3, <2>4
<1>3. ASSUME NEW p \in Pcs, NEW m
      PROVE  [Idle EXCEPT !.pc = p, !.msg = m]
             = [pc |-> p, msg |-> m, iter |-> 0, target |-> Internal]
  <2>1. PICK x : x = [Idle EXCEPT !.pc = p]
    OBVIOUS
  <2>2. x = [pc |-> p, msg |-> NoMessage, iter |-> 0, target |-> Internal]
    BY <1>1, <2>1
  <2>3. [x EXCEPT !.msg = m] = [pc |-> p, msg |-> m, iter |-> 0, target |-> Internal]
    BY <2>2 DEF Pcs
  <2>4. [Idle EXCEPT !.pc = p, !.msg = m] = [x EXCEPT !.msg = m]
    BY <1>1, <2>1
  <2> QED BY <2>3, <2>4
<1> QED BY <1>1, <1>2, <1>3

\* What is left of TypeOK when all goroutines' records are within their bounds.
LEMMA RecordsTyped ==
  ASSUME round \in [Threads -> RoundRecord], NEW t \in Threads, NEW r, Within(r),
         \A u \in Threads : Within(round[u]),
         round' = [round EXCEPT ![t] = r]
  PROVE  /\ round' \in [Threads -> RoundRecord]
         /\ \A u \in Threads : Within(round'[u])
         /\ round'[t] = r
         /\ \A u \in Threads \ {t} : round'[u] = round[u]
<1>1. r \in RoundRecord
  BY DEF Within
<1>2. \A u \in Threads : round'[u] = IF u = t THEN r ELSE round[u]
  BY <1>1
<1> QED BY <1>1, <1>2

\* The goroutines are that of Run and those of the direct rounds.
LEMMA ThreadNames ==
  /\ Loop \in Threads
  /\ Direct \subseteq Threads
  /\ \A t \in Threads \ {Loop} : t \in Direct
BY DEF Threads

\* The variables have their types at the start.
LEMMA TypeInit == Init => TypeInv
<1> SUFFICES ASSUME Init PROVE TypeInv
  OBVIOUS
<1>1. \A t \in Threads :
        round[t] = IF t = Loop THEN Idle ELSE [Idle EXCEPT !.pc = "waiting", !.msg = t]
  BY DEF Init
<1>2. round[Loop] = [pc |-> "idle", msg |-> NoMessage, iter |-> 0, target |-> Internal]
  BY <1>1, ThreadNames, IdleWith
<1>3. ASSUME NEW t \in Direct
      PROVE  round[t] = [pc |-> "waiting", msg |-> t, iter |-> 0, target |-> Internal]
  <2>1. t \in Threads /\ t # Loop
    BY ThreadNames, MessageParts
  <2>2. round[t] = [Idle EXCEPT !.pc = "waiting", !.msg = t]
    BY <1>1, <2>1
  <2>3. "waiting" \in Pcs
    BY DEF Pcs
  <2>4. [Idle EXCEPT !.pc = "waiting", !.msg = t]
        = [pc |-> "waiting", msg |-> t, iter |-> 0, target |-> Internal]
    BY <2>3, IdleWith, Zenon
  <2> QED BY <2>2, <2>4
<1>4. \A t \in Threads : Within(round[t])
  <2>1. Within(round[Loop])
    BY <1>2, FreshRecord DEF Pcs
  <2>2. ASSUME NEW t \in Direct PROVE Within(round[t])
    BY <1>3, FreshRecord DEF Pcs
  <2> QED BY <2>1, <2>2, ThreadNames
<1>5. round \in [Threads -> RoundRecord]
  <2>1. round = [t \in Threads |-> round[t]]
    BY DEF Init
  <2>2. \A t \in Threads : round[t] \in RoundRecord
    BY <1>4 DEF Within
  <2> QED BY <2>1, <2>2
<1>6. RoundsKeepTheirMessage
  <2>1. round[Loop].msg = NoMessage /\ round[Loop].pc = "idle"
    BY <1>2
  <2>2. ASSUME NEW t \in Direct PROVE round[t].msg = t /\ round[t].pc = "waiting"
    <3>1. round[t] = [pc |-> "waiting", msg |-> t, iter |-> 0, target |-> Internal]
      BY <1>3
    <3> QED BY <3>1
  <2> QED BY <2>1, <2>2 DEF RoundsKeepTheirMessage, Busy
<1>7. inbox \in Seq(Inbound)
  <2>1. inbox = <<>>
    BY DEF Init
  <2> QED BY <2>1
<1>8. /\ toolChat \in [Agents -> Chats \cup {Internal}]
      /\ toolSent \in [Agents -> BOOLEAN]
      /\ outbox = {}
      /\ shutdown = "running" /\ disturbed = {}
      /\ verdict \in [Inbound \cup Direct -> Verdicts]
      /\ lastCall \in [Inbound \cup Direct -> {"none", "sent", "failed"}]
  BY DEF Init, Verdicts
<1> QED BY <1>4, <1>5, <1>6, <1>7, <1>8 DEF TypeInv, TypeOK, Within, RoundRecord

\* Run takes an inbound message, and answers an internal one with silence.
LEMMA LoopTakeShape ==
  ASSUME TypeInv, LoopTake
  PROVE  /\ Head(inbox) \in Inbound
         /\ inbox' \in Seq(Inbound)
         /\ round[Loop].pc = "idle" /\ round[Loop].msg = NoMessage
         /\ \/ /\ Head(inbox).kind = "system"
               /\ verdict' = [verdict EXCEPT ![Head(inbox)] = "silent"]
               /\ UNCHANGED round
            \/ /\ UNCHANGED verdict
               /\ \E p \in {"publish", "start"} :
                    /\ p = "publish" => Head(inbox).kind = "command"
                    /\ round' = [round EXCEPT ![Loop] =
                         [pc |-> p, msg |-> Head(inbox), iter |-> 0, target |-> Internal]]
<1>1. Head(inbox) \in Inbound /\ inbox' \in Seq(Inbound)
  BY DEF LoopTake, TypeInv, TypeOK
<1>2. round[Loop].pc = "idle" /\ round[Loop].msg = NoMessage
  BY DEF LoopTake, TypeInv, RoundsKeepTheirMessage, Busy
<1>3. CASE Head(inbox).kind = "system" /\ Head(inbox).chat = Internal
  BY <1>1, <1>2, <1>3 DEF LoopTake
<1>4. CASE ~ (Head(inbox).kind = "system" /\ Head(inbox).chat = Internal)
  <2>1. PICK p : p = IF Head(inbox).kind = "command" THEN "publish" ELSE "start"
    OBVIOUS
  <2>2. /\ round' = [round EXCEPT ![Loop] = [Idle EXCEPT !.msg = Head(inbox), !.pc = p]]
        /\ UNCHANGED verdict
    BY <1>4, <2>1 DEF LoopTake
  <2>3. p \in {"publish", "start"} /\ (p = "publish" => Head(inbox).kind = "command")
    BY <2>1
  <2>4. [Idle EXCEPT !.msg = Head(inbox), !.pc = p]
        = [pc |-> p, msg |-> Head(inbox), iter |-> 0, target |-> Internal]
    <3>1. p \in Pcs
      BY <2>3 DEF Pcs
    <3> QED BY <3>1, IdleWith, Zenon
  <2>5. round' = [round EXCEPT ![Loop] =
                    [pc |-> p, msg |-> Head(inbox), iter |-> 0, target |-> Internal]]
    BY <2>2, <2>4
  <2> QED BY <1>1, <1>2, <2>2, <2>3, <2>5
<1> QED BY <1>3, <1>4

\* A step of a round is no part of a shutdown, and disturbs others when it writes
\* to its agent's tool.
LEMMA StepParts ==
  ASSUME NEW t \in Threads, Step(t)
  PROVE  /\ UNCHANGED shutdown
         /\ \/ Disturb(t)
            \/ UNCHANGED <<toolChat, toolSent, disturbed>>
BY DEF Step, RoundStart, RoundAnswer, RoundError, RoundCompress, CallOther,
   CallMessage, MessageSend, MessageFails, MessageMark, DirectEnd

\* The parts of the state a step of a round writes besides its record.
LEMMA StepEffects ==
  ASSUME TypeInv, NEW t \in Threads, Step(t)
  PROVE  /\ round[t].msg \in Inbound \cup Direct
         /\ toolChat' \in [Agents -> Chats \cup {Internal}]
         /\ toolSent' \in [Agents -> BOOLEAN]
         /\ outbox' \subseteq Deliveries
         /\ verdict' \in [Inbound \cup Direct -> Verdicts]
         /\ lastCall' \in [Inbound \cup Direct -> {"none", "sent", "failed"}]
         /\ UNCHANGED shutdown
         /\ disturbed' \subseteq Inbound \cup Direct
<1> DEFINE m == round[t].msg
<1>1. /\ m \in Inbound \cup Direct
      /\ m.agent \in Agents
      /\ m.chat \in Chats \cup {Internal}
  <2>1. Busy(t)
    BY StepShape DEF Busy
  <2>2. m \in Inbound \cup Direct
    BY <2>1, ThreadNames DEF TypeInv, RoundsKeepTheirMessage
  <2> QED BY <2>2, MessageParts
<1> USE DEF TypeInv, TypeOK
<1>2. /\ toolChat' \in [Agents -> Chats \cup {Internal}]
      /\ toolSent' \in [Agents -> BOOLEAN]
  BY <1>1 DEF Step, RoundStart, RoundAnswer, RoundError, RoundCompress, CallOther,
     CallMessage, MessageSend, MessageFails, MessageMark, DirectEnd, SetContext
<1>b. ASSUME NEW u \in Threads, InRound(u)
      PROVE  round[u].msg \in Inbound \cup Direct
  BY <1>b, ThreadNames DEF InRound, RoundsKeepTheirMessage, Busy
<1>3. UNCHANGED shutdown /\ disturbed' \subseteq Inbound \cup Direct
  <2>1. CASE Disturb(t)
    BY <1>b, <2>1, StepParts DEF Disturb
  <2>2. CASE UNCHANGED disturbed
    BY <2>2, StepParts
  <2> QED BY <2>1, <2>2, StepParts
<1>4. outbox' \subseteq Deliveries
  <2>1. CASE UNCHANGED outbox
    BY <2>1 DEF Deliveries
  <2>2. ASSUME NEW c \in Chats \cup {Internal},
               NEW v \in {"response", "notice", "result", "tool", "explicit"},
               Emit(t, c, v) \/ Publish(t, c, v)
        PROVE  outbox' \subseteq Deliveries
    BY <1>1, <2>1, <2>2 DEF Emit, Publish, Deliveries
  <2>3. CASE MessageSend(t)
    <3>1. toolChat[m.agent] \in Chats \cup {Internal} /\ round[t].target \in Chats \cup {Internal}
      BY <1>1
    <3> QED BY <2>2, <2>3, <3>1 DEF MessageSend
  <2>4. CASE RoundAnswer(t) \/ RoundCompress(t) \/ CallOther(t)
    BY <1>1, <2>1, <2>2, <2>4 DEF RoundAnswer, RoundCompress, CallOther
  <2> QED BY <2>1, <2>3, <2>4 DEF Step, RoundStart, RoundError,
             CallMessage, MessageFails, MessageMark, DirectEnd
<1>5. /\ verdict' \in [Inbound \cup Direct -> Verdicts]
      /\ lastCall' \in [Inbound \cup Direct -> {"none", "sent", "failed"}]
  BY <1>1 DEF Step, RoundStart, RoundAnswer, RoundError, RoundCompress, CallOther,
     CallMessage, MessageSend, MessageFails, MessageMark, DirectEnd, Verdicts
<1> QED BY <1>1, <1>2, <1>4, <1>5, <1>3

\* Every action keeps the types and the messages of the rounds.
LEMMA TypeStep ==
  ASSUME TypeInv, [Next]_vars
  PROVE  TypeInv'
<1>0. CASE UNCHANGED vars
  BY <1>0 DEF vars, TypeInv, TypeOK, RoundsKeepTheirMessage, Busy
<1> SUFFICES ASSUME Next PROVE TypeInv'
  BY <1>0
<1>t. /\ round \in [Threads -> RoundRecord]
      /\ \A u \in Threads : Within(round[u])
  BY DEF TypeInv, TypeOK, Within, RoundRecord
<1>q. ASSUME round' \in [Threads -> RoundRecord],
             \A u \in Threads : Within(round'[u]),
             inbox' \in Seq(Inbound),
             toolChat' \in [Agents -> Chats \cup {Internal}],
             toolSent' \in [Agents -> BOOLEAN],
             outbox' \subseteq Deliveries,
             shutdown' \in {"running", "cancelled", "closed"},
             verdict' \in [Inbound \cup Direct -> Verdicts],
             lastCall' \in [Inbound \cup Direct -> {"none", "sent", "failed"}],
             disturbed' \subseteq Inbound \cup Direct
      PROVE  TypeOK'
  BY <1>q DEF TypeOK, Within, RoundRecord, Deliveries
<1>o. /\ inbox \in Seq(Inbound)
      /\ toolChat \in [Agents -> Chats \cup {Internal}]
      /\ toolSent \in [Agents -> BOOLEAN]
      /\ outbox \subseteq Deliveries
      /\ shutdown \in {"running", "cancelled", "closed"}
      /\ verdict \in [Inbound \cup Direct -> Verdicts]
      /\ lastCall \in [Inbound \cup Direct -> {"none", "sent", "failed"}]
      /\ disturbed \subseteq Inbound \cup Direct
  BY DEF TypeInv, TypeOK, Deliveries
<1>r. RoundsKeepTheirMessage
  BY DEF TypeInv
<1>1. ASSUME NEW m \in Inbound, Arrive(m) PROVE TypeInv'
  <2>1. UNCHANGED <<round, toolChat, toolSent, outbox, shutdown, verdict, lastCall, disturbed>>
        /\ inbox' \in Seq(Inbound)
    BY <1>1, <1>o DEF Arrive
  <2>2. TypeOK'
    BY <1>t, <1>o, <2>1 DEF TypeOK, Within, RoundRecord, Deliveries
  <2> QED BY <1>r, <2>1, <2>2 DEF TypeInv, RoundsKeepTheirMessage, Busy
<1>2. CASE ContextEnds \/ BusCloses
  <2>1. /\ UNCHANGED <<round, toolChat, toolSent, outbox, verdict, lastCall, disturbed>>
        /\ inbox' = inbox \/ inbox' = <<>>
        /\ shutdown' \in {"running", "cancelled", "closed"}
    BY <1>2 DEF ContextEnds, BusCloses
  <2>2. inbox' \in Seq(Inbound)
    <3>1. <<>> \in Seq(Inbound)
      OBVIOUS
    <3> QED BY <1>o, <2>1, <3>1
  <2>3. TypeOK'
    BY <1>t, <1>o, <2>1, <2>2 DEF TypeOK, Within, RoundRecord, Deliveries
  <2> QED BY <1>r, <2>1, <2>3 DEF TypeInv, RoundsKeepTheirMessage, Busy
<1>3. CASE LoopTake
  <2> DEFINE m == Head(inbox)
  <2>1. m \in Inbound /\ m # NoMessage
    BY <1>3, LoopTakeShape, MessageParts
  <2>2. /\ UNCHANGED <<toolChat, toolSent, outbox, shutdown, lastCall, disturbed>>
        /\ inbox' \in Seq(Inbound)
    BY <1>3, LoopTakeShape DEF LoopTake
  <2>3. CASE /\ verdict' = [verdict EXCEPT ![m] = "silent"]
             /\ UNCHANGED round
    <3>1. verdict' \in [Inbound \cup Direct -> Verdicts]
      BY <1>o, <2>1, <2>3 DEF Verdicts
    <3>2. TypeOK'
      BY <1>o, <1>t, <2>2, <2>3, <3>1 DEF TypeOK, Within, RoundRecord, Deliveries
    <3> QED BY <1>r, <2>3, <3>2 DEF TypeInv, RoundsKeepTheirMessage, Busy
  <2>4. ASSUME NEW p \in {"publish", "start"}, UNCHANGED verdict,
               round' = [round EXCEPT ![Loop] =
                           [pc |-> p, msg |-> m, iter |-> 0, target |-> Internal]]
        PROVE  TypeInv'
    <3>1. PICK r : r = [pc |-> p, msg |-> m, iter |-> 0, target |-> Internal]
      OBVIOUS
    <3>2. Within(r) /\ r.pc = p /\ r.msg = m
      BY <2>1, <3>1, FreshRecord DEF Pcs
    <3>3. /\ round' \in [Threads -> RoundRecord]
          /\ \A u \in Threads : Within(round'[u])
          /\ round'[Loop] = r
          /\ \A u \in Threads \ {Loop} : round'[u] = round[u]
      BY <1>t, <2>4, <3>1, <3>2, RecordsTyped, ThreadNames
    <3>4. RoundsKeepTheirMessage'
      BY <1>r, <2>1, <3>2, <3>3, ThreadNames, MessageParts DEF RoundsKeepTheirMessage, Busy
    <3>5. TypeOK'
      BY <1>o, <1>q, <2>2, <2>4, <3>3
    <3> QED BY <3>4, <3>5 DEF TypeInv
  <2> QED BY <1>3, <2>3, <2>4, LoopTakeShape
<1>4. CASE LoopPublish
  <2>1. /\ round[Loop].pc = "publish"
        /\ round' = [round EXCEPT ![Loop] = Idle]
        /\ UNCHANGED <<inbox, toolChat, toolSent, shutdown, lastCall, disturbed>>
    BY <1>4 DEF LoopPublish
  <2>2. round[Loop].msg \in Inbound /\ round[Loop].msg.chat \in Chats \cup {Internal}
    BY <1>r, <2>1, MessageParts DEF RoundsKeepTheirMessage, Busy
  <2>3. verdict' \in [Inbound \cup Direct -> Verdicts]
    BY <1>4, <1>o, <2>2 DEF LoopPublish, Verdicts
  <2>4. outbox' \subseteq Deliveries
    BY <1>4, <1>o, <2>2 DEF LoopPublish, Publish, Emit, Deliveries
  <2>5. Within(Idle) /\ Idle.pc = "idle" /\ Idle.msg = NoMessage
    BY IdleWith, FreshRecord DEF Pcs
  <2>6. /\ round' \in [Threads -> RoundRecord]
        /\ \A u \in Threads : Within(round'[u])
        /\ round'[Loop] = Idle
        /\ \A u \in Threads \ {Loop} : round'[u] = round[u]
    BY <1>t, <2>1, <2>5, RecordsTyped, ThreadNames
  <2>7. RoundsKeepTheirMessage'
    BY <1>r, <2>5, <2>6, ThreadNames, MessageParts DEF RoundsKeepTheirMessage, Busy
  <2>8. TypeOK'
    BY <1>o, <1>q, <2>1, <2>3, <2>4, <2>6
  <2> QED BY <2>7, <2>8 DEF TypeInv
<1>5. ASSUME NEW t \in Threads, NEW p \in {"start", "stopped"}, Goto(t, p),
             IF t = Loop THEN round[t].pc = "idle" /\ p = "stopped" ELSE p = "start",
             UNCHANGED <<inbox, toolChat, toolSent, outbox, shutdown, verdict, lastCall,
                         disturbed>>
      PROVE  TypeInv'
  <2>1. PICK r : r = [round[t] EXCEPT !.pc = p]
    OBVIOUS
  <2>2. Within(round[t])
    BY <1>t
  <2>3. Within(r) /\ r.pc = p /\ r.msg = round[t].msg
    BY <2>1, <2>2 DEF Within, RoundRecord, Pcs
  <2>4. round' = [round EXCEPT ![t] = r]
    BY <1>5, <2>1 DEF Goto
  <2>5. /\ round' \in [Threads -> RoundRecord]
        /\ \A u \in Threads : Within(round'[u])
        /\ round'[t] = r
        /\ \A u \in Threads \ {t} : round'[u] = round[u]
    BY <1>t, <2>3, <2>4, RecordsTyped
  <2>6. RoundsKeepTheirMessage'
    BY <1>r, <1>5, <2>3, <2>5, ThreadNames, MessageParts DEF RoundsKeepTheirMessage, Busy
  <2>7. TypeOK'
    BY <1>o, <1>q, <1>5, <2>5
  <2> QED BY <2>6, <2>7 DEF TypeInv
<1>6. CASE LoopStop \/ \E t \in Direct : DirectStart(t)
  BY <1>5, <1>6, ThreadNames, MessageParts DEF LoopStop, DirectStart
<1>7. ASSUME NEW t \in Threads, Step(t) PROVE TypeInv'
  <2>1. /\ round' \in [Threads -> RoundRecord]
        /\ round'[t].msg = round[t].msg
        /\ round'[t].iter <= MaxIterations[round[t].msg.agent]
        /\ \A u \in Threads \ {t} : round'[u] = round[u]
        /\ round[t].pc \in {"start", "llm", "execute", "mark", "publish"}
        /\ round'[t].pc \in {"llm", "execute", "mark", "publish", "stopped"}
        /\ round'[t].pc = "stopped" => t \in Direct
        /\ UNCHANGED inbox
    BY <1>7, StepShape DEF RoundRecord
  <2>2. \A u \in Threads : Within(round'[u])
    BY <1>t, <2>1 DEF Within
  <2>3. RoundsKeepTheirMessage'
    BY <1>r, <2>1, ThreadNames, MessageParts DEF RoundsKeepTheirMessage, Busy
  <2>4. TypeOK'
    BY <1>7, <1>o, <1>q, <2>1, <2>2, StepEffects
  <2> QED BY <2>3, <2>4 DEF TypeInv
<1> QED BY <1>1, <1>3, <1>4, <1>6, <1>7, <1>2 DEF Next

\* Every variable of the rounds keeps its type; no round has more iterations
\* than its agent allows.
THEOREM TypeCorrect == Spec => []TypeOK
<1>1. TypeInv /\ [Next]_vars => TypeInv'
  BY TypeStep
<1>2. TypeInv => TypeOK
  BY DEF TypeInv
<1> QED BY TypeInit, <1>1, <1>2, PTL DEF Spec

-----------------------------------------------------------------------------
(* VerdictsSound                                                           *)

OneEach ==
  /\ \A i \in 1..Len(inbox) : /\ verdict[inbox[i]] = "none"
                              /\ inbox[i] # round[Loop].msg
  /\ \A i, j \in 1..Len(inbox) : i # j => inbox[i] # inbox[j]
  /\ round[Loop].msg \in Inbound => verdict[round[Loop].msg] = "none"

\* Only a round that has started calls the message tool.
CalledIsStarted ==
  \A m \in Inbound : lastCall[m] # "none" =>
    verdict[m] # "none" \/ (m = round[Loop].msg /\ round[Loop].pc # "start")

OfDefault(m) == m \in Inbound /\ m.kind = "chat" /\ m.agent = DefaultAgent

\* During a round of the default agent that has the tool to itself the tool's flag
\* is about that round.
FlagIsOfRound ==
  OfDefault(round[Loop].msg) /\ round[Loop].msg \notin disturbed =>
    /\ round[Loop].pc \in {"llm", "publish"} =>
         (toolSent[DefaultAgent] <=> lastCall[round[Loop].msg] = "sent")
    /\ round[Loop].pc \in {"execute", "mark"} => ~ toolSent[DefaultAgent]

Traced(m) == \E d \in outbox : d.for = m /\ d.via # "notice"

SentIsTraced ==
  /\ \A m \in Inbound : lastCall[m] = "sent" => Traced(m)
  /\ round[Loop].pc = "mark" => Traced(round[Loop].msg)

ChatVerdicts ==
  \A m \in Inbound : m.kind = "chat" => verdict[m] \in {"none", "skipped", "answered", "unsent"}

VerdictsInv ==
  /\ TypeInv
  /\ OneEach
  /\ CalledIsStarted
  /\ FlagIsOfRound
  /\ SentIsTraced
  /\ ChatVerdicts
  /\ VerdictsSound

\* What is published stays published, what is disturbed stays so, and a shutdown
\* goes on.
LEMMA HistoryGrows ==
  ASSUME Next
  PROVE  /\ outbox \subseteq outbox'
         /\ disturbed \subseteq disturbed'
         /\ shutdown # "running" => shutdown' # "running"
<1>1. ASSUME NEW t \in Threads, Step(t)
      PROVE  outbox \subseteq outbox'
  BY <1>1 DEF Step, RoundStart, RoundAnswer, RoundError, RoundCompress, CallOther,
     CallMessage, MessageSend, MessageFails, MessageMark, DirectEnd, Emit, Publish
<1>2. ASSUME NEW t \in Threads, Step(t)
      PROVE  disturbed \subseteq disturbed' /\ UNCHANGED shutdown
  BY <1>2, StepParts DEF Disturb
<1> QED BY <1>1, <1>2 DEF Next, Arrive, ContextEnds, BusCloses, LoopTake, LoopPublish,
           LoopStop, DirectStart, Emit, Publish

\* A direct round leaves Run's round and the default agent's flag alone, or counts
\* Run's round as disturbed.
LEMMA DirectLeavesDefault ==
  ASSUME TypeInv, NEW t \in Direct, Step(t)
  PROVE  /\ round'[Loop] = round[Loop]
         /\ \/ toolSent'[DefaultAgent] = toolSent[DefaultAgent]
            \/ /\ InRound(Loop)
               /\ OfDefault(round[Loop].msg)
               => round[Loop].msg \in disturbed'
         /\ \A m \in Inbound : lastCall'[m] = lastCall[m] /\ verdict'[m] = verdict[m]
         /\ UNCHANGED inbox
<1>1. t \in Threads /\ t # Loop /\ round[t].msg = t /\ DefaultAgent \in Agents
  BY ThreadNames, MessageParts, RoundsAssumption
  DEF TypeInv, RoundsKeepTheirMessage, RoundsAssumption
<1>2. round'[Loop] = round[Loop] /\ UNCHANGED inbox
  BY <1>1, StepShape, ThreadNames
<1>3. \A m \in Inbound : lastCall'[m] = lastCall[m] /\ verdict'[m] = verdict[m]
  BY <1>1, MessageParts DEF Step, RoundStart, RoundAnswer, RoundError, RoundCompress,
     CallOther, CallMessage, MessageSend, MessageFails, MessageMark, DirectEnd,
     TypeInv, TypeOK
<1>4. CASE t.agent # DefaultAgent
  <2>1. toolSent'[DefaultAgent] = toolSent[DefaultAgent]
    BY <1>1, <1>4 DEF Step, RoundStart, RoundAnswer, RoundError, RoundCompress, CallOther,
       CallMessage, MessageSend, MessageFails, MessageMark, DirectEnd, SetContext,
       TypeInv, TypeOK
  <2> QED BY <1>2, <1>3, <2>1
<1>5. CASE t.agent = DefaultAgent
  <2>1. CASE Disturb(t)
    <3>1. ASSUME InRound(Loop), OfDefault(round[Loop].msg)
          PROVE  round[Loop].msg \in disturbed'
      BY <1>1, <1>5, <2>1, <3>1, ThreadNames DEF Disturb, OfDefault
    <3> QED BY <1>2, <1>3, <3>1
  <2>2. CASE UNCHANGED toolSent
    BY <1>2, <1>3, <2>2
  <2> QED BY <1>1, <2>1, <2>2, StepParts
<1> QED BY <1>4, <1>5

\* A step of Run's own round, by what it does to the tool's flag and to the
\* record of the round's last call.
LEMMA LoopStepEffects ==
  ASSUME TypeInv, Step(Loop)
  PROVE  LET m == round[Loop].msg IN
         /\ m \in Inbound
         /\ UNCHANGED <<inbox, verdict>>
         /\ round'[Loop].msg = m
         /\ round'[Loop].pc \in {"llm", "execute", "mark", "publish"}
         /\ \A n \in Inbound \ {m} : lastCall'[n] = lastCall[n]
         /\ \/ /\ round[Loop].pc = "start" /\ round'[Loop].pc = "llm"
               /\ ~ toolSent'[m.agent]
               /\ UNCHANGED lastCall
            \/ /\ round[Loop].pc = "llm" /\ round'[Loop].pc \in {"llm", "publish"}
               /\ UNCHANGED <<toolSent, lastCall>>
            \/ /\ round[Loop].pc = "llm" /\ round'[Loop].pc = "execute"
               /\ ~ toolSent'[m.agent]
               /\ UNCHANGED lastCall
            \/ /\ round[Loop].pc = "execute" /\ round'[Loop].pc = "mark"
               /\ UNCHANGED <<toolSent, lastCall>>
               /\ Traced(m)'
            \/ /\ round[Loop].pc = "execute" /\ round'[Loop].pc = "llm"
               /\ UNCHANGED toolSent
               /\ lastCall'[m] = "failed"
            \/ /\ round[Loop].pc = "mark" /\ round'[Loop].pc = "llm"
               /\ toolSent'[m.agent]
               /\ lastCall'[m] = "sent"
<1> DEFINE m == round[Loop].msg
<1>1. /\ Loop \in Threads /\ Loop \notin Direct
      /\ m \in Inbound
      /\ m.agent \in Agents
  BY ThreadNames, MessageParts, StepShape DEF TypeInv, RoundsKeepTheirMessage, Busy
<1>2. /\ UNCHANGED <<inbox, verdict>>
      /\ round'[Loop].msg = m
      /\ round'[Loop].pc \in {"llm", "execute", "mark", "publish"}
  BY <1>1, StepShape
<1>3. \A n \in Inbound \ {m} : lastCall'[n] = lastCall[n]
  BY <1>1 DEF Step, RoundStart, RoundAnswer, RoundError, RoundCompress, CallOther,
     CallMessage, MessageSend, MessageFails, MessageMark, DirectEnd, TypeInv, TypeOK
<1> USE DEF TypeInv, TypeOK, Goto, SetContext
<1>4. CASE RoundStart(Loop)
  BY <1>1, <1>2, <1>3, <1>4 DEF RoundStart
<1>5. CASE RoundAnswer(Loop) \/ RoundError(Loop) \/ RoundCompress(Loop)
  BY <1>1, <1>2, <1>3, <1>5 DEF RoundAnswer, RoundError, RoundCompress, Calling
<1>6. CASE CallOther(Loop)
  <2>1. /\ round[Loop].pc = "llm"
        /\ round' = [round EXCEPT ![Loop].iter = @ + 1]
        /\ UNCHANGED <<toolSent, lastCall>>
    BY <1>6 DEF CallOther, Calling
  <2> QED BY <1>1, <1>2, <1>3, <2>1
<1>7. CASE CallMessage(Loop)
  BY <1>1, <1>2, <1>3, <1>7 DEF CallMessage, Calling
<1>8. CASE MessageSend(Loop)
  <2>1. Traced(m)'
    <3>1. PICK c, v : /\ v \in {"tool", "explicit"}
                      /\ outbox' = outbox \cup {[to |-> c, for |-> m, via |-> v]}
      BY <1>8 DEF MessageSend, Emit
    <3>2. [to |-> c, for |-> m, via |-> v] \in outbox'
      BY <3>1
    <3>3. /\ [to |-> c, for |-> m, via |-> v].for = m
          /\ [to |-> c, for |-> m, via |-> v].via # "notice"
      BY <3>1
    <3>4. \E d \in outbox' : d.for = m /\ d.via # "notice"
      BY <3>2, <3>3
    <3> QED BY <3>4, <1>2 DEF Traced
  <2>2. /\ round[Loop].pc = "execute" /\ round'[Loop].pc = "mark"
        /\ UNCHANGED <<toolSent, lastCall>>
    BY <1>1, <1>8 DEF MessageSend
  <2> QED BY <1>1, <1>2, <1>3, <2>1, <2>2
<1>9. CASE MessageFails(Loop)
  BY <1>1, <1>2, <1>3, <1>9 DEF MessageFails
<1>10. CASE MessageMark(Loop)
  BY <1>1, <1>2, <1>3, <1>10 DEF MessageMark
<1>11. CASE DirectEnd(Loop)
  BY <1>1, <1>11 DEF DirectEnd
<1> QED BY <1>4, <1>5, <1>6, <1>7, <1>8, <1>9, <1>10, <1>11 DEF Step

\* A message is on the bus once or with Run, and not yet over.
LEMMA OneEachStep ==
  ASSUME VerdictsInv, Next
  PROVE  OneEach'
<1> USE DEF OneEach
<1>o. /\ TypeInv /\ OneEach
      /\ inbox \in Seq(Inbound)
      /\ \A i \in 1..Len(inbox) : inbox[i] \in Inbound
  <2>1. TypeInv /\ OneEach /\ inbox \in Seq(Inbound)
    BY DEF VerdictsInv, TypeInv, TypeOK
  <2>2. \A i \in 1..Len(inbox) : inbox[i] \in Inbound
    BY <2>1
  <2> QED BY <2>1, <2>2
<1>v. verdict \in [Inbound \cup Direct -> Verdicts]
  BY DEF VerdictsInv, TypeInv, TypeOK
<1>1. ASSUME NEW m \in Inbound, Arrive(m) PROVE OneEach'
  <2>1. /\ \A i \in 1..Len(inbox) : inbox[i] # m
        /\ verdict[m] = "none"
        /\ m # round[Loop].msg
    BY <1>1, <1>o DEF Arrive, Arrived
  <2>2. /\ inbox' = Append(inbox, m)
        /\ UNCHANGED <<round, verdict>>
    BY <1>1 DEF Arrive
  <2>3. /\ Len(inbox') = Len(inbox) + 1
        /\ \A i \in 1..Len(inbox') : inbox'[i] = IF i = Len(inbox) + 1 THEN m ELSE inbox[i]
    BY <1>o, <2>2
  <2>4. \A i \in 1..Len(inbox') : i # Len(inbox) + 1 => i \in 1..Len(inbox)
    BY <1>o, <2>3
  <2> QED BY <1>o, <2>1, <2>2, <2>3, <2>4
<1>2. CASE ContextEnds \/ BusCloses
  <2>1. UNCHANGED <<round, verdict>> /\ (inbox' = inbox \/ inbox' = <<>>)
    BY <1>2 DEF ContextEnds, BusCloses
  <2>2. CASE inbox' = <<>>
    <3>1. 1..Len(inbox') = {}
      BY <2>2
    <3> QED BY <1>o, <2>1, <3>1
  <2> QED BY <1>o, <2>1, <2>2
<1>3. CASE LoopTake
  <2> DEFINE m == Head(inbox)
  <2>1. inbox # <<>> /\ inbox' = Tail(inbox)
    BY <1>3 DEF LoopTake
  <2>2. m = inbox[1] /\ m \in Inbound /\ 1 \in 1..Len(inbox)
    BY <1>o, <2>1
  <2>3. /\ Len(inbox') = Len(inbox) - 1
        /\ \A i \in 1..Len(inbox') : i + 1 \in 1..Len(inbox) /\ inbox'[i] = inbox[i + 1]
    BY <1>o, <2>1
  <2>4. \A i \in 1..Len(inbox') : inbox'[i] # m /\ verdict[inbox'[i]] = "none"
    BY <1>o, <2>2, <2>3
  <2>5. \A i, j \in 1..Len(inbox') : i # j => inbox'[i] # inbox'[j]
    BY <1>o, <2>3
  <2>6. verdict[m] = "none"
    BY <1>o, <2>2
  <2>7. CASE verdict' = [verdict EXCEPT ![m] = "silent"] /\ UNCHANGED round
    <3>1. \A i \in 1..Len(inbox') : verdict'[inbox'[i]] = "none"
      BY <1>v, <2>4, <2>7
    <3>2. round'[Loop].msg = NoMessage
      BY <1>3, <1>o, <2>7, LoopTakeShape
    <3>3. \A i \in 1..Len(inbox') : inbox'[i] \in Inbound
      BY <1>o, <2>3
    <3> QED BY <2>5, <3>1, <3>2, <3>3, MessageParts
  <2>8. ASSUME NEW p, UNCHANGED verdict,
               round' = [round EXCEPT ![Loop] =
                           [pc |-> p, msg |-> m, iter |-> 0, target |-> Internal]]
        PROVE  OneEach'
    <3>1. round'[Loop].msg = m
      BY <1>o, <2>8, ThreadNames DEF TypeInv, TypeOK
    <3> QED BY <2>4, <2>5, <2>6, <2>8, <3>1
  <2> QED BY <1>3, <1>o, <2>7, <2>8, LoopTakeShape
<1>4. CASE LoopPublish
  <2> DEFINE m == round[Loop].msg
  <2>1. /\ round' = [round EXCEPT ![Loop] = Idle]
        /\ \E v : verdict' = [verdict EXCEPT ![m] = v]
        /\ UNCHANGED inbox
    BY <1>4 DEF LoopPublish
  <2>2. round'[Loop] = Idle /\ Idle.msg = NoMessage
    BY <2>1, <1>o, ThreadNames, IdleWith DEF TypeInv, TypeOK
  <2>3. \A i \in 1..Len(inbox) : verdict'[inbox[i]] = "none"
    BY <1>o, <1>v, <2>1
  <2> QED BY <1>o, <2>1, <2>2, <2>3, MessageParts
<1>5. CASE LoopStop
  <2>1. round'[Loop].msg = round[Loop].msg /\ UNCHANGED <<inbox, verdict>>
    BY <1>5, <1>o, ThreadNames DEF LoopStop, Goto, TypeInv, TypeOK
  <2> QED BY <1>o, <2>1
<1>6. ASSUME NEW t \in Direct, DirectStart(t) PROVE OneEach'
  <2>1. round'[Loop].msg = round[Loop].msg /\ UNCHANGED <<inbox, verdict>>
    BY <1>6, <1>o, ThreadNames, MessageParts DEF DirectStart, Goto, TypeInv, TypeOK
  <2> QED BY <1>o, <2>1
<1>7. ASSUME NEW t \in Threads, Step(t) PROVE OneEach'
  <2>1. CASE t = Loop
    <3>1. round'[Loop].msg = round[Loop].msg /\ UNCHANGED <<inbox, verdict>>
      BY <1>7, <1>o, <2>1, LoopStepEffects
    <3> QED BY <1>o, <3>1
  <2>2. CASE t # Loop
    <3>1. /\ round'[Loop] = round[Loop]
          /\ UNCHANGED inbox
          /\ \A m \in Inbound : verdict'[m] = verdict[m]
      BY <1>7, <1>o, <2>2, DirectLeavesDefault, ThreadNames
    <3> QED BY <1>o, <3>1
  <2> QED BY <2>1, <2>2
<1> QED BY <1>1, <1>3, <1>4, <1>5, <1>6, <1>7, <1>2 DEF Next

\* What a step that is not one of Run's round does to the variables of the
\* other parts: only taking a message or publishing touches Run's record.
LEMMA OutsideRound ==
  ASSUME VerdictsInv, Next,
         ~ LoopTake, ~ LoopPublish, ~ Step(Loop)
  PROVE  /\ round'[Loop].msg = round[Loop].msg
         /\ \/ round'[Loop].pc = round[Loop].pc
            \/ round[Loop].pc = "idle" /\ round'[Loop].pc = "stopped"
         /\ \/ toolSent'[DefaultAgent] = toolSent[DefaultAgent]
            \/ InRound(Loop) /\ OfDefault(round[Loop].msg) => round[Loop].msg \in disturbed'
         /\ \A m \in Inbound : lastCall'[m] = lastCall[m] /\ verdict'[m] = verdict[m]
<1>o. TypeInv /\ Loop \in Threads /\ round[Loop].pc \in Pcs
  BY ThreadNames DEF VerdictsInv, TypeInv, TypeOK
<1>1. ASSUME NEW m \in Inbound, Arrive(m)
      PROVE  UNCHANGED <<round, toolSent, lastCall, verdict>>
  BY <1>1 DEF Arrive
<1>2. CASE ContextEnds \/ BusCloses
  BY <1>2 DEF ContextEnds, BusCloses
<1>3. CASE LoopStop
  BY <1>o, <1>3 DEF LoopStop, Goto, TypeInv, TypeOK
<1>4. ASSUME NEW t \in Direct, DirectStart(t)
      PROVE  round'[Loop] = round[Loop] /\ UNCHANGED <<toolSent, lastCall, verdict>>
  BY <1>o, <1>4, ThreadNames, MessageParts DEF DirectStart, Goto, TypeInv, TypeOK
<1>5. ASSUME NEW t \in Threads \ {Loop}, Step(t)
      PROVE  /\ round'[Loop] = round[Loop]
             /\ \/ toolSent'[DefaultAgent] = toolSent[DefaultAgent]
                \/ InRound(Loop) /\ OfDefault(round[Loop].msg)
                     => round[Loop].msg \in disturbed'
             /\ \A m \in Inbound : lastCall'[m] = lastCall[m] /\ verdict'[m] = verdict[m]
  BY <1>o, <1>5, DirectLeavesDefault, ThreadNames
<1> QED BY <1>1, <1>3, <1>4, <1>5, <1>2 DEF Next

\* Run takes a message whose round is not over, and sends nothing by it.
LEMMA LoopTakeEffects ==
  ASSUME VerdictsInv, LoopTake
  PROVE  LET m == Head(inbox) IN
         /\ m \in Inbound
         /\ verdict[m] = "none"
         /\ round[Loop].msg = NoMessage
         /\ UNCHANGED <<toolSent, lastCall, outbox>>
         /\ \/ /\ m.kind = "system"
               /\ verdict' = [verdict EXCEPT ![m] = "silent"]
               /\ UNCHANGED round
            \/ /\ UNCHANGED verdict
               /\ round'[Loop].msg = m
               /\ \/ round'[Loop].pc = "start"
                  \/ round'[Loop].pc = "publish" /\ m.kind = "command"
<1> DEFINE m == Head(inbox)
<1>1. TypeInv /\ OneEach
  BY DEF VerdictsInv
<1>2. m \in Inbound /\ round[Loop].msg = NoMessage
  BY <1>1, LoopTakeShape
<1>3. verdict[m] = "none"
  <2>1. inbox # <<>> /\ inbox \in Seq(Inbound)
    BY <1>1 DEF LoopTake, TypeInv, TypeOK
  <2>2. 1 \in 1..Len(inbox) /\ m = inbox[1]
    BY <2>1
  <2> QED BY <1>1, <2>2 DEF OneEach
<1>4. UNCHANGED <<toolSent, lastCall, outbox>>
  BY DEF LoopTake
<1>5. ASSUME NEW p \in {"publish", "start"}, p = "publish" => m.kind = "command",
             UNCHANGED verdict,
             round' = [round EXCEPT ![Loop] =
                         [pc |-> p, msg |-> m, iter |-> 0, target |-> Internal]]
      PROVE  /\ round'[Loop].msg = m
             /\ \/ round'[Loop].pc = "start"
                \/ round'[Loop].pc = "publish" /\ m.kind = "command"
  BY <1>1, <1>5, ThreadNames DEF TypeInv, TypeOK
<1> QED BY <1>1, <1>2, <1>3, <1>4, <1>5, LoopTakeShape

\* What Run publishes is traced, and what it withholds was sent by the tool.
LEMMA LoopPublishEffects ==
  ASSUME VerdictsInv, LoopPublish
  PROVE  LET m == round[Loop].msg IN
         /\ m \in Inbound
         /\ round[Loop].pc = "publish"
         /\ round'[Loop].msg = NoMessage /\ round'[Loop].pc = "idle"
         /\ UNCHANGED <<toolSent, lastCall>>
         /\ \A n \in Inbound \ {m} : verdict'[n] = verdict[n]
         /\ \/ toolSent[DefaultAgent] /\ verdict'[m] = "skipped"
            \/ /\ ~ toolSent[DefaultAgent]
               /\ verdict'[m] = "answered"
               /\ \E d \in outbox' : d.for = m /\ d.via # "notice"
            \/ /\ ~ toolSent[DefaultAgent]
               /\ verdict'[m] = "unsent"
               /\ shutdown # "running"
<1> DEFINE m == round[Loop].msg
<1>1. TypeInv /\ verdict \in [Inbound \cup Direct -> Verdicts]
  BY DEF VerdictsInv, TypeInv, TypeOK
<1>2. round[Loop].pc = "publish" /\ m \in Inbound
  BY <1>1 DEF LoopPublish, TypeInv, RoundsKeepTheirMessage, Busy
<1>3. round'[Loop] = Idle /\ Idle.msg = NoMessage /\ Idle.pc = "idle"
  BY <1>1, ThreadNames, IdleWith DEF LoopPublish, TypeInv, TypeOK
<1>4. UNCHANGED <<toolSent, lastCall>>
  BY DEF LoopPublish
<1>5. CASE toolSent[DefaultAgent]
  BY <1>1, <1>2, <1>3, <1>4, <1>5 DEF LoopPublish
<1>6. CASE ~ toolSent[DefaultAgent] /\ ~ CanPublish(Loop)
  <2>1. verdict' = [verdict EXCEPT ![m] = "unsent"] /\ shutdown # "running"
    BY <1>6 DEF LoopPublish, CanPublish
  <2> QED BY <1>1, <1>2, <1>3, <1>4, <1>6, <2>1
<1>7. CASE ~ toolSent[DefaultAgent] /\ CanPublish(Loop)
  <2>1. verdict' = [verdict EXCEPT ![m] = "answered"]
    BY <1>7 DEF LoopPublish
  <2>2. PICK c : outbox' = outbox \cup {[to |-> c, for |-> m, via |-> "response"]}
    BY <1>7 DEF LoopPublish, Publish, Emit
  <2>3. \E d \in outbox' : d.for = m /\ d.via # "notice"
    <3>1. [to |-> c, for |-> m, via |-> "response"] \in outbox'
      BY <2>2
    <3>2. /\ [to |-> c, for |-> m, via |-> "response"].for = m
          /\ [to |-> c, for |-> m, via |-> "response"].via # "notice"
      OBVIOUS
    <3> QED BY <3>1, <3>2
  <2> QED BY <1>1, <1>2, <1>3, <1>4, <1>7, <2>1, <2>3
<1> QED BY <1>5, <1>7, <1>6

\* What a message tool call has recorded is of a round that has started.
LEMMA CalledStep ==
  ASSUME VerdictsInv, Next
  PROVE  CalledIsStarted'
<1> SUFFICES ASSUME NEW m \in Inbound, lastCall'[m] # "none"
             PROVE  verdict'[m] # "none" \/ (m = round'[Loop].msg /\ round'[Loop].pc # "start")
  BY DEF CalledIsStarted
<1>v. verdict \in [Inbound \cup Direct -> Verdicts] /\ TypeInv
  BY DEF VerdictsInv, TypeInv, TypeOK
<1>c. lastCall[m] # "none" =>
        verdict[m] # "none" \/ (m = round[Loop].msg /\ round[Loop].pc # "start")
  BY DEF VerdictsInv, CalledIsStarted
<1>1. CASE LoopTake
  <2>1. verdict[m] # "none" /\ m # Head(inbox)
    BY <1>1, <1>c, LoopTakeEffects, MessageParts
  <2>2. verdict'[m] = verdict[m]
    BY <1>1, <1>v, <2>1, LoopTakeEffects
  <2> QED BY <2>1, <2>2
<1>2. CASE LoopPublish
  <2>1. CASE m = round[Loop].msg
    BY <1>2, <2>1, LoopPublishEffects
  <2>2. CASE m # round[Loop].msg
    BY <1>2, <1>c, <2>2, LoopPublishEffects
  <2> QED BY <2>1, <2>2
<1>3. CASE Step(Loop)
  <2>1. CASE m = round[Loop].msg
    BY <1>3, <1>v, <2>1, LoopStepEffects
  <2>2. CASE m # round[Loop].msg
    BY <1>3, <1>v, <1>c, <2>2, LoopStepEffects
  <2> QED BY <2>1, <2>2
<1>4. CASE ~ LoopTake /\ ~ LoopPublish /\ ~ Step(Loop)
  BY <1>4, <1>c, OutsideRound
<1> QED BY <1>1, <1>2, <1>3, <1>4

\* Each call of the tool and each start of a round sets the flag back; only the
\* round's own call sets it.
LEMMA FlagStep ==
  ASSUME VerdictsInv, Next
  PROVE  FlagIsOfRound'
<1>v. /\ TypeInv /\ FlagIsOfRound /\ OneEach /\ CalledIsStarted
      /\ \A m : m \notin disturbed' => m \notin disturbed
  BY HistoryGrows DEF VerdictsInv
<1>n. ~ OfDefault(NoMessage)
  BY MessageParts DEF OfDefault
<1>1. CASE LoopTake
  BY <1>1, <1>v, <1>n, LoopTakeEffects DEF FlagIsOfRound, OfDefault
<1>2. CASE LoopPublish
  BY <1>2, <1>n, LoopPublishEffects DEF FlagIsOfRound, OfDefault
<1>3. CASE Step(Loop)
  <2> DEFINE m == round[Loop].msg
  <2>1. m \in Inbound /\ round'[Loop].msg = m
    BY <1>3, <1>v, LoopStepEffects
  <2>2. SUFFICES ASSUME m.kind = "chat", m.agent = DefaultAgent, m \notin disturbed'
                 PROVE  /\ round'[Loop].pc \in {"llm", "publish"} =>
                             (toolSent'[DefaultAgent] <=> lastCall'[m] = "sent")
                        /\ round'[Loop].pc \in {"execute", "mark"} => ~ toolSent'[DefaultAgent]
    BY <2>1 DEF FlagIsOfRound, OfDefault
  <2>3. /\ round[Loop].pc \in {"llm", "publish"} =>
             (toolSent[DefaultAgent] <=> lastCall[m] = "sent")
        /\ round[Loop].pc \in {"execute", "mark"} => ~ toolSent[DefaultAgent]
    BY <1>v, <2>1, <2>2 DEF FlagIsOfRound, OfDefault
  <2>4. round[Loop].pc = "start" => lastCall[m] = "none"
    BY <1>v, <2>1 DEF OneEach, CalledIsStarted
  <2>5. \/ /\ round[Loop].pc = "start" /\ round'[Loop].pc = "llm"
           /\ ~ toolSent'[DefaultAgent]
           /\ UNCHANGED lastCall
        \/ /\ round[Loop].pc = "llm" /\ round'[Loop].pc \in {"llm", "publish"}
           /\ UNCHANGED <<toolSent, lastCall>>
        \/ /\ round[Loop].pc = "llm" /\ round'[Loop].pc = "execute"
           /\ ~ toolSent'[DefaultAgent]
        \/ /\ round[Loop].pc = "execute" /\ round'[Loop].pc = "mark"
           /\ UNCHANGED <<toolSent, lastCall>>
        \/ /\ round[Loop].pc = "execute" /\ round'[Loop].pc = "llm"
           /\ UNCHANGED toolSent
           /\ lastCall'[m] = "failed"
        \/ /\ round[Loop].pc = "mark" /\ round'[Loop].pc = "llm"
           /\ toolSent'[DefaultAgent]
           /\ lastCall'[m] = "sent"
    BY <1>3, <1>v, <2>2, LoopStepEffects
  <2> QED BY <2>3, <2>4, <2>5
<1>4. CASE ~ LoopTake /\ ~ LoopPublish /\ ~ Step(Loop)
  <2>1. /\ round'[Loop].msg = round[Loop].msg
        /\ \/ round'[Loop].pc = round[Loop].pc
           \/ round'[Loop].pc = "stopped"
        /\ \/ toolSent'[DefaultAgent] = toolSent[DefaultAgent]
           \/ InRound(Loop) /\ OfDefault(round[Loop].msg) => round[Loop].msg \in disturbed'
        /\ \A m \in Inbound : lastCall'[m] = lastCall[m]
    BY <1>4, OutsideRound
  <2> QED BY <1>v, <2>1 DEF FlagIsOfRound, OfDefault, InRound
<1> QED BY <1>1, <1>2, <1>3, <1>4

\* The flag is set after the message was published.
LEMMA SentStep ==
  ASSUME VerdictsInv, Next
  PROVE  SentIsTraced'
<1>v. TypeInv /\ SentIsTraced
  BY DEF VerdictsInv
<1>g. \A m : Traced(m) => \E d \in outbox' : d.for = m /\ d.via # "notice"
  BY HistoryGrows DEF Traced
<1>s. SUFFICES /\ \A m \in Inbound : lastCall'[m] = "sent" =>
                    \E d \in outbox' : d.for = m /\ d.via # "notice"
               /\ round'[Loop].pc = "mark" =>
                    \E d \in outbox' : d.for = round'[Loop].msg /\ d.via # "notice"
  BY DEF SentIsTraced, Traced
<1>1. CASE LoopTake
  <2>1. UNCHANGED lastCall /\ (UNCHANGED round \/ round'[Loop].pc \in {"start", "publish"})
    BY <1>1, LoopTakeEffects
  <2> QED BY <1>v, <1>g, <2>1 DEF SentIsTraced
<1>2. CASE LoopPublish
  <2>1. UNCHANGED lastCall /\ round'[Loop].pc = "idle"
    BY <1>2, LoopPublishEffects
  <2> QED BY <1>v, <1>g, <2>1 DEF SentIsTraced
<1>3. CASE Step(Loop)
  <2> DEFINE m == round[Loop].msg
  <2>1. /\ m \in Inbound
        /\ round'[Loop].msg = m
        /\ \A n \in Inbound \ {m} : lastCall'[n] = lastCall[n]
    BY <1>3, <1>v, LoopStepEffects
  <2>2. \/ lastCall'[m] = lastCall[m] /\ round'[Loop].pc # "mark"
        \/ /\ lastCall'[m] = lastCall[m]
           /\ \E d \in outbox' : d.for = m /\ d.via # "notice"
        \/ lastCall'[m] = "failed" /\ round'[Loop].pc # "mark"
        \/ round[Loop].pc = "mark" /\ round'[Loop].pc # "mark"
    BY <1>3, <1>v, LoopStepEffects DEF Traced
  <2> QED BY <1>v, <1>g, <2>1, <2>2 DEF SentIsTraced
<1>4. CASE ~ LoopTake /\ ~ LoopPublish /\ ~ Step(Loop)
  <2>1. /\ round'[Loop].msg = round[Loop].msg
        /\ \/ round'[Loop].pc = round[Loop].pc
           \/ round'[Loop].pc = "stopped"
        /\ \A m \in Inbound : lastCall'[m] = lastCall[m]
    BY <1>4, OutsideRound
  <2> QED BY <1>v, <1>g, <2>1 DEF SentIsTraced
<1> QED BY <1>1, <1>2, <1>3, <1>4

\* Run publishes or withholds by the flag of the round it has in hand.
LEMMA VerdictStep ==
  ASSUME VerdictsInv, Next
  PROVE  ChatVerdicts' /\ VerdictsSound'
<1>v. /\ TypeInv /\ ChatVerdicts /\ SkipFollowsLastCall /\ NoRoundVanishes
      /\ FlagIsOfRound /\ SentIsTraced /\ OneEach
      /\ verdict \in [Inbound \cup Direct -> Verdicts]
  BY DEF VerdictsInv, VerdictsSound, TypeInv, TypeOK
<1>g. /\ \A m : Traced(m) => \E d \in outbox' : d.for = m /\ d.via # "notice"
      /\ \A m : m \in disturbed => m \in disturbed'
      /\ shutdown # "running" => shutdown' # "running"
  BY HistoryGrows DEF Traced
<1>s. SUFFICES ASSUME NEW m \in Inbound, m.kind = "chat"
               PROVE  /\ verdict'[m] \in {"none", "skipped", "answered", "unsent"}
                      /\ m.agent = DefaultAgent =>
                           /\ m \notin disturbed' =>
                                /\ verdict'[m] = "skipped" => lastCall'[m] = "sent"
                                /\ verdict'[m] \in {"answered", "unsent"} =>
                                     lastCall'[m] # "sent"
                           /\ verdict'[m] # "none" =>
                                \/ \E d \in outbox' : d.for = m /\ d.via # "notice"
                                \/ verdict'[m] = "unsent" /\ shutdown' # "running"
                                \/ verdict'[m] = "skipped" /\ m \in disturbed'
  BY DEF ChatVerdicts, VerdictsSound, SkipFollowsLastCall, NoRoundVanishes
<1>1. /\ verdict[m] \in {"none", "skipped", "answered", "unsent"}
      /\ m.agent = DefaultAgent =>
           /\ m \notin disturbed =>
                /\ verdict[m] = "skipped" => lastCall[m] = "sent"
                /\ verdict[m] \in {"answered", "unsent"} => lastCall[m] # "sent"
           /\ verdict[m] # "none" =>
                \/ Traced(m)
                \/ verdict[m] = "unsent" /\ shutdown # "running"
                \/ verdict[m] = "skipped" /\ m \in disturbed
  BY <1>v, <1>s DEF ChatVerdicts, SkipFollowsLastCall, NoRoundVanishes, Traced
<1>2. CASE verdict'[m] = verdict[m] /\ (verdict[m] = "none" \/ lastCall'[m] = lastCall[m])
  BY <1>1, <1>2, <1>g
<1>3. CASE LoopTake
  <2>1. m # Head(inbox) => verdict'[m] = verdict[m]
    BY <1>3, <1>v, LoopTakeEffects
  <2>2. m = Head(inbox) => verdict'[m] = verdict[m]
    BY <1>3, <1>s, LoopTakeEffects
  <2>3. UNCHANGED lastCall
    BY <1>3, LoopTakeEffects
  <2> QED BY <1>2, <2>1, <2>2, <2>3
<1>4. CASE LoopPublish
  <2>1. UNCHANGED lastCall
    BY <1>4, LoopPublishEffects
  <2>2. CASE m # round[Loop].msg
    <3>1. verdict'[m] = verdict[m]
      BY <1>4, <2>2, LoopPublishEffects
    <3> QED BY <1>2, <2>1, <3>1
  <2>3. CASE m = round[Loop].msg
    <3>1. /\ round[Loop].pc = "publish"
          /\ \/ toolSent[DefaultAgent] /\ verdict'[m] = "skipped"
             \/ /\ ~ toolSent[DefaultAgent]
                /\ verdict'[m] = "answered"
                /\ \E d \in outbox' : d.for = m /\ d.via # "notice"
             \/ /\ ~ toolSent[DefaultAgent]
                /\ verdict'[m] = "unsent"
                /\ shutdown # "running"
      BY <1>4, <2>3, LoopPublishEffects
    <3>2. m.agent = DefaultAgent /\ m \notin disturbed =>
            (toolSent[DefaultAgent] <=> lastCall[m] = "sent")
      BY <1>v, <1>s, <2>3, <3>1 DEF FlagIsOfRound, OfDefault
    <3>3. lastCall[m] = "sent" => \E d \in outbox' : d.for = m /\ d.via # "notice"
      BY <1>v, <1>g DEF SentIsTraced
    <3> QED BY <1>g, <2>1, <3>1, <3>2, <3>3
  <2> QED BY <2>2, <2>3
<1>5. CASE Step(Loop)
  <2>1. UNCHANGED verdict
    BY <1>5, <1>v, LoopStepEffects
  <2>2. m = round[Loop].msg => verdict[m] = "none"
    BY <1>v DEF OneEach
  <2>3. m # round[Loop].msg => lastCall'[m] = lastCall[m]
    BY <1>5, <1>v, LoopStepEffects
  <2> QED BY <1>2, <2>1, <2>2, <2>3
<1>6. CASE ~ LoopTake /\ ~ LoopPublish /\ ~ Step(Loop)
  <2>1. lastCall'[m] = lastCall[m] /\ verdict'[m] = verdict[m]
    BY <1>6, OutsideRound
  <2> QED BY <1>2, <2>1
<1> QED BY <1>3, <1>4, <1>5, <1>6

\* The response of a chat message's round that has the tool to itself is withheld
\* exactly when its last message tool call went through; a round that is over has
\* sent something, unless the gateway was shutting down or another round's call
\* was taken for its own.
THEOREM VerdictsHold == Spec => []VerdictsSound
<1>1. Init => VerdictsInv
  <2> SUFFICES ASSUME Init PROVE VerdictsInv
    OBVIOUS
  <2>1. TypeInv /\ round[Loop].msg = NoMessage /\ round[Loop].pc = "idle"
    <3>1. round[Loop] = Idle
      BY ThreadNames DEF Init
    <3>2. Idle.msg = NoMessage /\ Idle.pc = "idle"
      BY DEF Idle
    <3> QED BY <3>1, <3>2, TypeInit
  <2>2. /\ inbox = <<>>
        /\ \A m \in Inbound : verdict[m] = "none" /\ lastCall[m] = "none"
    BY DEF Init
  <2>3. OneEach
    BY <2>1, <2>2, MessageParts DEF OneEach
  <2>4. CalledIsStarted /\ SentIsTraced /\ ChatVerdicts
    BY <2>1, <2>2 DEF CalledIsStarted, SentIsTraced, ChatVerdicts
  <2>5. FlagIsOfRound
    BY <2>1, MessageParts DEF FlagIsOfRound, OfDefault
  <2>6. VerdictsSound
    BY <2>2 DEF VerdictsSound, SkipFollowsLastCall, NoRoundVanishes
  <2> QED BY <2>1, <2>3, <2>4, <2>5, <2>6 DEF VerdictsInv
<1>2. VerdictsInv /\ [Next]_vars => VerdictsInv'
  <2> SUFFICES ASSUME VerdictsInv, [Next]_vars PROVE VerdictsInv'
    OBVIOUS
  <2>1. TypeInv'
    BY TypeStep DEF VerdictsInv
  <2>2. CASE Next
    BY <2>1, <2>2, OneEachStep, CalledStep, FlagStep, SentStep, VerdictStep DEF VerdictsInv
  <2>3. CASE UNCHANGED vars
    BY <2>1, <2>3 DEF vars, VerdictsInv, OneEach, CalledIsStarted, FlagIsOfRound, OfDefault,
       SentIsTraced, Traced, ChatVerdicts, VerdictsSound, SkipFollowsLastCall, NoRoundVanishes
  <2> QED BY <2>2, <2>3
<1>3. VerdictsInv => VerdictsSound
  BY DEF VerdictsInv
<1> QED BY <1>1, <1>2, <1>3, PTL DEF Spec

-----------------------------------------------------------------------------
(* UndisturbedTargets                                                      *)

\* The tool has the target of a call that is about to be executed.
TargetsSet ==
  \A t \in Threads :
    round[t].pc = "execute" /\ round[t].msg \notin disturbed =>
      toolChat[round[t].msg.agent] = round[t].msg.chat

\* A call sets its agent's default target and uses it; who sets it in between
\* disturbs the round.
LEMMA TargetStep ==
  ASSUME TypeInv, TargetsSet, UndisturbedTargets, [Next]_vars
  PROVE  TargetsSet' /\ UndisturbedTargets'
<1>0. CASE UNCHANGED vars
  BY <1>0 DEF vars, TargetsSet, UndisturbedTargets
<1> SUFFICES ASSUME Next PROVE TargetsSet' /\ UndisturbedTargets'
  BY <1>0
<1>g. \A m : m \notin disturbed' => m \notin disturbed
  BY HistoryGrows
<1>1. ASSUME UNCHANGED toolChat,
             \A u \in Threads : \/ round'[u] = round[u]
                                \/ round'[u].pc # "execute"
      PROVE  TargetsSet'
  BY <1>1, <1>g DEF TargetsSet
<1>2. ASSUME NEW t \in Threads, Step(t)
      PROVE  TargetsSet' /\ UndisturbedTargets'
  <2> DEFINE m == round[t].msg
  <2>1. /\ m \in Inbound \cup Direct
        /\ m.agent \in Agents
        /\ round'[t].msg = m
        /\ \A u \in Threads \ {t} : round'[u] = round[u]
    BY <1>2, StepShape, StepEffects, MessageParts
  <2>2. ASSUME NEW u \in Threads \ {t}, round[u].pc = "execute",
               round[u].msg \notin disturbed'
        PROVE  UNCHANGED toolChat \/ round[u].msg.agent # m.agent
    BY <1>2, <2>2, StepParts DEF Disturb, InRound
  <2>3. /\ UNCHANGED toolChat \/ toolChat' = [toolChat EXCEPT ![m.agent] = m.chat]
        /\ round'[t].pc = "execute" =>
             \/ toolChat' = [toolChat EXCEPT ![m.agent] = m.chat]
             \/ UNCHANGED toolChat /\ round[t].pc = "execute"
    BY <1>2, <2>1 DEF Step, RoundStart, RoundAnswer, RoundError, RoundCompress, CallOther,
       CallMessage, MessageSend, MessageFails, MessageMark, DirectEnd, SetContext, Goto,
       Calling, TypeInv, TypeOK
  <2>4. TargetsSet'
    <3> SUFFICES ASSUME NEW u \in Threads, round'[u].pc = "execute",
                        round'[u].msg \notin disturbed'
                 PROVE  toolChat'[round'[u].msg.agent] = round'[u].msg.chat
      BY DEF TargetsSet
    <3>1. CASE u = t
      <4>1. round'[u].msg = m /\ m \notin disturbed
        BY <1>g, <2>1, <3>1
      <4>2. CASE toolChat' = [toolChat EXCEPT ![m.agent] = m.chat]
        BY <2>1, <4>1, <4>2 DEF TypeInv, TypeOK
      <4>3. CASE UNCHANGED toolChat /\ round[t].pc = "execute"
        BY <4>1, <4>3 DEF TargetsSet
      <4> QED BY <2>3, <3>1, <4>2, <4>3
    <3>2. CASE u # t
      <4>1. /\ round[u].pc = "execute"
            /\ round'[u].msg = round[u].msg
            /\ UNCHANGED toolChat \/ round[u].msg.agent # m.agent
            /\ round[u].msg \notin disturbed
            /\ round[u].msg.agent \in Agents
        BY <1>g, <2>1, <2>2, <3>2, MessageParts DEF TypeInv, TypeOK
      <4> QED BY <2>3, <4>1 DEF TargetsSet, TypeInv, TypeOK
    <3> QED BY <3>1, <3>2
  <2>5. UndisturbedTargets'
    <3>1. CASE MessageSend(t)
      <4>1. m \notin disturbed => toolChat[m.agent] = m.chat
        BY <3>1 DEF MessageSend, TargetsSet
      <4>2. PICK c, v : /\ v = "tool" /\ m \notin disturbed => c = m.chat
                        /\ outbox' = outbox \cup {[to |-> c, for |-> m, via |-> v]}
        BY <3>1, <4>1 DEF MessageSend, Emit
      <4> QED BY <1>g, <4>2 DEF UndisturbedTargets
    <3>2. CASE ~ MessageSend(t)
      <4>1. \/ UNCHANGED outbox
            \/ \E c, v : /\ v # "tool"
                         /\ outbox' = outbox \cup {[to |-> c, for |-> m, via |-> v]}
        BY <1>2, <3>2 DEF Step, RoundStart, RoundAnswer, RoundError, RoundCompress,
           CallOther, CallMessage, MessageFails, MessageMark, DirectEnd, Emit, Publish
      <4> QED BY <1>g, <4>1 DEF UndisturbedTargets
    <3> QED BY <3>1, <3>2
  <2> QED BY <2>4, <2>5
<1>3. CASE LoopTake
  <2>1. UNCHANGED <<toolChat, outbox>>
    BY <1>3 DEF LoopTake
  <2>2. \A u \in Threads : round'[u] = round[u] \/ round'[u].pc # "execute"
    BY <1>3, LoopTakeShape, ThreadNames DEF TypeInv, TypeOK
  <2> QED BY <1>1, <1>g, <2>1, <2>2 DEF UndisturbedTargets
<1>4. CASE LoopPublish
  <2>1. UNCHANGED toolChat /\ round' = [round EXCEPT ![Loop] = Idle]
    BY <1>4 DEF LoopPublish
  <2>2. \A u \in Threads : round'[u] = round[u] \/ round'[u].pc # "execute"
    BY <2>1, IdleWith, ThreadNames DEF TypeInv, TypeOK
  <2>3. \/ UNCHANGED outbox
        \/ \E c, m : outbox' = outbox \cup {[to |-> c, for |-> m, via |-> "response"]}
    BY <1>4 DEF LoopPublish, Publish, Emit
  <2>4. UndisturbedTargets'
    BY <1>g, <2>3 DEF UndisturbedTargets
  <2> QED BY <1>1, <2>1, <2>2, <2>4
<1>5. ASSUME LoopStop \/ \E t \in Direct : DirectStart(t)
      PROVE  TargetsSet' /\ UndisturbedTargets'
  <2>1. UNCHANGED <<toolChat, outbox>>
    BY <1>5 DEF LoopStop, DirectStart
  <2>2. \A u \in Threads : round'[u] = round[u] \/ round'[u].pc # "execute"
    BY <1>5, ThreadNames DEF LoopStop, DirectStart, Goto, TypeInv, TypeOK
  <2> QED BY <1>1, <1>g, <2>1, <2>2 DEF UndisturbedTargets
<1>6. ASSUME NEW m \in Inbound, Arrive(m)
      PROVE  TargetsSet' /\ UndisturbedTargets'
  BY <1>6 DEF Arrive, TargetsSet, UndisturbedTargets
<1>7. CASE ContextEnds \/ BusCloses
  BY <1>7 DEF ContextEnds, BusCloses, TargetsSet, UndisturbedTargets
<1> QED BY <1>2, <1>3, <1>4, <1>5, <1>6, <1>7 DEF Next

\* A message tool call without a target goes to the chat its round is about, if no
\* other round of the agent has written to the tool meanwhile.
THEOREM TargetsHold == Spec => []UndisturbedTargets
<1> DEFINE TargetInv == TypeInv /\ TargetsSet /\ UndisturbedTargets
<1>1. Init => TargetInv
  <2> SUFFICES ASSUME Init PROVE TargetInv
    OBVIOUS
  <2>1. \A t \in Threads : round[t].pc # "execute"
    <3>1. round[Loop].pc # "execute"
      <4>1. round[Loop] = Idle
        BY ThreadNames DEF Init
      <4>2. Idle.pc = "idle"
        BY DEF Idle
      <4> QED BY <4>1, <4>2
    <3>2. ASSUME NEW t \in Direct PROVE round[t].pc # "execute"
      <4>1. round[t] = [Idle EXCEPT !.pc = "waiting", !.msg = t] /\ "waiting" \in Pcs
        BY ThreadNames, MessageParts DEF Init, Pcs
      <4>2. round[t] = [pc |-> "waiting", msg |-> t, iter |-> 0, target |-> Internal]
        BY <4>1, IdleWith, Zenon
      <4> QED BY <4>2
    <3> QED BY <3>1, <3>2, ThreadNames
  <2>2. TargetsSet /\ UndisturbedTargets
    BY <2>1 DEF Init, TargetsSet, UndisturbedTargets
  <2> QED BY <2>2, TypeInit
<1>2. TargetInv /\ [Next]_vars => TargetInv'
  BY TypeStep, TargetStep
<1>3. TargetInv => UndisturbedTargets
  OBVIOUS
<1> QED BY <1>1, <1>2, <1>3, PTL DEF Spec

=============================================================================
