------------------------ MODULE ChannelManagerProofs ------------------------
(* Proofs about ChannelManager, for any channels, messages, callers, queue   *)
(* size and number of retries: a closed queue is served to its end, and the  *)
(* messages of a chat keep their order on the way to the platform.           *)
EXTENDS ChannelManager, TLAPS

Outcomes == Final \cup {"none", "failing"}
Busy(l, c) == work[l][c].pc \in {"limiter", "token", "send", "sleep"}
Held(l) == disp[l].pc \in {"lookup", "enqueue"}
Active(m) == work[m.lane][m.to].msg = m /\ Busy(m.lane, m.to)
Queued(m) == \E i \in DOMAIN queue[m.lane][m.to] : queue[m.lane][m.to][i] = m

-----------------------------------------------------------------------------
(* Sequences                                                               *)

LEMMA TailAt ==
  ASSUME NEW S, NEW q \in Seq(S), q # <<>>
  PROVE  /\ Tail(q) \in Seq(S) /\ Head(q) \in S /\ Head(q) = q[1] /\ 1 \in DOMAIN q
         /\ Len(Tail(q)) = Len(q) - 1 /\ Len(q) \in Nat
         /\ \A i \in DOMAIN Tail(q) : i + 1 \in DOMAIN q /\ Tail(q)[i] = q[i + 1] /\ i \in Nat
         /\ \A i \in DOMAIN q : i # 1 => i - 1 \in DOMAIN Tail(q) /\ Tail(q)[i - 1] = q[i]
  OBVIOUS

LEMMA AppendAt ==
  ASSUME NEW S, NEW q \in Seq(S), NEW x \in S
  PROVE  /\ Append(q, x) \in Seq(S) /\ Len(Append(q, x)) = Len(q) + 1 /\ Len(q) \in Nat
         /\ \A i \in DOMAIN q : i \in DOMAIN Append(q, x) /\ Append(q, x)[i] = q[i] /\ q[i] \in S
         /\ Len(q) + 1 \in DOMAIN Append(q, x) /\ Append(q, x)[Len(q) + 1] = x
         /\ \A i \in DOMAIN Append(q, x) :
              /\ i \in Nat
              /\ \/ i = Len(q) + 1 /\ Append(q, x)[i] = x
                 \/ i \in DOMAIN q /\ i < Len(q) + 1 /\ Append(q, x)[i] = q[i]
<1>1. /\ Append(q, x) \in Seq(S) /\ Len(Append(q, x)) = Len(q) + 1 /\ Len(q) \in Nat
      /\ DOMAIN q = 1..Len(q) /\ DOMAIN Append(q, x) = 1..Len(q) + 1
      /\ Append(q, x)[Len(q) + 1] = x
  OBVIOUS
<1>2. \A i \in 1..Len(q) : Append(q, x)[i] = q[i] /\ q[i] \in S
  OBVIOUS
<1> QED
  BY <1>1, <1>2

-----------------------------------------------------------------------------
(* Types, and what is where                                                *)

WorkOf(l, c) ==
  /\ work[l][c].part <= work[l][c].msg.parts
  /\ work[l][c].pc = "sleep" => work[l][c].attempt < MaxRetries
  /\ IF Busy(l, c)
     THEN work[l][c].msg \in Messages /\ work[l][c].msg.lane = l /\ work[l][c].msg.to = c
     ELSE work[l][c].msg = NoMessage
  /\ work[l][c].pc = None => c \notin workers
QueueOf(l, c) == \A i \in DOMAIN queue[l][c] : queue[l][c][i].lane = l /\ queue[l][c][i].to = c
BusOf(l) == \A i \in DOMAIN busQ[l] : busQ[l][i].lane = l
DispOf(l) ==
  /\ IF Held(l) THEN disp[l].msg \in BusMessages /\ disp[l].msg.lane = l
                ELSE disp[l].msg = NoMessage
  /\ disp[l].pc = "enqueue" => disp[l].msg.to \in Channels /\ work[l][disp[l].msg.to].pc # None
CallerOf(k) ==
  /\ caller[k] = "enqueue" => /\ CallerMessage[k].to \in Channels
                              /\ work["text"][CallerMessage[k].to].pc # None
  /\ caller[k] = "direct" => CallerMessage[k].to \in Channels

Typed ==
  /\ TypeOK
  /\ outcome = [m \in Messages |-> outcome[m]]
  /\ \A l \in Lanes, c \in Channels : WorkOf(l, c) /\ QueueOf(l, c)
  /\ \A l \in Lanes : BusOf(l) /\ DispOf(l)
  /\ \A k \in Callers : CallerOf(k)

LEMMA Kinds ==
  /\ \A m \in Messages : m.lane \in Lanes /\ m.parts \in Nat \ {0} /\ m.id \in Nat
  /\ BusMessages \subseteq Messages /\ \A k \in Callers : CallerMessage[k] \in Messages
  BY ManagerAssumption DEF ManagerAssumption, Messages

LEMMA TypedInit == ASSUME Init PROVE Typed
<1> USE Kinds DEF Init, None
<1>1. /\ MaxRetries \in Nat /\ QueueSize \in Nat \ {0} /\ 0 \in 0..MaxRetries
      /\ \A m \in Messages : m.parts \in Nat \ {0}
  BY ManagerAssumption DEF ManagerAssumption
<1>2. \A l \in Lanes, c \in Channels :
        work[l][c] = [pc |-> IF c \in workers THEN "select" ELSE "none", msg |-> NoMessage,
                      part |-> 1, attempt |-> 0]
  BY DEF NewWorker
<1>3. work \in [Lanes -> [Channels -> [pc : WorkerPcs, msg : Messages \cup {NoMessage},
                                      part : Nat \ {0}, attempt : 0..MaxRetries]]]
  <2> DEFINE Type == [pc : WorkerPcs, msg : Messages \cup {NoMessage}, part : Nat \ {0},
                      attempt : 0..MaxRetries]
  <2>1. ASSUME NEW l \in Lanes, NEW c \in Channels PROVE work[l][c] \in Type
    <3>1. \A pc \in WorkerPcs : [pc |-> pc, msg |-> NoMessage, part |-> 1, attempt |-> 0] \in Type
      BY <1>1
    <3>2. (IF c \in workers THEN "select" ELSE "none") \in WorkerPcs
      BY DEF WorkerPcs
    <3> QED
      BY <1>2, <3>1, <3>2
  <2>2. \A l \in Lanes : work[l] \in [Channels -> Type]
    <3> TAKE l \in Lanes
    <3>1. work[l] = [c \in Channels |-> work[l][c]]
      OBVIOUS
    <3> HIDE DEF Type, Init
    <3> QED
      BY <2>1, <3>1
  <2>3. work = [l \in Lanes |-> work[l]]
    OBVIOUS
  <2> HIDE DEF Init
  <2> QED
    BY <2>2, <2>3
<1>4. /\ busQ \in [Lanes -> Seq(BusMessages)] /\ queue \in [Lanes -> [Channels -> Seq(Messages)]]
      /\ disp \in [Lanes -> [pc : {"subscribe", "lookup", "enqueue", "ended"},
                            msg : BusMessages \cup {NoMessage}]]
      /\ \A l \in Lanes, c \in Channels : Len(queue[l][c]) = 0
  OBVIOUS
<1>5. \A m \in Messages : outcome[m] \in [1..m.parts -> Final \cup {"none", "failing"}]
  OBVIOUS
<1>6. TypeOK
  <2>1. /\ registered \subseteq Channels /\ workers \subseteq registered
        /\ ctxDone \in BOOLEAN
        /\ stopPc \in {"running", "cancelled", "waitText", "waitMedia", "stopped"}
        /\ removePc \in Channels \cup {"none"} /\ panicked \in BOOLEAN
        /\ enqueued \subseteq Messages
    OBVIOUS
  <2>2. /\ caller \in [Callers -> {"idle", "enqueue", "direct", "returned"}]
        /\ qclosed \in [Lanes -> [Channels -> BOOLEAN]]
    OBVIOUS
  <2>4. order \in Seq(BusMessages)
    OBVIOUS
  <2>3. \A l \in Lanes, c \in Channels : Len(queue[l][c]) <= QueueSize
    BY <1>1, <1>4
  <2> HIDE DEF Init
  <2> QED
    BY <1>3, <1>4, <1>5, <2>1, <2>2, <2>3, <2>4 DEF TypeOK, None
<1>7. \A l \in Lanes, c \in Channels :
        /\ ~Busy(l, c) /\ work[l][c].part <= work[l][c].msg.parts
        /\ work[l][c].pc # "sleep" /\ work[l][c].msg = NoMessage
        /\ work[l][c].pc = "none" => c \notin workers
  <2> TAKE l \in Lanes, c \in Channels
  <2>1. /\ work[l][c].pc = IF c \in workers THEN "select" ELSE "none"
        /\ work[l][c].msg = NoMessage /\ work[l][c].part = 1
    <3> HIDE DEF Init
    <3>1. work[l][c] = [pc |-> IF c \in workers THEN "select" ELSE "none", msg |-> NoMessage,
                        part |-> 1, attempt |-> 0]
      BY <1>2
    <3> QED
      BY ONLY <3>1
  <2>2. NoMessage.parts = 1
    BY DEF NoMessage
  <2> HIDE DEF Init
  <2> QED
    BY <2>1, <2>2 DEF Busy
<1>8. \A l \in Lanes : ~Held(l) /\ disp[l].pc # "enqueue" /\ disp[l].msg = NoMessage /\ busQ[l] = <<>>
  BY DEF Held
<1>9. \A k \in Callers : caller[k] = "idle"
  OBVIOUS
<1>11. \A l \in Lanes, c \in Channels : queue[l][c] = <<>>
  OBVIOUS
<1>10. outcome = [m \in Messages |-> outcome[m]]
  OBVIOUS
<1> HIDE DEF Init
<1> QED
  BY <1>6, <1>7, <1>8, <1>9, <1>10, <1>11 DEF Typed, WorkOf, QueueOf, BusOf, DispOf, CallerOf, None

\* A result of one part of a message.
LEMMA Recorded ==
  ASSUME Typed, NEW m \in Messages, NEW p \in 1..m.parts, NEW r \in Outcomes,
         outcome' = [outcome EXCEPT ![m][p] = r]
  PROVE  /\ outcome' = [n \in Messages |-> outcome'[n]]
         /\ \A n \in Messages : outcome'[n] \in [1..n.parts -> Outcomes]
         /\ \A n \in Messages \ {m} : outcome'[n] = outcome[n]
         /\ outcome'[m][p] = r
         /\ \A i \in 1..m.parts : i # p => outcome'[m][i] = outcome[m][i]
  BY DEF Typed, TypeOK, Outcomes

\* What a worker does with the message it holds: it goes on with the part, with the next
\* one or with the next message.
Sends(l, c) ==
  /\ Busy(l, c)
  /\ UNCHANGED <<registered, workers, busQ, disp, queue, qclosed, ctxDone, stopPc, removePc,
                 caller, panicked, order, enqueued>>
  /\ \E w \in [pc : WorkerPcs, msg : Messages \cup {NoMessage}, part : Nat \ {0},
               attempt : 0..MaxRetries] :
       /\ work' = [work EXCEPT ![l][c] = w] /\ (w.pc = "sleep" => w.attempt < MaxRetries)
       /\ \/ /\ w.msg = work[l][c].msg /\ w.pc \in {"limiter", "token", "send", "sleep"}
             /\ w.part = work[l][c].part
             /\ \/ outcome' = outcome
                \/ outcome' = [outcome EXCEPT ![work[l][c].msg][work[l][c].part] = "failing"]
          \/ /\ \/ /\ w.msg = work[l][c].msg /\ w.pc = "limiter"
                   /\ w.part = work[l][c].part + 1 /\ w.part <= w.msg.parts
                \/ w = NewWorker /\ work[l][c].part = work[l][c].msg.parts
             /\ \E r \in Final :
                  /\ r = "dropped" => ctxDone
                  /\ outcome' = [outcome EXCEPT ![work[l][c].msg][work[l][c].part] = r]

LEMMA WorkerSends ==
  ASSUME Typed, NEW l \in Lanes, NEW c \in Channels,
         \/ WorkerLimiter(l, c) \/ WorkerToken(l, c) \/ WorkerSend(l, c)
         \/ WorkerRetry(l, c) \/ WorkerGiveUp(l, c)
  PROVE  Sends(l, c)
<1> DEFINE w == work[l][c]
           Type == [pc : WorkerPcs, msg : Messages \cup {NoMessage}, part : Nat \ {0},
                    attempt : 0..MaxRetries]
<1>1. /\ w \in Type /\ w.part <= w.msg.parts /\ MaxRetries \in Nat
      /\ Busy(l, c) => w.msg \in Messages /\ w.msg.parts \in Nat \ {0}
  BY Kinds, ManagerAssumption DEF Typed, WorkOf, TypeOK, ManagerAssumption
<1>2. /\ NewWorker \in Type /\ NewWorker.pc = "select"
      /\ \A pc \in {"limiter", "token", "send", "sleep"} : [w EXCEPT !.pc = pc] \in Type
  BY <1>1 DEF NewWorker, WorkerPcs, None
<1>3. ASSUME NEW r \in Final, FinishPart(l, c, r), r = "dropped" => ctxDone, Busy(l, c),
             UNCHANGED <<registered, workers, busQ, disp, queue, qclosed, ctxDone, stopPc,
                         removePc, caller, panicked, order, enqueued>>
      PROVE  Sends(l, c)
  <2>1. CASE w.part < w.msg.parts
    <3> DEFINE v == [pc |-> "limiter", msg |-> w.msg, part |-> w.part + 1, attempt |-> 0]
    <3>1. /\ v \in Type /\ v.msg = w.msg /\ v.pc = "limiter" /\ v.part = w.part + 1
          /\ v.part <= v.msg.parts
      <4>2. w.part + 1 \in Nat \ {0} /\ w.part + 1 <= w.msg.parts
        BY <1>1, <1>3, <2>1
      <4>3. 0 \in 0..MaxRetries /\ "limiter" \in WorkerPcs /\ w.msg \in Messages \cup {NoMessage}
        BY <1>1 DEF WorkerPcs
      <4> QED
        BY <4>2, <4>3
    <3>2. work' = [work EXCEPT ![l][c] = v]
      BY <1>3, <2>1 DEF FinishPart, SetWorker
    <3>3. outcome' = [outcome EXCEPT ![w.msg][w.part] = r]
      BY <1>3 DEF FinishPart
    <3> HIDE DEF v
    <3> QED
      BY <1>3, <3>1, <3>2, <3>3 DEF Sends
  <2>2. CASE ~(w.part < w.msg.parts)
    <3>1. w.part = w.msg.parts
      BY <1>1, <1>3, <2>2
    <3>2. work' = [work EXCEPT ![l][c] = NewWorker]
      BY <1>3, <2>2 DEF FinishPart, SetWorker
    <3>3. outcome' = [outcome EXCEPT ![w.msg][w.part] = r]
      BY <1>3 DEF FinishPart
    <3> QED
      BY <1>2, <1>3, <3>1, <3>2, <3>3 DEF Sends
  <2> QED
    BY <2>1, <2>2
<1>4. ASSUME NEW v \in Type, SetWorker(l, c, v), v.msg = w.msg, v.part = w.part,
             v.pc \in {"limiter", "token", "send", "sleep"}, Busy(l, c),
             v.pc = "sleep" => v.attempt < MaxRetries,
             UNCHANGED <<registered, workers, busQ, disp, queue, qclosed, ctxDone, stopPc,
                         removePc, caller, panicked, order, enqueued>>,
             outcome' = outcome \/ outcome' = [outcome EXCEPT ![w.msg][w.part] = "failing"]
      PROVE  Sends(l, c)
  BY <1>4 DEF Sends, SetWorker
<1> USE DEF Busy, Final
<1>5. CASE WorkerLimiter(l, c)
  <2>1. CASE ctxDone
    BY <1>3, <1>5, <2>1 DEF WorkerLimiter
  <2>2. CASE ~ctxDone
    BY <1>1, <1>2, <1>4, <1>5, <2>2 DEF WorkerLimiter
  <2> QED
    BY <2>1, <2>2
<1>6. CASE WorkerToken(l, c)
  <2>1. CASE FinishPart(l, c, "edited")
    BY <1>3, <1>6, <2>1 DEF WorkerToken
  <2>2. CASE SetWorker(l, c, [w EXCEPT !.pc = "send"]) /\ UNCHANGED outcome
    BY <1>1, <1>2, <1>4, <1>6, <2>2 DEF WorkerToken
  <2> QED
    BY <1>6, <2>1, <2>2 DEF WorkerToken
<1>7. CASE WorkerSend(l, c)
  <2>1. ASSUME NEW r \in {"sent", "permanent", "exhausted"}, FinishPart(l, c, r)
        PROVE  Sends(l, c)
    BY <1>3, <1>7, <2>1 DEF WorkerSend
  <2>2. CASE /\ outcome' = [outcome EXCEPT ![w.msg][w.part] = "failing"]
             /\ SetWorker(l, c, [w EXCEPT !.pc = "sleep"]) /\ w.attempt < MaxRetries
    BY <1>1, <1>2, <1>4, <1>7, <2>2 DEF WorkerSend
  <2> QED
    BY <1>7, <2>1, <2>2 DEF WorkerSend
<1>8. CASE WorkerRetry(l, c)
  <2> DEFINE v == [pc |-> "send", msg |-> w.msg, part |-> w.part, attempt |-> w.attempt + 1]
  <2>1. w.attempt < MaxRetries /\ w.attempt \in Nat
    BY <1>1, <1>8 DEF WorkerRetry, Typed, WorkOf
  <2>2. v \in Type /\ v.msg = w.msg /\ v.part = w.part /\ v.pc = "send"
    <3>3. w.attempt + 1 \in 0..MaxRetries /\ "send" \in WorkerPcs
      BY <1>1, <2>1 DEF WorkerPcs
    <3> QED
      BY <1>1, <3>3
  <2> QED
    BY <1>4, <1>8, <2>2 DEF WorkerRetry
<1>9. CASE WorkerGiveUp(l, c)
  BY <1>3, <1>9 DEF WorkerGiveUp
<1> QED
  BY <1>5, <1>6, <1>7, <1>8, <1>9

LEMMA TypedSends ==
  ASSUME Typed, NEW l \in Lanes, NEW c \in Channels, Sends(l, c) PROVE Typed'
<1>1. PICK w \in [pc : WorkerPcs, msg : Messages \cup {NoMessage}, part : Nat \ {0},
                  attempt : 0..MaxRetries] :
        /\ work' = [work EXCEPT ![l][c] = w] /\ (w.pc = "sleep" => w.attempt < MaxRetries)
        /\ \/ /\ w.msg = work[l][c].msg /\ w.pc \in {"limiter", "token", "send", "sleep"}
              /\ w.part = work[l][c].part
              /\ \/ outcome' = outcome
                 \/ outcome' = [outcome EXCEPT ![work[l][c].msg][work[l][c].part] = "failing"]
           \/ /\ \/ /\ w.msg = work[l][c].msg /\ w.pc = "limiter"
                    /\ w.part = work[l][c].part + 1 /\ w.part <= w.msg.parts
                 \/ w = NewWorker /\ work[l][c].part = work[l][c].msg.parts
              /\ \E r \in Final :
                   /\ r = "dropped" => ctxDone
                   /\ outcome' = [outcome EXCEPT ![work[l][c].msg][work[l][c].part] = r]
  BY DEF Sends
<1>2. /\ work[l][c].msg \in Messages /\ work[l][c].part \in 1..work[l][c].msg.parts
      /\ work[l][c].msg.lane = l /\ work[l][c].msg.to = c
  BY Kinds DEF Sends, Typed, WorkOf, TypeOK
<1>3. /\ outcome' = [n \in Messages |-> outcome'[n]]
      /\ \A n \in Messages : outcome'[n] \in [1..n.parts -> Final \cup {"none", "failing"}]
  <2>1. CASE outcome' = outcome
    BY <2>1 DEF Typed, TypeOK
  <2>2. ASSUME NEW r \in Outcomes, outcome' = [outcome EXCEPT ![work[l][c].msg][work[l][c].part] = r]
        PROVE  /\ outcome' = [n \in Messages |-> outcome'[n]]
               /\ \A n \in Messages : outcome'[n] \in [1..n.parts -> Final \cup {"none", "failing"}]
    BY <1>2, <2>2, Recorded DEF Outcomes
  <2>3. "failing" \in Outcomes /\ Final \subseteq Outcomes
    BY DEF Outcomes
  <2> QED
    BY <1>1, <2>1, <2>2, <2>3
<1>4. /\ work' \in [Lanes -> [Channels -> [pc : WorkerPcs, msg : Messages \cup {NoMessage},
                                          part : Nat \ {0}, attempt : 0..MaxRetries]]]
      /\ work'[l][c] = w
      /\ \A k \in Lanes, d \in Channels : <<k, d>> # <<l, c>> => work'[k][d] = work[k][d]
  BY <1>1 DEF Typed, TypeOK
<1>5. TypeOK'
  BY <1>3, <1>4 DEF Sends, Typed, TypeOK
<1>6. /\ w.part <= w.msg.parts /\ w.pc # None
      /\ IF w.pc \in {"limiter", "token", "send", "sleep"} THEN w.msg = work[l][c].msg
         ELSE w.msg = NoMessage
  BY <1>1, <1>2 DEF NewWorker, NoMessage, None
<1>7. ASSUME NEW k \in Lanes, NEW d \in Channels
      PROVE  WorkOf(k, d)' /\ (work'[k][d].pc = None => work[k][d].pc = None)
  <2>1. WorkOf(k, d) /\ registered' = registered /\ workers' = workers
    BY DEF Typed, Sends
  <2>2. CASE k = l /\ d = c
    BY <1>1, <1>2, <1>4, <1>6, <2>2 DEF WorkOf, Busy
  <2>3. CASE <<k, d>> # <<l, c>>
    BY <1>4, <2>1, <2>3 DEF WorkOf, Busy
  <2> QED
    BY <2>2, <2>3
<1>8. ASSUME NEW k \in Lanes PROVE BusOf(k)' /\ DispOf(k)'
  BY <1>7 DEF Sends, Typed, BusOf, DispOf, Held
<1>9. ASSUME NEW k \in Callers PROVE CallerOf(k)'
  BY <1>7 DEF Sends, Typed, CallerOf, Lanes
<1>10. ASSUME NEW k \in Lanes, NEW d \in Channels PROVE QueueOf(k, d)'
  BY DEF Sends, Typed, QueueOf
<1> QED
  BY <1>3, <1>5, <1>7, <1>8, <1>9, <1>10 DEF Typed

\* The parts of Typed a step leaves alone.
LEMMA Frames ==
  ASSUME Typed
  PROVE  /\ outcome' = outcome => outcome' = [m \in Messages |-> outcome'[m]]
         /\ work' = work /\ workers' \subseteq workers =>
              \A l \in Lanes, c \in Channels : WorkOf(l, c)'
         /\ queue' = queue => \A l \in Lanes, c \in Channels : QueueOf(l, c)'
         /\ busQ' = busQ => \A l \in Lanes : BusOf(l)'
         /\ disp' = disp /\ work' = work => \A l \in Lanes : DispOf(l)'
         /\ caller' = caller /\ work' = work => \A k \in Callers : CallerOf(k)'
  BY DEF Typed, WorkOf, QueueOf, BusOf, DispOf, CallerOf, Busy, Held

\* A worker takes another state between two messages.
LEMMA SetTyped ==
  ASSUME Typed, NEW l \in Lanes, NEW c \in Channels, work[l][c].pc # None,
         NEW w \in [pc : WorkerPcs \ {None}, msg : Messages \cup {NoMessage}, part : Nat \ {0},
                   attempt : 0..MaxRetries],
         w.part <= w.msg.parts, w.pc # "sleep",
         IF w.pc \in {"limiter", "token", "send"}
         THEN w.msg \in Messages /\ w.msg.lane = l /\ w.msg.to = c
         ELSE w.msg = NoMessage,
         SetWorker(l, c, w), workers' = workers, disp' = disp, caller' = caller
  PROVE  /\ work' \in [Lanes -> [Channels -> [pc : WorkerPcs, msg : Messages \cup {NoMessage},
                                            part : Nat \ {0}, attempt : 0..MaxRetries]]]
         /\ \A k \in Lanes, d \in Channels : WorkOf(k, d)'
         /\ \A k \in Lanes : DispOf(k)'
         /\ \A k \in Callers : CallerOf(k)'
<1>1. /\ work' \in [Lanes -> [Channels -> [pc : WorkerPcs, msg : Messages \cup {NoMessage},
                                         part : Nat \ {0}, attempt : 0..MaxRetries]]]
      /\ work'[l][c] = w
      /\ \A k \in Lanes, d \in Channels : <<k, d>> # <<l, c>> => work'[k][d] = work[k][d]
  BY DEF SetWorker, Typed, TypeOK
<1>2. ASSUME NEW k \in Lanes, NEW d \in Channels
      PROVE  WorkOf(k, d)' /\ (work'[k][d].pc = None => work[k][d].pc = None)
  <2>1. WorkOf(k, d)
    BY DEF Typed
  <2>2. CASE k = l /\ d = c
    BY <1>1, <2>2 DEF WorkOf, Busy
  <2>3. CASE <<k, d>> # <<l, c>>
    BY <1>1, <2>1, <2>3 DEF WorkOf, Busy
  <2> QED
    BY <2>2, <2>3
<1>3. ASSUME NEW k \in Lanes PROVE DispOf(k)'
  BY <1>2 DEF Typed, DispOf, Held
<1>4. ASSUME NEW k \in Callers PROVE CallerOf(k)'
  BY <1>2 DEF Typed, CallerOf, Lanes
<1> QED
  BY <1>1, <1>2, <1>3, <1>4

\* A message enters the queue of its worker, or the queue is closed.
LEMMA EnqueueTyped ==
  ASSUME Typed, NEW l \in Lanes, NEW c \in Channels, NEW m \in Messages, m.lane = l, m.to = c,
         Enqueue(l, c, m)
  PROVE  /\ queue' \in [Lanes -> [Channels -> Seq(Messages)]]
         /\ \A k \in Lanes, d \in Channels : Len(queue'[k][d]) <= QueueSize /\ QueueOf(k, d)'
         /\ panicked' \in BOOLEAN /\ enqueued' \subseteq Messages
<1>1. CASE qclosed[l][c]
  BY <1>1 DEF Enqueue, Typed, TypeOK, QueueOf
<1>2. CASE ~qclosed[l][c]
  <2>1. /\ queue' = [queue EXCEPT ![l][c] = Append(queue[l][c], m)]
        /\ Len(queue[l][c]) < QueueSize /\ QueueSize \in Nat
        /\ queue[l][c] \in Seq(Messages)
    BY <1>2, ManagerAssumption DEF Enqueue, ManagerAssumption, Typed, TypeOK
  <2>2. /\ Append(queue[l][c], m) \in Seq(Messages) /\ Len(Append(queue[l][c], m)) <= QueueSize
        /\ \A i \in DOMAIN Append(queue[l][c], m) :
             Append(queue[l][c], m)[i].lane = l /\ Append(queue[l][c], m)[i].to = c
    BY <2>1, AppendAt DEF Typed, QueueOf
  <2>3. queue \in [Lanes -> [Channels -> Seq(Messages)]]
    BY DEF Typed, TypeOK
  <2>4. /\ queue' \in [Lanes -> [Channels -> Seq(Messages)]]
        /\ queue'[l][c] = Append(queue[l][c], m)
        /\ \A k \in Lanes, d \in Channels : <<k, d>> # <<l, c>> => queue'[k][d] = queue[k][d]
    BY <2>1, <2>2, <2>3
  <2>5. ASSUME NEW k \in Lanes, NEW d \in Channels
        PROVE  Len(queue'[k][d]) <= QueueSize /\ QueueOf(k, d)'
    <3>1. CASE <<k, d>> = <<l, c>>
      BY <2>2, <2>4, <3>1 DEF QueueOf
    <3>2. CASE <<k, d>> # <<l, c>>
      <4>1. QueueOf(k, d) /\ Len(queue[k][d]) <= QueueSize
        BY DEF Typed, TypeOK
      <4>2. queue'[k][d] = queue[k][d]
        BY <2>4, <3>2
      <4> QED
        BY <4>1, <4>2 DEF QueueOf
    <3> QED
      BY <3>1, <3>2
  <2> QED
    BY <1>2, <2>4, <2>5 DEF Enqueue, Typed, TypeOK
<1> QED
  BY <1>1, <1>2

LEMMA CloseTyped ==
  ASSUME Typed, NEW l \in Lanes, NEW cs, CloseQueues(l, cs)
  PROVE  qclosed' \in [Lanes -> [Channels -> BOOLEAN]]
  BY DEF CloseQueues, Typed, TypeOK

LEMMA TypedStep == ASSUME Typed, [Next]_vars PROVE Typed'
<1> USE Kinds, Frames
<1>a. /\ NewWorker \in [pc : WorkerPcs \ {None}, msg : Messages \cup {NoMessage},
                      part : Nat \ {0}, attempt : 0..MaxRetries]
      /\ NewWorker.pc = "select" /\ NewWorker.msg = NoMessage /\ NewWorker.part = 1
      /\ NoMessage.parts = 1
  BY ManagerAssumption DEF ManagerAssumption, NewWorker, WorkerPcs, NoMessage, None
<1>1. ASSUME NEW m \in BusMessages, Publish(m) PROVE Typed'
  <2>1. /\ busQ' = [busQ EXCEPT ![m.lane] = Append(busQ[m.lane], m)]
        /\ order' = Append(order, m) /\ m.lane \in Lanes
        /\ busQ[m.lane] \in Seq(BusMessages) /\ order \in Seq(BusMessages)
    BY <1>1 DEF Publish, Typed, TypeOK
  <2>2. /\ Append(busQ[m.lane], m) \in Seq(BusMessages) /\ order' \in Seq(BusMessages)
        /\ \A i \in DOMAIN Append(busQ[m.lane], m) : Append(busQ[m.lane], m)[i].lane = m.lane
    BY <2>1, AppendAt DEF Typed, BusOf
  <2>3. \A l \in Lanes : BusOf(l)'
    BY <2>1, <2>2 DEF Typed, TypeOK, BusOf
  <2>4. TypeOK'
    BY <1>1, <2>1, <2>2 DEF Publish, Typed, TypeOK
  <2> QED
    BY <1>1, <2>3, <2>4 DEF Publish, Typed
<1>2. ASSUME NEW l \in Lanes, DispatchTake(l) PROVE Typed'
  <2>1. /\ Tail(busQ[l]) \in Seq(BusMessages) /\ Head(busQ[l]) \in BusMessages
        /\ Head(busQ[l]).lane = l
        /\ \A i \in DOMAIN Tail(busQ[l]) : Tail(busQ[l])[i].lane = l
    BY <1>2, TailAt DEF DispatchTake, Typed, TypeOK, BusOf
  <2>2. TypeOK'
    BY <1>2, <2>1 DEF DispatchTake, Typed, TypeOK
  <2>3. \A k \in Lanes : BusOf(k)'
    BY <1>2, <2>1 DEF DispatchTake, Typed, TypeOK, BusOf
  <2>4. \A k \in Lanes : DispOf(k)'
    BY <1>2, <2>1 DEF DispatchTake, Typed, TypeOK, DispOf, Held
  <2> QED
    BY <1>2, <2>2, <2>3, <2>4 DEF DispatchTake, Typed
<1>3. ASSUME NEW l \in Lanes, DispatchEnd(l) PROVE Typed'
  <2>1. TypeOK'
    BY <1>3 DEF DispatchEnd, Typed, TypeOK
  <2>2. \A k \in Lanes : DispOf(k)'
    BY <1>3 DEF DispatchEnd, Typed, TypeOK, DispOf, Held
  <2> QED
    BY <1>3, <2>1, <2>2 DEF DispatchEnd, Typed
<1>4. ASSUME NEW l \in Lanes, DispatchLookup(l) PROVE Typed'
  <2>1. /\ disp[l].msg \in BusMessages /\ disp[l].msg.lane = l
        /\ disp[l].msg.to \in registered \cap workers =>
             disp[l].msg.to \in Channels /\ work[l][disp[l].msg.to].pc # None
    BY <1>4 DEF DispatchLookup, Typed, TypeOK, DispOf, Held, WorkOf
  <2>2. TypeOK'
    BY <1>4 DEF DispatchLookup, Typed, TypeOK
  <2>3. \A k \in Lanes : DispOf(k)'
    BY <1>4, <2>1 DEF DispatchLookup, Typed, TypeOK, DispOf, Held
  <2> QED
    BY <1>4, <2>2, <2>3 DEF DispatchLookup, Typed
<1>5. ASSUME NEW l \in Lanes, DispatchEnqueue(l) PROVE Typed'
  <2> DEFINE m == disp[l].msg
  <2>1. m \in Messages /\ m.lane = l /\ m.to \in Channels /\ Enqueue(l, m.to, m)
    BY <1>5 DEF DispatchEnqueue, Typed, DispOf, Held
  <2>2. /\ queue' \in [Lanes -> [Channels -> Seq(Messages)]]
        /\ \A k \in Lanes, d \in Channels : Len(queue'[k][d]) <= QueueSize /\ QueueOf(k, d)'
        /\ panicked' \in BOOLEAN /\ enqueued' \subseteq Messages
    BY <2>1, EnqueueTyped
  <2>3. TypeOK'
    BY <1>5, <2>2 DEF DispatchEnqueue, Typed, TypeOK
  <2>4. \A k \in Lanes : DispOf(k)'
    BY <1>5 DEF DispatchEnqueue, Typed, TypeOK, DispOf, Held
  <2> QED
    BY <1>5, <2>2, <2>3, <2>4 DEF DispatchEnqueue, Typed
<1>6. ASSUME NEW l \in Lanes, NEW c \in Channels, WorkerTake(l, c) PROVE Typed'
  <2>1. /\ Tail(queue[l][c]) \in Seq(Messages) /\ Head(queue[l][c]) \in Messages
        /\ Head(queue[l][c]).lane = l /\ Head(queue[l][c]).to = c
        /\ Len(Tail(queue[l][c])) <= QueueSize
        /\ \A i \in DOMAIN Tail(queue[l][c]) :
             Tail(queue[l][c])[i].lane = l /\ Tail(queue[l][c])[i].to = c
    <3> DEFINE q == queue[l][c]
    <3>1. /\ q \in Seq(Messages) /\ q # <<>> /\ Len(q) <= QueueSize /\ QueueSize \in Nat
          /\ \A i \in DOMAIN q : q[i].lane = l /\ q[i].to = c
      BY <1>6, ManagerAssumption DEF WorkerTake, Typed, TypeOK, QueueOf, ManagerAssumption
    <3> HIDE DEF q
    <3>2. /\ Tail(q) \in Seq(Messages) /\ Head(q) \in Messages /\ Head(q).lane = l
          /\ Head(q).to = c /\ Len(Tail(q)) <= QueueSize
          /\ \A i \in DOMAIN Tail(q) : Tail(q)[i].lane = l /\ Tail(q)[i].to = c
      BY <3>1, TailAt
    <3> QED
      BY <3>2 DEF q
  <2>2. /\ queue' \in [Lanes -> [Channels -> Seq(Messages)]]
        /\ \A k \in Lanes, d \in Channels : Len(queue'[k][d]) <= QueueSize /\ QueueOf(k, d)'
    <3>1. queue' = [queue EXCEPT ![l][c] = Tail(queue[l][c])]
      BY <1>6 DEF WorkerTake
    <3>2. queue \in [Lanes -> [Channels -> Seq(Messages)]]
      BY DEF Typed, TypeOK
    <3>3. /\ queue' \in [Lanes -> [Channels -> Seq(Messages)]]
          /\ queue'[l][c] = Tail(queue[l][c])
          /\ \A k \in Lanes, d \in Channels : <<k, d>> # <<l, c>> => queue'[k][d] = queue[k][d]
      BY <2>1, <3>1, <3>2
    <3>4. ASSUME NEW k \in Lanes, NEW d \in Channels
          PROVE  Len(queue'[k][d]) <= QueueSize /\ QueueOf(k, d)'
      <4>1. CASE <<k, d>> = <<l, c>>
        BY <2>1, <3>3, <4>1 DEF QueueOf
      <4>2. CASE <<k, d>> # <<l, c>>
        <5>1. QueueOf(k, d) /\ Len(queue[k][d]) <= QueueSize
          BY DEF Typed, TypeOK
        <5>2. queue'[k][d] = queue[k][d]
          BY <3>3, <4>2
        <5> QED
          BY <5>1, <5>2 DEF QueueOf
      <4> QED
        BY <4>1, <4>2
    <3> QED
      BY <3>3, <3>4
  <2>3. /\ work' \in [Lanes -> [Channels -> [pc : WorkerPcs, msg : Messages \cup {NoMessage},
                                           part : Nat \ {0}, attempt : 0..MaxRetries]]]
        /\ \A k \in Lanes, d \in Channels : WorkOf(k, d)'
        /\ \A k \in Lanes : DispOf(k)'
        /\ \A k \in Callers : CallerOf(k)'
    <3>1. CASE work' = work
      BY <1>6, <3>1 DEF WorkerTake, Typed, TypeOK
    <3>2. CASE work' # work
      <4> DEFINE w == [pc |-> "limiter", msg |-> Head(queue[l][c]), part |-> 1, attempt |-> 0]
      <4>2. SetWorker(l, c, w)
        BY <1>6, <3>2 DEF WorkerTake
      <4>3. /\ "limiter" \in WorkerPcs \ {None} /\ 0 \in 0..MaxRetries
            /\ 1 <= Head(queue[l][c]).parts
        BY <2>1, ManagerAssumption DEF ManagerAssumption, WorkerPcs, None
      <4>4. /\ w \in [pc : WorkerPcs \ {None}, msg : Messages \cup {NoMessage}, part : Nat \ {0},
                      attempt : 0..MaxRetries]
            /\ w.pc = "limiter" /\ w.msg = Head(queue[l][c]) /\ w.part <= w.msg.parts
        BY <2>1, <4>3
      <4> HIDE DEF w
      <4>5. /\ work[l][c].pc # None /\ workers' = workers /\ disp' = disp /\ caller' = caller
        BY <1>6 DEF WorkerTake, None
      <4> QED
        BY <2>1, <4>2, <4>4, <4>5, SetTyped
    <3> QED
      BY <3>1, <3>2
  <2>4. TypeOK'
    BY <1>6, <2>2, <2>3 DEF WorkerTake, Typed, TypeOK
  <2> QED
    BY <1>6, <2>2, <2>3, <2>4 DEF WorkerTake, Typed
<1>7. ASSUME NEW l \in Lanes, NEW c \in Channels, WorkerExit(l, c) PROVE Typed'
  <2> DEFINE w == [NewWorker EXCEPT !.pc = "exited"]
  <2>1. w = [pc |-> "exited", msg |-> NoMessage, part |-> 1, attempt |-> 0]
    BY DEF NewWorker
  <2>2. SetWorker(l, c, w) /\ work[l][c].pc # None
    BY <1>7 DEF WorkerExit, None
  <2>3. "exited" \in WorkerPcs \ {None} /\ 0 \in 0..MaxRetries
    BY ManagerAssumption DEF ManagerAssumption, WorkerPcs, None
  <2> HIDE DEF w
  <2>4. /\ w \in [pc : WorkerPcs \ {None}, msg : Messages \cup {NoMessage}, part : Nat \ {0},
                  attempt : 0..MaxRetries]
        /\ w.pc = "exited" /\ w.msg = NoMessage /\ w.part <= w.msg.parts
    BY <1>a, <2>1, <2>3
  <2>5. workers' = workers /\ disp' = disp /\ caller' = caller
    BY <1>7 DEF WorkerExit
  <2>6. /\ work' \in [Lanes -> [Channels -> [pc : WorkerPcs, msg : Messages \cup {NoMessage},
                                           part : Nat \ {0}, attempt : 0..MaxRetries]]]
        /\ \A k \in Lanes, d \in Channels : WorkOf(k, d)'
        /\ \A k \in Lanes : DispOf(k)'
        /\ \A k \in Callers : CallerOf(k)'
    BY <2>2, <2>4, <2>5, SetTyped
  <2>7. TypeOK'
    BY <1>7, <2>6 DEF WorkerExit, Typed, TypeOK
  <2> QED
    BY <1>7, <2>6, <2>7 DEF WorkerExit, Typed
<1>8. ASSUME NEW l \in Lanes, NEW c \in Channels,
             \/ WorkerLimiter(l, c) \/ WorkerToken(l, c) \/ WorkerSend(l, c)
             \/ WorkerRetry(l, c) \/ WorkerGiveUp(l, c)
      PROVE  Typed'
  BY <1>8, WorkerSends, TypedSends
<1>9. CASE Stop
  <2>1. qclosed' \in [Lanes -> [Channels -> BOOLEAN]]
    BY <1>9, CloseTyped
    DEF Stop, StopLock, StopCloseText, StopCloseMedia, StopChannels, Typed, TypeOK, Lanes
  <2>2. /\ UNCHANGED <<registered, workers, busQ, disp, queue, work, removePc, caller, panicked,
                      outcome, order, enqueued>>
        /\ ctxDone' \in BOOLEAN
        /\ stopPc' \in {"running", "cancelled", "waitText", "waitMedia", "stopped"}
    BY <1>9
    DEF Stop, StopLock, StopCloseText, StopCloseMedia, StopChannels, Typed, TypeOK
  <2>3. TypeOK'
    BY <2>1, <2>2 DEF Typed, TypeOK
  <2> QED
    BY <2>2, <2>3 DEF Typed
<1>10. ASSUME NEW c \in Removable, Remove(c) PROVE Typed'
  <2>1. c \in Channels
    BY <1>10, ManagerAssumption
    DEF Remove, Unregister, UnregisterMedia, UnregisterDelete, Typed, TypeOK, ManagerAssumption
  <2>2. qclosed' \in [Lanes -> [Channels -> BOOLEAN]] /\ panicked' \in BOOLEAN
    <3>1. /\ qclosed \in [Lanes -> [Channels -> BOOLEAN]] /\ panicked \in BOOLEAN
          /\ "text" \in Lanes /\ "media" \in Lanes
      BY DEF Typed, TypeOK, Lanes
    <3>2. CASE Unregister(c)
      BY <2>1, <3>1, <3>2, CloseTyped DEF Unregister
    <3>3. CASE UnregisterMedia(c)
      BY <2>1, <3>1, <3>3, CloseTyped DEF UnregisterMedia
    <3>4. CASE UnregisterDelete(c)
      BY <2>1, <3>1, <3>4 DEF UnregisterDelete
    <3> QED
      BY <1>10, <3>2, <3>3, <3>4 DEF Remove
  <2>3. /\ UNCHANGED <<busQ, disp, queue, work, ctxDone, stopPc, caller, outcome, order, enqueued>>
        /\ registered' \subseteq registered /\ workers' \subseteq workers
        /\ workers' \subseteq registered' /\ removePc' \in Channels \cup {None}
    BY <1>10, <2>1 DEF Remove, Unregister, UnregisterMedia, UnregisterDelete, Typed, TypeOK
  <2>4. TypeOK'
    BY <2>2, <2>3 DEF Typed, TypeOK
  <2> QED
    BY <2>3, <2>4 DEF Typed
<1>11. ASSUME NEW k \in Callers, CallerLookup(k) PROVE Typed'
  <2>1. TypeOK'
    BY <1>11 DEF CallerLookup, ToCaller, Typed, TypeOK
  <2>2. CallerMessage[k].to \in workers =>
          work["text"][CallerMessage[k].to].pc # None /\ CallerMessage[k].to \in Channels
    BY DEF Typed, TypeOK, WorkOf, Lanes
  <2>3. CallerMessage[k].to \in registered => CallerMessage[k].to \in Channels
    BY DEF Typed, TypeOK
  <2>4. \A j \in Callers : CallerOf(j)'
    BY <1>11, <2>2, <2>3 DEF CallerLookup, ToCaller, Typed, TypeOK, CallerOf
  <2> QED
    BY <1>11, <2>1, <2>4 DEF CallerLookup, Typed
<1>12. ASSUME NEW k \in Callers, CallerEnqueue(k) PROVE Typed'
  <2> DEFINE m == CallerMessage[k]
  <2>1. m \in Messages /\ m.lane = "text" /\ m.to \in Channels /\ Enqueue("text", m.to, m)
    BY <1>12, ManagerAssumption DEF CallerEnqueue, Typed, CallerOf, ManagerAssumption
  <2>2. /\ queue' \in [Lanes -> [Channels -> Seq(Messages)]]
        /\ \A l \in Lanes, d \in Channels : Len(queue'[l][d]) <= QueueSize /\ QueueOf(l, d)'
        /\ panicked' \in BOOLEAN /\ enqueued' \subseteq Messages
    BY <2>1, EnqueueTyped DEF Lanes
  <2>3. TypeOK'
    BY <1>12, <2>2 DEF CallerEnqueue, ToCaller, Typed, TypeOK
  <2>4. \A j \in Callers : CallerOf(j)'
    BY <1>12 DEF CallerEnqueue, ToCaller, Typed, TypeOK, CallerOf
  <2> QED
    BY <1>12, <2>2, <2>3, <2>4 DEF CallerEnqueue, Typed
<1>13. ASSUME NEW k \in Callers, CallerCancelled(k) PROVE Typed'
  <2>1. TypeOK'
    BY <1>13 DEF CallerCancelled, ToCaller, Typed, TypeOK
  <2>2. \A j \in Callers : CallerOf(j)'
    BY <1>13 DEF CallerCancelled, ToCaller, Typed, TypeOK, CallerOf
  <2> QED
    BY <1>13, <2>1, <2>2 DEF CallerCancelled, Typed
<1>14. ASSUME NEW k \in Callers, CallerDirect(k) PROVE Typed'
  <2> DEFINE m == CallerMessage[k]
  <2>1. /\ outcome' = [n \in Messages |-> outcome'[n]]
        /\ \A n \in Messages : outcome'[n] \in [1..n.parts -> Final \cup {"none", "failing"}]
    <3>1. CASE outcome' = outcome
      BY <3>1 DEF Typed, TypeOK
    <3>2. ASSUME NEW r \in {"sent", "permanent"}, outcome' = [outcome EXCEPT ![m][1] = r]
          PROVE  /\ outcome' = [n \in Messages |-> outcome'[n]]
                 /\ \A n \in Messages : outcome'[n] \in [1..n.parts -> Final \cup {"none", "failing"}]
      <4>1. m \in Messages /\ 1 \in 1..m.parts /\ r \in Outcomes
        BY DEF Outcomes, Final
      <4> HIDE DEF m
      <4> QED
        BY <3>2, <4>1, Recorded DEF Outcomes
    <3> QED
      BY <1>14, <3>1, <3>2 DEF CallerDirect
  <2>2. TypeOK'
    BY <1>14, <2>1 DEF CallerDirect, ToCaller, Typed, TypeOK
  <2>3. \A j \in Callers : CallerOf(j)'
    BY <1>14 DEF CallerDirect, ToCaller, Typed, TypeOK, CallerOf
  <2> QED
    BY <1>14, <2>1, <2>2, <2>3 DEF CallerDirect, Typed
<1>15. CASE UNCHANGED vars
  <2>1. TypeOK'
    BY <1>15 DEF vars, Typed, TypeOK
  <2> QED
    BY <1>15, <2>1 DEF vars, Typed
<1> QED
  BY <1>1, <1>2, <1>3, <1>4, <1>5, <1>6, <1>7, <1>8, <1>9, <1>10, <1>11, <1>12, <1>13, <1>14,
    <1>15 DEF Next, Dispatch, Worker, Caller

\* The outbound side of a gateway is well typed in every state.
THEOREM TypeCorrect == Spec => []TypeOK
<1>1. Typed => TypeOK
  BY DEF Typed
<1> QED
  BY <1>1, TypedInit, TypedStep, PTL DEF Spec

-----------------------------------------------------------------------------
(* A queue that is closed is served to its end.                            *)

Done(m) == Delivery(m) \/ (m.lane = "media" /\ m.to \in NoMediaSender)

\* The parts of m before the one at hand have been tried to the end.
Underway(m) ==
  /\ Active(m)
  /\ \A i \in 1..m.parts :
       i < work[m.lane][m.to].part => outcome[m][i] \in Final \ {"dropped"}

\* Who closes a queue, and that a worker leaves nothing in it: what has entered a queue is
\* in it, in its worker's hands or done, unless the workers have been cancelled.
Closing ==
  /\ \A l \in Lanes, c \in Channels :
       /\ c \notin workers => work[l][c].pc \in {None, "exited"}
       /\ c \in workers /\ qclosed[l][c] => stopPc # "running" \/ removePc = c
       /\ work[l][c].pc = "exited" /\ ~ctxDone => qclosed[l][c]
  /\ stopPc # "running" => ctxDone
  /\ stopPc \notin {"running", "stopped"} => removePc = None
  /\ stopPc \in {"waitMedia", "stopped"} => Exited("text", workers)
  /\ stopPc = "stopped" => Exited("media", workers)
  /\ \A c \in workers : removePc = c /\ qclosed["media"][c] => work["text"][c].pc = "exited"

Served ==
  /\ \A l \in Lanes, c \in Channels :
       work[l][c].pc = None \/ (work[l][c].pc = "exited" /\ ~ctxDone) => queue[l][c] = <<>>
  /\ \A m \in enqueued :
       m.to \in Channels /\ (~ctxDone => Done(m) \/ Queued(m) \/ Underway(m))

LEMMA ClosingInit == ASSUME Init PROVE Closing /\ Served
<1>1. \A l \in Lanes, c \in Channels :
        /\ work[l][c].pc = IF c \in workers THEN "select" ELSE None
        /\ ~qclosed[l][c] /\ queue[l][c] = <<>>
  BY DEF Init, NewWorker
<1>2. stopPc = "running" /\ removePc = None /\ enqueued = {} /\ workers \subseteq Channels
  BY DEF Init
<1>3. Closing
  <2>1. \A l \in Lanes, c \in Channels : c \notin workers => work[l][c].pc = None
    BY <1>1
  <2>2. \A l \in Lanes, c \in Channels : work[l][c].pc # "exited"
    BY <1>1 DEF None
  <2>3. "media" \in Lanes
    BY DEF Lanes
  <2> QED
    BY <1>1, <1>2, <2>1, <2>2, <2>3 DEF Closing
<1>4. Served
  BY <1>1, <1>2 DEF Served
<1> QED
  BY <1>3, <1>4

\* A step of a worker does not touch what decides about the queues.
LEMMA ClosingFrame ==
  ASSUME Typed, Closing, UNCHANGED <<workers, ctxDone, stopPc, removePc, qclosed>>,
         \A l \in Lanes, c \in Channels :
           /\ work[l][c].pc \in {None, "exited"} => work'[l][c].pc = work[l][c].pc
           /\ work'[l][c].pc = "exited" /\ ~ctxDone => qclosed[l][c]
  PROVE  Closing'
<1>1. workers \subseteq Channels /\ "text" \in Lanes /\ "media" \in Lanes
  BY DEF Typed, TypeOK, Lanes
<1> QED
  BY <1>1 DEF Closing, Exited

LEMMA ClosingStep == ASSUME Typed, Closing, [Next]_vars PROVE Closing'
<1>0. /\ workers \subseteq Channels /\ "text" \in Lanes /\ "media" \in Lanes /\ Lanes = {"text", "media"}
      /\ removePc \in Channels \cup {None} /\ None \notin Channels /\ Removable \subseteq Channels
      /\ qclosed \in [Lanes -> [Channels -> BOOLEAN]]
  BY ManagerAssumption DEF ManagerAssumption, Typed, TypeOK, Lanes
<1>1. ASSUME UNCHANGED <<workers, ctxDone, stopPc, removePc, qclosed, work>> PROVE Closing'
  BY <1>1 DEF Closing, Exited
<1>2. CASE \/ \E m \in BusMessages : Publish(m)
           \/ \E l \in Lanes : Dispatch(l)
           \/ \E k \in Callers : Caller(k)
           \/ UNCHANGED vars
  BY <1>1, <1>2
  DEF Publish, Dispatch, DispatchTake, DispatchEnd, DispatchLookup, DispatchEnqueue, Caller,
    CallerLookup, CallerEnqueue, CallerCancelled, CallerDirect, vars
<1>3. ASSUME NEW l \in Lanes, NEW c \in Channels, Worker(l, c) PROVE Closing'
  <2>0. work \in [Lanes -> [Channels -> [pc : WorkerPcs, msg : Messages \cup {NoMessage},
                                        part : Nat \ {0}, attempt : 0..MaxRetries]]]
    BY DEF Typed, TypeOK
  <2>1. CASE WorkerTake(l, c)
    <3>1. \A k \in Lanes, d \in Channels :
            /\ work[k][d].pc \in {None, "exited"} => work'[k][d].pc = work[k][d].pc
            /\ work'[k][d].pc = "exited" => work[k][d].pc = "exited"
      <4>1. CASE work' = work
        BY <4>1
      <4>2. CASE work' # work
        <5>1. PICK w : work' = [work EXCEPT ![l][c] = w] /\ w.pc = "limiter"
          BY <2>1, <4>2 DEF WorkerTake, SetWorker
        <5>2. work[l][c].pc = "select"
          BY <2>1 DEF WorkerTake
        <5> QED
          BY <2>0, <5>1, <5>2 DEF None
      <4> QED
        BY <4>1, <4>2
    <3>2. UNCHANGED <<workers, ctxDone, stopPc, removePc, qclosed>>
      BY <2>1 DEF WorkerTake
    <3> QED
      BY <3>1, <3>2, ClosingFrame DEF Closing
  <2>2. CASE WorkerExit(l, c)
    <3>1. \A k \in Lanes, d \in Channels :
            /\ work[k][d].pc \in {None, "exited"} => work'[k][d].pc = work[k][d].pc
            /\ work'[k][d].pc = "exited" => work[k][d].pc = "exited" \/ (k = l /\ d = c)
      BY <2>0, <2>2 DEF WorkerExit, SetWorker, None
    <3>2. /\ UNCHANGED <<workers, ctxDone, stopPc, removePc, qclosed>>
          /\ ctxDone \/ qclosed[l][c]
      BY <2>2 DEF WorkerExit
    <3> QED
      BY <3>1, <3>2, ClosingFrame DEF Closing
  <2>3. CASE Sends(l, c)
    <3>0. NewWorker.pc = "select"
      BY DEF NewWorker
    <3>1. PICK w : /\ work' = [work EXCEPT ![l][c] = w]
                   /\ w.pc # "exited" /\ work[l][c].pc \notin {None, "exited"}
      BY <2>3, <3>0 DEF Sends, Busy, None
    <3>2. \A k \in Lanes, d \in Channels :
            /\ work[k][d].pc \in {None, "exited"} => work'[k][d].pc = work[k][d].pc
            /\ work'[k][d].pc = "exited" => work[k][d].pc = "exited"
      BY <2>0, <3>1
    <3>3. UNCHANGED <<workers, ctxDone, stopPc, removePc, qclosed>>
      BY <2>3 DEF Sends
    <3> QED
      BY <3>2, <3>3, ClosingFrame DEF Closing
  <2> QED
    BY <1>3, <2>1, <2>2, <2>3, WorkerSends DEF Worker
<1>4. CASE StopLock
  BY <1>0, <1>4 DEF StopLock, WriteLocked, Closing, Exited
<1>5. ASSUME NEW l \in Lanes, NEW cs, CloseQueues(l, cs)
      PROVE  \A k \in Lanes, d \in Channels :
               qclosed'[k][d] <=> qclosed[k][d] \/ (k = l /\ d \in cs)
  BY <1>0, <1>5 DEF CloseQueues
<1>6. CASE StopCloseText
  BY <1>0, <1>5, <1>6 DEF StopCloseText, Closing, Exited
<1>7. CASE StopCloseMedia
  BY <1>0, <1>5, <1>7 DEF StopCloseMedia, Closing, Exited
<1>8. CASE StopChannels
  BY <1>0, <1>8 DEF StopChannels, Closing, Exited
<1>9. ASSUME NEW c \in Removable, Unregister(c) PROVE Closing'
  <2>1. /\ removePc = None /\ removePc' = c /\ c \in Channels /\ stopPc \in {"running", "stopped"}
        /\ UNCHANGED <<workers, work, ctxDone, stopPc>>
    BY <1>0, <1>9 DEF Unregister, WriteLocked
  <2>2. \A k \in Lanes, d \in Channels :
          qclosed'[k][d] <=> qclosed[k][d] \/ (k = "text" /\ d = c /\ c \in workers)
    BY <1>0, <1>5, <1>9 DEF Unregister
  <2>3. c \in workers /\ qclosed'["media"][c] => work'["text"][c].pc = "exited"
    BY <1>0, <2>1, <2>2 DEF Closing, Exited
  <2> QED
    BY <1>0, <2>1, <2>2, <2>3 DEF Closing, Exited
<1>10. ASSUME NEW c \in Removable, UnregisterMedia(c) PROVE Closing'
  <2>1. /\ removePc = c /\ c \in workers /\ work["text"][c].pc = "exited"
        /\ UNCHANGED <<workers, work, ctxDone, stopPc, removePc>>
    BY <1>10 DEF UnregisterMedia
  <2>2. \A k \in Lanes, d \in Channels : qclosed'[k][d] <=> qclosed[k][d] \/ (k = "media" /\ d = c)
    BY <1>0, <1>5, <1>10 DEF UnregisterMedia
  <2> QED
    BY <1>0, <2>1, <2>2 DEF Closing, Exited
<1>11. ASSUME NEW c \in Removable, UnregisterDelete(c) PROVE Closing'
  <2>1. /\ removePc = c /\ removePc' = None /\ workers' = workers \ {c}
        /\ c \in workers => qclosed["media"][c] /\ work["media"][c].pc = "exited"
        /\ UNCHANGED <<work, ctxDone, stopPc, qclosed>>
    BY <1>11 DEF UnregisterDelete
  <2>2. \A l \in Lanes : work[l][c].pc \in {None, "exited"}
    BY <1>0, <2>1 DEF Closing
  <2>3. c # None /\ \A d \in workers : removePc = d => d = c
    BY <1>0, <2>1
  <2> QED
    BY <1>0, <2>1, <2>2, <2>3 DEF Closing, Exited
<1> QED
  BY <1>2, <1>3, <1>4, <1>6, <1>7, <1>8, <1>9, <1>10, <1>11 DEF Next, Stop, Remove

\* Nothing that waits in a queue is touched but by its worker.
LEMMA ServedFrame ==
  ASSUME Typed, Served, UNCHANGED <<work, outcome, queue, enqueued>>, ctxDone => ctxDone'
  PROVE  Served'
<1>1. ASSUME NEW m PROVE /\ Done(m)' <=> Done(m)
                         /\ Queued(m)' <=> Queued(m)
                         /\ Underway(m)' <=> Underway(m)
  BY DEF Done, Delivery, Queued, Underway, Active, Busy
<1> QED
  BY <1>1 DEF Served

LEMMA ServedEnqueue ==
  ASSUME Typed, Closing, Served, NEW l \in Lanes, NEW c \in Channels, NEW m \in Messages,
         m.lane = l, m.to = c, work[l][c].pc # None, Enqueue(l, c, m),
         UNCHANGED <<work, outcome, ctxDone>>
  PROVE  Served'
<1>1. CASE qclosed[l][c]
  BY <1>1, ServedFrame DEF Enqueue
<1>2. CASE ~qclosed[l][c]
  <2>1. /\ queue' = [queue EXCEPT ![l][c] = Append(queue[l][c], m)] /\ enqueued' = enqueued \cup {m}
        /\ queue \in [Lanes -> [Channels -> Seq(Messages)]]
        /\ queue[l][c] \in Seq(Messages)
        /\ work[l][c].pc = "exited" => ctxDone
    BY <1>2 DEF Enqueue, Typed, TypeOK, Closing
  <2>2. /\ queue'[l][c] = Append(queue[l][c], m)
        /\ \A k \in Lanes, d \in Channels : <<k, d>> # <<l, c>> => queue'[k][d] = queue[k][d]
    BY <2>1
  <2>3. Queued(m)'
    <3>1. /\ Len(queue[l][c]) + 1 \in DOMAIN queue'[l][c]
          /\ queue'[l][c][Len(queue[l][c]) + 1] = m
      BY <2>1, <2>2, AppendAt
    <3> QED
      BY <3>1 DEF Queued
  <2>4. ASSUME NEW n \in Messages, n.to \in Channels, Queued(n) PROVE Queued(n)'
    <3>1. n.lane \in Lanes
      BY Kinds
    <3>2. CASE <<n.lane, n.to>> = <<l, c>>
      BY <2>1, <2>2, <2>4, <3>2, AppendAt DEF Queued
    <3>3. CASE <<n.lane, n.to>> # <<l, c>>
      BY <2>2, <2>4, <3>1, <3>3 DEF Queued
    <3> QED
      BY <3>2, <3>3
  <2>5. ASSUME NEW n PROVE (Done(n)' <=> Done(n)) /\ (Underway(n)' <=> Underway(n))
    BY DEF Done, Delivery, Underway, Active, Busy
  <2>6. enqueued \subseteq Messages
    BY DEF Typed, TypeOK
  <2> QED
    BY <2>1, <2>2, <2>3, <2>4, <2>5, <2>6 DEF Served
<1> QED
  BY <1>1, <1>2

LEMMA ServedTake ==
  ASSUME Typed, Closing, Served, NEW l \in Lanes, NEW c \in Channels, WorkerTake(l, c)
  PROVE  Served'
<1> DEFINE q == queue[l][c]
<1>1. /\ q \in Seq(Messages) /\ q # <<>> /\ work[l][c].pc = "select" /\ ~Busy(l, c)
      /\ queue \in [Lanes -> [Channels -> Seq(Messages)]]
      /\ queue' = [queue EXCEPT ![l][c] = Tail(q)]
      /\ \A i \in DOMAIN q : q[i].lane = l /\ q[i].to = c
      /\ UNCHANGED <<outcome, ctxDone, enqueued>>
  BY DEF WorkerTake, Typed, TypeOK, QueueOf, Busy
<1>2. /\ queue'[l][c] = Tail(q)
      /\ \A k \in Lanes, d \in Channels : <<k, d>> # <<l, c>> => queue'[k][d] = queue[k][d]
  BY <1>1, TailAt
<1>3. /\ 1 \in DOMAIN q /\ Head(q) = q[1] /\ Head(q) \in Messages
      /\ \A i \in DOMAIN q : i # 1 => i - 1 \in DOMAIN Tail(q) /\ Tail(q)[i - 1] = q[i]
  BY <1>1, TailAt
<1>h. PICK h \in Messages : h = Head(q)
  BY <1>3
<1>4. \/ l = "media" /\ c \in NoMediaSender /\ work' = work
      \/ work' = [work EXCEPT ![l][c] = [pc |-> "limiter", msg |-> h, part |-> 1,
                                        attempt |-> 0]]
  BY <1>h DEF WorkerTake, SetWorker
<1>5. /\ \A k \in Lanes, d \in Channels : <<k, d>> # <<l, c>> => work'[k][d] = work[k][d]
      /\ work'[l][c].pc # None /\ work'[l][c].pc # "exited"
      /\ work' = work \/ work'[l][c] = [pc |-> "limiter", msg |-> h, part |-> 1, attempt |-> 0]
  <2>1. work \in [Lanes -> [Channels -> [pc : WorkerPcs, msg : Messages \cup {NoMessage},
                                        part : Nat \ {0}, attempt : 0..MaxRetries]]]
    BY DEF Typed, TypeOK
  <2>2. CASE work' = work
    BY <1>1, <2>2 DEF None
  <2>3. CASE work' = [work EXCEPT ![l][c] = [pc |-> "limiter", msg |-> h, part |-> 1, attempt |-> 0]]
    BY <2>1, <2>3 DEF None
  <2> QED
    BY <1>4, <2>2, <2>3
<1> HIDE DEF q
<1>6. Done(h)' \/ Underway(h)'
  <2>1. h.lane = l /\ h.to = c
    BY <1>1, <1>3, <1>h
  <2>2. CASE work' = work
    <3>1. l = "media" /\ c \in NoMediaSender
      BY <1>1, <1>4, <1>5, <2>2 DEF Typed, TypeOK
    <3> QED
      BY <2>1, <3>1 DEF Done
  <2>3. CASE work'[l][c] = [pc |-> "limiter", msg |-> h, part |-> 1, attempt |-> 0]
    BY <2>1, <2>3 DEF Underway, Active, Busy
  <2> QED
    BY <1>5, <2>2, <2>3
<1>7. ASSUME NEW n \in Messages, n.to \in Channels, Queued(n) PROVE n = h \/ Queued(n)'
  <2>1. n.lane \in Lanes
    BY Kinds
  <2>2. CASE <<n.lane, n.to>> = <<l, c>>
    <3>1. PICK i \in DOMAIN q : q[i] = n
      BY <1>7, <2>2 DEF Queued, q
    <3>2. CASE i = 1
      BY <1>3, <1>h, <3>1, <3>2
    <3>3. CASE i # 1
      <4>1. i - 1 \in DOMAIN queue'[l][c] /\ queue'[l][c][i - 1] = n
        BY <1>2, <1>3, <3>1, <3>3
      <4> QED
        BY <2>2, <4>1 DEF Queued
    <3> QED
      BY <3>2, <3>3
  <2>3. CASE <<n.lane, n.to>> # <<l, c>>
    BY <1>2, <1>7, <2>1, <2>3 DEF Queued
  <2> QED
    BY <2>2, <2>3
<1>8. ASSUME NEW n \in Messages, n.to \in Channels
      PROVE  (Done(n) => Done(n)') /\ (Underway(n) => Underway(n)')
  <2>1. n.lane \in Lanes
    BY Kinds
  <2>2. Done(n) => Done(n)'
    BY <1>1 DEF Done, Delivery
  <2>3. Underway(n) => work'[n.lane][n.to] = work[n.lane][n.to]
    <3> SUFFICES ASSUME <<n.lane, n.to>> = <<l, c>> PROVE ~Underway(n)
      BY <1>5, <1>8, <2>1
    <3> QED
      BY <1>1, <1>8 DEF Underway, Active, Busy
  <2> QED
    BY <1>1, <2>2, <2>3 DEF Underway, Active, Busy
<1>9. enqueued \subseteq Messages
  BY DEF Typed, TypeOK
<1>10. \A k \in Lanes, d \in Channels :
         work'[k][d].pc = None \/ (work'[k][d].pc = "exited" /\ ~ctxDone') => queue'[k][d] = <<>>
  BY <1>1, <1>2, <1>5 DEF Served
<1> QED
  BY <1>1, <1>6, <1>7, <1>8, <1>9, <1>10 DEF Served

LEMMA ServedSends ==
  ASSUME Typed, Served, NEW l \in Lanes, NEW c \in Channels, Sends(l, c)
  PROVE  Served'
<1>m. PICK m, p : m = work[l][c].msg /\ p = work[l][c].part
  OBVIOUS
<1>0. /\ m \in Messages /\ m.lane = l /\ m.to = c /\ p \in 1..m.parts /\ Busy(l, c)
      /\ m.parts \in Nat
      /\ UNCHANGED <<queue, ctxDone, enqueued>> /\ enqueued \subseteq Messages
  BY Kinds, <1>m DEF Sends, Typed, TypeOK, WorkOf
<1>1. PICK w : /\ work' = [work EXCEPT ![l][c] = w]
               /\ \/ /\ w.msg = m /\ w.pc \in {"limiter", "token", "send", "sleep"} /\ w.part = p
                     /\ \/ outcome' = outcome
                        \/ outcome' = [outcome EXCEPT ![m][p] = "failing"]
                  \/ /\ \/ w.msg = m /\ w.pc = "limiter" /\ w.part = p + 1
                        \/ w = NewWorker /\ p = m.parts
                     /\ \E r \in Final :
                          (r = "dropped" => ctxDone) /\ outcome' = [outcome EXCEPT ![m][p] = r]
  BY <1>m DEF Sends
<1>2. /\ work'[l][c] = w
      /\ \A k \in Lanes, d \in Channels : <<k, d>> # <<l, c>> => work'[k][d] = work[k][d]
  BY <1>1 DEF Typed, TypeOK
<1>3. /\ \A n \in Messages \ {m} : outcome'[n] = outcome[n]
      /\ \A i \in 1..m.parts : i # p => outcome'[m][i] = outcome[m][i]
  <2>1. ASSUME NEW r \in Outcomes, outcome' = [outcome EXCEPT ![m][p] = r]
        PROVE  /\ \A n \in Messages \ {m} : outcome'[n] = outcome[n]
               /\ \A i \in 1..m.parts : i # p => outcome'[m][i] = outcome[m][i]
    BY <1>0, <2>1, Recorded
  <2>2. "failing" \in Outcomes /\ Final \subseteq Outcomes
    BY DEF Outcomes
  <2> QED
    BY <1>1, <2>1, <2>2
<1>4. w.pc # None /\ w.pc # "exited"
  BY <1>1 DEF NewWorker, None
<1>5. ASSUME Done(m) \/ Underway(m) \/ Queued(m), ~ctxDone PROVE Done(m)' \/ Underway(m)' \/ Queued(m)'
  <2>1. CASE Queued(m)
    BY <1>0, <2>1 DEF Queued
  <2>2. CASE m.lane = "media" /\ m.to \in NoMediaSender
    BY <2>2 DEF Done
  <2>3. CASE \A i \in 1..m.parts : i < p => outcome[m][i] \in Final \ {"dropped"}
    <3>1. \A i \in 1..m.parts : i < p => outcome'[m][i] \in Final \ {"dropped"}
      BY <1>0, <1>3, <2>3
    <3>2. CASE w.msg = m /\ w.pc \in {"limiter", "token", "send", "sleep"} /\ w.part = p
      BY <1>0, <1>2, <3>1, <3>2 DEF Underway, Active, Busy
    <3>3. ASSUME NEW r \in Final \ {"dropped"}, outcome' = [outcome EXCEPT ![m][p] = r],
                 \/ w.msg = m /\ w.pc = "limiter" /\ w.part = p + 1
                 \/ w = NewWorker /\ p = m.parts
          PROVE  Done(m)' \/ Underway(m)'
      <4>1. outcome'[m][p] = r
        BY <1>0, <3>3, Recorded DEF Outcomes
      <4>2. \A i \in 1..m.parts : i < p + 1 => outcome'[m][i] \in Final \ {"dropped"}
        BY <1>0, <3>1, <3>3, <4>1
      <4>3. CASE w.msg = m /\ w.pc = "limiter" /\ w.part = p + 1
        BY <1>0, <1>2, <4>2, <4>3 DEF Underway, Active, Busy
      <4>4. CASE p = m.parts
        BY <1>0, <4>2, <4>4 DEF Done, Delivery
      <4> QED
        BY <3>3, <4>3, <4>4
    <3> QED
      BY <1>1, <1>5, <3>2, <3>3
  <2> QED
    BY <1>0, <1>m, <1>5, <2>1, <2>2, <2>3 DEF Done, Delivery, Underway, Active
<1>6. ASSUME NEW n \in Messages, n # m, n.to \in Channels
      PROVE  (Done(n) => Done(n)') /\ (Queued(n) => Queued(n)') /\ (Underway(n) => Underway(n)')
  <2>1. n.lane \in Lanes
    BY Kinds
  <2>2. outcome'[n] = outcome[n]
    BY <1>3, <1>6
  <2>3. Underway(n) => work'[n.lane][n.to] = work[n.lane][n.to]
    <3> SUFFICES ASSUME <<n.lane, n.to>> = <<l, c>> PROVE ~Underway(n)
      BY <1>2, <1>6, <2>1
    <3> QED
      BY <1>m, <1>6 DEF Underway, Active
  <2>4. Done(n) => Done(n)'
    BY <2>2 DEF Done, Delivery
  <2>5. Queued(n) => Queued(n)'
    BY <1>0 DEF Queued
  <2> QED
    BY <2>2, <2>3, <2>4, <2>5 DEF Underway, Active, Busy
<1>7. \A k \in Lanes, d \in Channels :
         work'[k][d].pc = None \/ (work'[k][d].pc = "exited" /\ ~ctxDone') => queue'[k][d] = <<>>
  BY <1>0, <1>2, <1>4 DEF Served
<1> QED
  BY <1>0, <1>5, <1>6, <1>7 DEF Served

LEMMA ServedStep == ASSUME Typed, Closing, Served, [Next]_vars PROVE Served'
<1> USE Kinds
<1>1. CASE \/ \E m \in BusMessages : Publish(m)
           \/ Stop
           \/ \E c \in Removable : Remove(c)
           \/ UNCHANGED vars
  <2>1. UNCHANGED <<work, outcome, queue, enqueued>> /\ (ctxDone => ctxDone')
    <3>1. ASSUME NEW m \in BusMessages, Publish(m) PROVE UNCHANGED <<work, outcome, queue, enqueued>> /\ (ctxDone => ctxDone')
      BY <3>1 DEF Publish
    <3>2. CASE Stop
      BY <3>2 DEF Stop, StopLock, StopCloseText, StopCloseMedia, StopChannels
    <3>3. ASSUME NEW c \in Removable, Remove(c) PROVE UNCHANGED <<work, outcome, queue, enqueued>> /\ (ctxDone => ctxDone')
      BY <3>3 DEF Remove, Unregister, UnregisterMedia, UnregisterDelete
    <3>4. CASE UNCHANGED vars
      BY <3>4 DEF vars
    <3> QED
      BY <1>1, <3>1, <3>2, <3>3, <3>4
  <2> QED
    BY <2>1, ServedFrame
<1>2. ASSUME NEW l \in Lanes, Dispatch(l) PROVE Served'
  <2>1. CASE DispatchEnqueue(l)
    <3>1. /\ disp[l].msg \in Messages /\ disp[l].msg.lane = l /\ disp[l].msg.to \in Channels
          /\ work[l][disp[l].msg.to].pc # None /\ Enqueue(l, disp[l].msg.to, disp[l].msg)
          /\ UNCHANGED <<work, outcome, ctxDone>>
      BY <2>1 DEF DispatchEnqueue, Typed, DispOf, Held
    <3> QED
      BY <3>1, ServedEnqueue
  <2>2. CASE ~DispatchEnqueue(l)
    BY <1>2, <2>2, ServedFrame DEF Dispatch, DispatchTake, DispatchEnd, DispatchLookup
  <2> QED
    BY <2>1, <2>2
<1>3. ASSUME NEW l \in Lanes, NEW c \in Channels, Worker(l, c) PROVE Served'
  <2>1. CASE WorkerTake(l, c)
    BY <2>1, ServedTake
  <2>2. CASE Sends(l, c)
    BY <2>2, ServedSends
  <2>3. CASE WorkerExit(l, c)
    <3> DEFINE w == [NewWorker EXCEPT !.pc = "exited"]
    <3>0. w.pc = "exited"
      BY DEF NewWorker
    <3>1. /\ work' = [work EXCEPT ![l][c] = w] /\ work[l][c].pc = "select"
          /\ ctxDone \/ (qclosed[l][c] /\ queue[l][c] = <<>>)
          /\ UNCHANGED <<outcome, queue, enqueued, ctxDone>>
          /\ work \in [Lanes -> [Channels -> [pc : WorkerPcs, msg : Messages \cup {NoMessage},
                                            part : Nat \ {0}, attempt : 0..MaxRetries]]]
      BY <2>3 DEF WorkerExit, SetWorker, Typed, TypeOK
    <3> HIDE DEF w
    <3>2. /\ work'[l][c].pc = "exited"
          /\ \A k \in Lanes, d \in Channels : <<k, d>> # <<l, c>> => work'[k][d] = work[k][d]
      BY <3>0, <3>1
    <3>3. ASSUME NEW n \in Messages, n.to \in Channels
          PROVE  /\ Done(n) => Done(n)'
                 /\ Queued(n) => Queued(n)'
                 /\ Underway(n) => Underway(n)'
      <4>1. n.lane \in Lanes
        OBVIOUS
      <4>2. Done(n) => Done(n)'
        BY <3>1 DEF Done, Delivery
      <4>3. Queued(n) => Queued(n)'
        BY <3>1 DEF Queued
      <4>4. Underway(n) => work'[n.lane][n.to] = work[n.lane][n.to]
        <5> SUFFICES ASSUME <<n.lane, n.to>> = <<l, c>> PROVE ~Underway(n)
          BY <3>2, <3>3, <4>1
        <5> QED
          BY <3>1, <3>3 DEF Underway, Active, Busy
      <4> QED
        BY <3>1, <4>2, <4>3, <4>4 DEF Underway, Active, Busy
    <3>4. \A k \in Lanes, d \in Channels :
            work'[k][d].pc = None \/ (work'[k][d].pc = "exited" /\ ~ctxDone') => queue'[k][d] = <<>>
      BY <3>1, <3>2 DEF Served, None
    <3>5. enqueued \subseteq Messages
      BY DEF Typed, TypeOK
    <3> QED
      BY <3>1, <3>3, <3>4, <3>5 DEF Served
  <2> QED
    BY <1>3, <2>1, <2>2, <2>3, WorkerSends DEF Worker
<1>4. ASSUME NEW k \in Callers, Caller(k) PROVE Served'
  <2>1. CASE CallerEnqueue(k)
    <3>1. /\ CallerMessage[k] \in Messages /\ CallerMessage[k].lane = "text" /\ "text" \in Lanes
          /\ CallerMessage[k].to \in Channels /\ work["text"][CallerMessage[k].to].pc # None
          /\ Enqueue("text", CallerMessage[k].to, CallerMessage[k])
          /\ UNCHANGED <<work, outcome, ctxDone>>
      BY <2>1, ManagerAssumption DEF CallerEnqueue, Typed, CallerOf, Lanes, ManagerAssumption
    <3> QED
      BY <3>1, ServedEnqueue
  <2>2. CASE CallerLookup(k) \/ CallerCancelled(k)
    BY <2>2, ServedFrame DEF CallerLookup, CallerCancelled
  <2>3. CASE CallerDirect(k)
    <3>1. UNCHANGED <<work, queue, enqueued, ctxDone>>
      BY <2>3 DEF CallerDirect
    <3>2. CASE outcome' = outcome
      BY <3>1, <3>2, ServedFrame
    <3>3. ASSUME NEW r \in {"sent", "permanent"}, outcome' = [outcome EXCEPT ![CallerMessage[k]][1] = r]
          PROVE  Served'
      <4>1. PICK m \in Messages : m = CallerMessage[k]
        OBVIOUS
      <4>2. 1 \in 1..m.parts /\ r \in Outcomes /\ r \in Final \ {"dropped"}
        BY DEF Outcomes, Final
      <4>3. /\ \A n \in Messages \ {m} : outcome'[n] = outcome[n]
            /\ outcome'[m][1] = r
            /\ \A i \in 1..m.parts : i # 1 => outcome'[m][i] = outcome[m][i]
        <5>1. outcome' = [outcome EXCEPT ![m][1] = r]
          BY <3>3, <4>1
        <5> QED
          BY <4>2, <5>1, Recorded
      <4>4. ASSUME NEW n \in Messages, NEW i \in 1..n.parts, outcome[n][i] \in Final \ {"dropped"}
            PROVE  outcome'[n][i] \in Final \ {"dropped"}
        BY <4>2, <4>3, <4>4
      <4>5. ASSUME NEW n \in Messages
            PROVE  /\ Done(n) => Done(n)'
                   /\ Queued(n) => Queued(n)'
                   /\ Underway(n) => Underway(n)'
        BY <3>1, <4>4 DEF Done, Delivery, Queued, Underway, Active, Busy
      <4>6. enqueued \subseteq Messages
        BY DEF Typed, TypeOK
      <4> QED
        BY <3>1, <4>5, <4>6 DEF Served
    <3> QED
      BY <2>3, <3>2, <3>3 DEF CallerDirect
  <2> QED
    BY <1>4, <2>1, <2>2, <2>3 DEF Caller
<1> QED
  BY <1>1, <1>2, <1>3, <1>4 DEF Next

\* When StopAll has returned every worker has exited, and when UnregisterChannel has removed
\* a channel all that had entered its queues has been tried, unless the workers were cancelled.
THEOREM ClosedQueuesDone == Spec => []ClosedQueuesAreDone
<1>1. Typed /\ Closing /\ Served => ClosedQueuesAreDone
  <2> SUFFICES ASSUME Typed, Closing, Served PROVE ClosedQueuesAreDone
    OBVIOUS
  <2>1. ASSUME stopPc = "stopped", NEW l \in Lanes, NEW c \in Channels
        PROVE  work[l][c].pc \in {None, "exited"}
    BY <2>1 DEF Closing, Exited, Lanes
  <2>2. ASSUME NEW m \in enqueued, m.to \notin registered, ~ctxDone PROVE Done(m)
    <3>1. /\ m \in Messages /\ m.to \in Channels /\ m.lane \in Lanes /\ m.to \notin workers
          /\ Done(m) \/ Queued(m) \/ Underway(m)
      BY <2>2, Kinds DEF Typed, TypeOK, Served
    <3>2. work[m.lane][m.to].pc \in {None, "exited"}
      BY <3>1 DEF Closing
    <3>3. ~Queued(m)
      BY <2>2, <3>1, <3>2 DEF Served, Queued
    <3>4. ~Underway(m)
      BY <3>2 DEF Underway, Active, Busy, None
    <3> QED
      BY <3>1, <3>3, <3>4
  <2> QED
    BY <2>1, <2>2 DEF ClosedQueuesAreDone, Done
<1> QED
  BY <1>1, TypedInit, TypedStep, ClosingInit, ClosingStep, ServedStep, PTL DEF Spec

-----------------------------------------------------------------------------
(* The line of a chat: its worker's message, the worker's queue, the        *)
(* dispatcher's message and the bus hold what was published in its order.   *)

Among(m, q) == \E i \in DOMAIN q : q[i] = m
InDisp(l, m) == Held(l) /\ disp[l].msg = m
InWork(l, c, m) == Busy(l, c) /\ work[l][c].msg = m

Precedes(a, b) == \E i, j \in DOMAIN order : i < j /\ order[i] = a /\ order[j] = b
Ahead(a, b) == a # b /\ (a \in BusMessages /\ b \in BusMessages => Precedes(a, b))
Sorted(q) == \A i, j \in DOMAIN q : i < j => Ahead(q[i], q[j])

Line ==
  /\ \A i, j \in DOMAIN order : order[i] = order[j] => i = j
  /\ \A l \in Lanes : Sorted(busQ[l])
  /\ \A l \in Lanes, c \in Channels : Sorted(queue[l][c])
  /\ \A l \in Lanes, x \in Messages : Among(x, busQ[l]) \/ InDisp(l, x) => x \in Published
  /\ \A l \in Lanes, c \in Channels, x \in BusMessages :
       Among(x, queue[l][c]) \/ InWork(l, c, x) => x \in Published
  /\ \A l \in Lanes, x, y \in Messages : InDisp(l, x) /\ Among(y, busQ[l]) => Ahead(x, y)
  /\ \A l \in Lanes, c \in Channels, x, y \in Messages :
       Among(x, queue[l][c]) /\ (InDisp(l, y) \/ Among(y, busQ[l])) => Ahead(x, y)
  /\ \A l \in Lanes, c \in Channels, x, y \in Messages :
       InWork(l, c, x) /\ (Among(y, queue[l][c]) \/ InDisp(l, y) \/ Among(y, busQ[l])) => Ahead(x, y)
  /\ \A k \in Callers, l \in Lanes, c \in Channels :
       caller[k] # "returned" =>
         ~Among(CallerMessage[k], queue[l][c]) /\ ~InWork(l, c, CallerMessage[k])

LEMMA TailSorted ==
  ASSUME NEW S, NEW q \in Seq(S), q # <<>>, Sorted(q)
  PROVE  /\ Sorted(Tail(q)) /\ Among(Head(q), q)
         /\ \A x : Among(x, Tail(q)) => Among(x, q) /\ Ahead(Head(q), x)
<1> USE TailAt DEF Sorted, Among
<1>1. Sorted(Tail(q))
  <2> SUFFICES ASSUME NEW i \in DOMAIN Tail(q), NEW j \in DOMAIN Tail(q), i < j
               PROVE  Ahead(Tail(q)[i], Tail(q)[j])
    OBVIOUS
  <2>1. /\ i + 1 \in DOMAIN q /\ Tail(q)[i] = q[i + 1] /\ i \in Nat
        /\ j + 1 \in DOMAIN q /\ Tail(q)[j] = q[j + 1] /\ j \in Nat
    OBVIOUS
  <2> QED
    BY <2>1
<1>2. ASSUME NEW i \in DOMAIN Tail(q) PROVE Among(Tail(q)[i], q) /\ Ahead(Head(q), Tail(q)[i])
  <2>1. /\ i + 1 \in DOMAIN q /\ Tail(q)[i] = q[i + 1] /\ i \in Nat /\ 1 \in DOMAIN q
        /\ Head(q) = q[1] /\ 1 < i + 1
    <3>1. i \in 1..Len(Tail(q))
      OBVIOUS
    <3> QED
      BY <3>1
  <2> QED
    BY <2>1
<1> QED
  BY <1>1, <1>2

LEMMA AppendSorted ==
  ASSUME NEW S, NEW q \in Seq(S), NEW x \in S, Sorted(q), \A y \in S : Among(y, q) => Ahead(y, x)
  PROVE  /\ Sorted(Append(q, x))
         /\ \A y : Among(y, Append(q, x)) => Among(y, q) \/ y = x
<1> USE AppendAt DEF Among
<1>1. Sorted(Append(q, x))
  <2> SUFFICES ASSUME NEW i \in DOMAIN Append(q, x), NEW j \in DOMAIN Append(q, x), i < j
               PROVE  Ahead(Append(q, x)[i], Append(q, x)[j])
    BY DEF Sorted
  <2>1. /\ i \in Nat /\ j \in Nat /\ Len(q) \in Nat
        /\ i \in DOMAIN q /\ Append(q, x)[i] = q[i] /\ q[i] \in S
        /\ \/ j = Len(q) + 1 /\ Append(q, x)[j] = x
           \/ j \in DOMAIN q /\ Append(q, x)[j] = q[j]
    <3>1. i \in Nat /\ j \in Nat /\ Len(q) \in Nat
      OBVIOUS
    <3>2. \/ j = Len(q) + 1 /\ Append(q, x)[j] = x
          \/ j \in DOMAIN q /\ j < Len(q) + 1 /\ Append(q, x)[j] = q[j]
      OBVIOUS
    <3>3. i # Len(q) + 1
      BY <3>1, <3>2
    <3> QED
      BY <3>1, <3>2, <3>3
  <2> QED
    BY <2>1 DEF Sorted
<1> QED
  BY <1>1

LEMMA LineInit == ASSUME Init PROVE Line
<1>1. \A l \in Lanes : busQ[l] = <<>> /\ ~Held(l) /\ \A c \in Channels : queue[l][c] = <<>> /\ ~Busy(l, c)
  BY DEF Init, Held, Busy, NewWorker, None
<1>2. order = <<>>
  BY DEF Init
<1> QED
  BY <1>1, <1>2 DEF Line, Sorted, Among, InDisp, InWork

\* Every step but a Publish only moves messages along the line, or drops them.
BusMoves == \A l \in Lanes :
  /\ Sorted(busQ'[l])
  /\ \A x \in Messages : Among(x, busQ'[l]) => Among(x, busQ[l])
DispMoves == \A l \in Lanes, x \in Messages :
  InDisp(l, x)' => \/ InDisp(l, x)
                   \/ Among(x, busQ[l]) /\ \A y \in Messages : Among(y, busQ'[l]) => Ahead(x, y)
QueueMoves == \A l \in Lanes, c \in Channels :
  /\ Sorted(queue'[l][c])
  /\ \A x \in Messages : Among(x, queue'[l][c]) =>
       \/ Among(x, queue[l][c])
       \/ InDisp(l, x) /\ ~Held(l)'
       \/ \E k \in Callers : x = CallerMessage[k] /\ caller[k] # "returned" /\ caller'[k] = "returned"
WorkMoves == \A l \in Lanes, c \in Channels, x \in Messages :
  InWork(l, c, x)' =>
    \/ InWork(l, c, x)
    \/ Among(x, queue[l][c]) /\ \A y \in Messages : Among(y, queue'[l][c]) => Ahead(x, y)
CallersMove == \A k \in Callers : caller'[k] # "returned" => caller[k] # "returned"
Moves == order' = order /\ BusMoves /\ DispMoves /\ QueueMoves /\ WorkMoves /\ CallersMove

LEMMA MovesLine == ASSUME Typed, Line, Moves PROVE Line'
<1> USE DEF BusMoves, DispMoves, QueueMoves, WorkMoves, CallersMove
<1>1. /\ Published' = Published /\ Published \subseteq BusMessages /\ BusMessages \subseteq Messages
      /\ \A k \in Callers : CallerMessage[k] \notin BusMessages /\ CallerMessage[k] \in Messages
      /\ \A j, k \in Callers : CallerMessage[j] = CallerMessage[k] => j = k
  BY Kinds, ManagerAssumption DEF ManagerAssumption, Typed, TypeOK, Moves, Published
<1>2. ASSUME NEW a, NEW b PROVE Ahead(a, b)' <=> Ahead(a, b)
  BY DEF Moves, Ahead, Precedes
<1>3. \A l \in Lanes : Sorted(busQ[l])'
  BY <1>2 DEF Moves, Sorted
<1>4. \A l \in Lanes, c \in Channels : Sorted(queue[l][c])'
  BY <1>2 DEF Moves, Sorted
<1>5. \A a, b \in Messages : a \notin BusMessages /\ a # b => Ahead(a, b) /\ Ahead(b, a)
  BY DEF Ahead
<1>6. ASSUME NEW l \in Lanes, NEW x \in Messages
      PROVE  /\ InDisp(l, x)' => InDisp(l, x) \/ Among(x, busQ[l])
             /\ Among(x, busQ'[l]) => Among(x, busQ[l])
             /\ Among(x, busQ'[l]) \/ InDisp(l, x)' => x \in Published
  BY DEF Line, Moves
<1>7. ASSUME NEW l \in Lanes, NEW c \in Channels, NEW x \in BusMessages,
             Among(x, queue'[l][c]) \/ InWork(l, c, x)'
      PROVE  x \in Published
  BY <1>1, <1>7 DEF Line, Moves
<1>8. ASSUME NEW l \in Lanes, NEW x \in Messages, NEW y \in Messages, InDisp(l, x)', Among(y, busQ'[l])
      PROVE  Ahead(x, y)
  BY <1>8 DEF Line, Moves
<1>9. ASSUME NEW l \in Lanes, NEW c \in Channels, NEW x \in Messages, NEW y \in Messages,
             Among(x, queue'[l][c]), InDisp(l, y)' \/ Among(y, busQ'[l])
      PROVE  Ahead(x, y)
  <2>1. y \in BusMessages
    BY <1>1, <1>6, <1>9
  <2>2. InDisp(l, y) \/ Among(y, busQ[l])
    BY <1>6, <1>9
  <2>3. CASE Among(x, queue[l][c])
    BY <2>2, <2>3 DEF Line
  <2>4. CASE InDisp(l, x) /\ ~Held(l)'
    BY <1>6, <1>9, <2>4 DEF Line, InDisp
  <2>5. CASE x \notin BusMessages
    BY <1>5, <2>1, <2>5
  <2> QED
    BY <1>1, <1>9, <2>3, <2>4, <2>5 DEF Moves
<1>10. ASSUME NEW l \in Lanes, NEW c \in Channels, NEW x \in Messages, NEW y \in Messages,
              InWork(l, c, x)', Among(y, queue'[l][c])
       PROVE  Ahead(x, y)
  <2>1. CASE InWork(l, c, x)
    <3>1. CASE Among(y, queue[l][c]) \/ InDisp(l, y)
      BY <2>1, <3>1 DEF Line
    <3>2. ASSUME NEW k \in Callers, y = CallerMessage[k], caller[k] # "returned" PROVE Ahead(x, y)
      BY <1>1, <1>5, <2>1, <3>2 DEF Line
    <3> QED
      BY <1>10, <3>1, <3>2 DEF Moves
  <2>2. CASE ~InWork(l, c, x)
    BY <1>10, <2>2 DEF Moves
  <2> QED
    BY <2>1, <2>2
<1>11. ASSUME NEW l \in Lanes, NEW c \in Channels, NEW x \in Messages, NEW y \in Messages,
              InWork(l, c, x)', InDisp(l, y)' \/ Among(y, busQ'[l])
       PROVE  Ahead(x, y)
  <2>1. InDisp(l, y) \/ Among(y, busQ[l])
    BY <1>6, <1>11
  <2>2. InWork(l, c, x) \/ Among(x, queue[l][c])
    BY <1>11 DEF Moves
  <2> QED
    BY <2>1, <2>2 DEF Line
<1>12. ASSUME NEW k \in Callers, NEW l \in Lanes, NEW c \in Channels, caller'[k] # "returned"
       PROVE  ~Among(CallerMessage[k], queue'[l][c]) /\ ~InWork(l, c, CallerMessage[k])'
  <2>1. /\ caller[k] # "returned" /\ ~Among(CallerMessage[k], queue[l][c])
        /\ ~InWork(l, c, CallerMessage[k])
    BY <1>12 DEF Line, Moves
  <2>2. ~InDisp(l, CallerMessage[k])
    BY <1>1 DEF Line
  <2>3. ~InWork(l, c, CallerMessage[k])'
    BY <1>1, <2>1 DEF Moves
  <2>4. ~Among(CallerMessage[k], queue'[l][c])
    BY <1>1, <1>12, <2>1, <2>2 DEF Moves
  <2> QED
    BY <2>3, <2>4
<1>13. \A l \in Lanes, c \in Channels, x \in Messages :
         /\ InDisp(l, x)' <=> (Held(l)' /\ disp'[l].msg = x)
         /\ InWork(l, c, x)' <=> (Busy(l, c)' /\ work'[l][c].msg = x)
  BY DEF InDisp, InWork
<1>14. \A i, j \in DOMAIN order' : order'[i] = order'[j] => i = j
  BY DEF Line, Moves
<1>15. \A x, q : Among(x, q)' <=> \E i \in DOMAIN q : q[i] = x
  BY DEF Among
<1> QED
  BY <1>1, <1>2, <1>3, <1>4, <1>6, <1>7, <1>8, <1>9, <1>10, <1>11, <1>12, <1>14 DEF Line, Among

LEMMA LinePublish ==
  ASSUME Typed, Line, NEW m \in BusMessages, Publish(m)
  PROVE  Line'
<1> DEFINE l == m.lane
<1>1. /\ m \notin Published /\ l \in Lanes /\ m \in Messages
      /\ busQ \in [Lanes -> Seq(BusMessages)] /\ busQ[l] \in Seq(BusMessages)
      /\ order \in Seq(BusMessages) /\ order' = Append(order, m)
      /\ busQ' = [busQ EXCEPT ![l] = Append(busQ[l], m)]
      /\ UNCHANGED <<disp, queue, work, caller>>
      /\ Published \subseteq BusMessages /\ BusMessages \subseteq Messages
  BY Kinds DEF Publish, Typed, TypeOK, Published
<1>2. /\ Published' = Published \cup {m}
      /\ \A a \in Published : Precedes(a, m)'
      /\ \A a, b : Precedes(a, b) => Precedes(a, b)'
      /\ \A i, j \in DOMAIN order' : order'[i] = order'[j] => i = j
  <2>1. /\ Len(order) \in Nat /\ Len(order) + 1 \in DOMAIN order' /\ order'[Len(order) + 1] = m
        /\ DOMAIN order = 1..Len(order) /\ DOMAIN order' = 1..Len(order) + 1
        /\ \A i \in DOMAIN order : i \in DOMAIN order' /\ order'[i] = order[i]
    BY <1>1, AppendAt
  <2>2. Published' = Published \cup {m}
    BY <2>1 DEF Published
  <2>3. \A a \in Published : Precedes(a, m)'
    BY <2>1 DEF Precedes, Published
  <2>4. \A a, b : Precedes(a, b) => Precedes(a, b)'
    BY <2>1 DEF Precedes
  <2>5. \A i, j \in DOMAIN order' : order'[i] = order'[j] => i = j
    BY <1>1, <2>1 DEF Published, Line
  <2> QED
    BY <2>2, <2>3, <2>4, <2>5
<1>3. /\ \A a, b : Ahead(a, b) => Ahead(a, b)'
      /\ \A a \in Messages \ {m} : (a \in BusMessages => a \in Published) => Ahead(a, m)'
  BY <1>1, <1>2 DEF Ahead
<1>4. \A k \in Lanes :
        /\ Sorted(busQ[k])'
        /\ \A x \in Messages : Among(x, busQ'[k]) => Among(x, busQ[k]) \/ (k = l /\ x = m)
  <2>1. \A x \in Messages : Among(x, busQ[l]) => x \in Published
    BY <1>1 DEF Line
  <2>2. /\ Len(busQ[l]) + 1 \in DOMAIN Append(busQ[l], m) /\ Len(busQ[l]) \in Nat
        /\ \A i \in DOMAIN Append(busQ[l], m) :
             /\ i \in Nat
             /\ \/ i = Len(busQ[l]) + 1 /\ Append(busQ[l], m)[i] = m
                \/ /\ i \in DOMAIN busQ[l] /\ i < Len(busQ[l]) + 1
                   /\ Append(busQ[l], m)[i] = busQ[l][i] /\ busQ[l][i] \in Messages
                   /\ Among(busQ[l][i], busQ[l])
    BY <1>1, AppendAt DEF Among
  <2>3. busQ'[l] = Append(busQ[l], m) /\ \A k \in Lanes \ {l} : busQ'[k] = busQ[k]
    BY <1>1
  <2>4. ASSUME NEW i \in DOMAIN busQ'[l], NEW j \in DOMAIN busQ'[l], i < j
        PROVE  Ahead(busQ[l][i], busQ[l][j])'
    <3>1. i \in DOMAIN busQ[l] /\ busQ'[l][i] = busQ[l][i] /\ busQ[l][i] \in Published /\ busQ[l][i] \in Messages
      BY <2>1, <2>2, <2>3, <2>4
    <3>2. CASE j = Len(busQ[l]) + 1 /\ busQ'[l][j] = m
      <4>1. PICK x \in Messages : x = busQ[l][i]
        BY <3>1
      <4>2. x \in Published /\ x # m
        BY <1>1, <3>1, <4>1
      <4>3. Ahead(x, m)'
        BY <1>3, <4>2
      <4> QED
        BY <3>1, <3>2, <4>1, <4>3 DEF Ahead
    <3>3. CASE j \in DOMAIN busQ[l] /\ busQ'[l][j] = busQ[l][j]
      <4>1. PICK x, y : x = busQ[l][i] /\ y = busQ[l][j]
        OBVIOUS
      <4>2. Ahead(x, y)'
        BY <1>1, <1>3, <2>4, <3>1, <3>3, <4>1 DEF Line, Sorted
      <4> QED
        BY <3>1, <3>3, <4>1, <4>2 DEF Ahead
    <3> QED
      BY <2>2, <2>3, <3>2, <3>3
  <2>5. ASSUME NEW k \in Lanes \ {l} PROVE Sorted(busQ[k])'
    BY <1>3, <2>3 DEF Line, Sorted
  <2>6. Sorted(busQ[l])'
    BY <2>4 DEF Sorted
  <2>7. ASSUME NEW k \in Lanes, NEW x \in Messages, Among(x, busQ'[k])
        PROVE  Among(x, busQ[k]) \/ (k = l /\ x = m)
    BY <2>2, <2>3, <2>7 DEF Among
  <2> QED
    BY <2>5, <2>6, <2>7
<1>5. \A k \in Lanes, c \in Channels : Sorted(queue[k][c])'
  BY <1>1, <1>3 DEF Line, Sorted
<1>6. /\ \A k \in Lanes, x \in Messages : InDisp(k, x)' <=> InDisp(k, x)
      /\ \A k \in Lanes, c \in Channels, x \in Messages :
           InWork(k, c, x)' <=> InWork(k, c, x)
  BY <1>1 DEF InDisp, InWork, Held, Busy
<1> HIDE DEF l
<1>7. \A k \in Lanes, x \in Messages : Among(x, busQ'[k]) \/ InDisp(k, x)' => x \in Published'
  BY <1>2, <1>4, <1>6 DEF Line
<1>8. \A k \in Lanes, c \in Channels, x \in BusMessages :
        Among(x, queue'[k][c]) \/ InWork(k, c, x)' => x \in Published'
  BY <1>1, <1>2, <1>6 DEF Line
<1>9. ASSUME NEW k \in Lanes, NEW x \in Messages, NEW y \in Messages, InDisp(k, x)', Among(y, busQ'[k])
      PROVE  Ahead(x, y)'
  BY <1>1, <1>3, <1>4, <1>6, <1>9 DEF Line
<1>10. ASSUME NEW k \in Lanes, NEW c \in Channels, NEW x \in Messages, NEW y \in Messages,
              Among(x, queue'[k][c]) \/ InWork(k, c, x)', InDisp(k, y)' \/ Among(y, busQ'[k])
       PROVE  Ahead(x, y)'
  <2>1. Among(x, queue[k][c]) \/ InWork(k, c, x)
    BY <1>1, <1>6, <1>10
  <2>2. x # m /\ (x \in BusMessages => x \in Published)
    BY <1>1, <2>1 DEF Line
  <2>3. InDisp(k, y) \/ Among(y, busQ[k]) \/ y = m
    BY <1>4, <1>6, <1>10
  <2> QED
    BY <1>3, <2>1, <2>2, <2>3 DEF Line
<1>11. ASSUME NEW k \in Lanes, NEW c \in Channels, NEW x \in Messages, NEW y \in Messages,
              InWork(k, c, x)', Among(y, queue'[k][c])
       PROVE  Ahead(x, y)'
  BY <1>1, <1>3, <1>6, <1>11 DEF Line
<1>12. ASSUME NEW j \in Callers, NEW k \in Lanes, NEW c \in Channels, caller'[j] # "returned"
       PROVE  ~Among(CallerMessage[j], queue'[k][c]) /\ ~InWork(k, c, CallerMessage[j])'
  BY Kinds, <1>1, <1>6, <1>12 DEF Line
<1> QED
  BY <1>2, <1>4, <1>5, <1>7, <1>8, <1>9, <1>10, <1>11, <1>12 DEF Line, Among

\* The parts of the line a step leaves alone.
LEMMA Stays ==
  ASSUME Line
  PROVE  /\ busQ' = busQ => BusMoves
         /\ disp' = disp => DispMoves
         /\ queue' = queue => QueueMoves
         /\ work' = work => WorkMoves
         /\ caller' = caller => CallersMove
  BY DEF Line, BusMoves, DispMoves, QueueMoves, WorkMoves, CallersMove, InDisp, InWork, Held, Busy

\* A message joins its queue, from the dispatcher or from a caller.
LEMMA EnqueueMoves ==
  ASSUME Typed, Line, NEW l \in Lanes, NEW c \in Channels, NEW m \in Messages, Enqueue(l, c, m),
         \/ InDisp(l, m) /\ ~Held(l)'
         \/ \E k \in Callers : m = CallerMessage[k] /\ caller[k] # "returned" /\ caller'[k] = "returned"
  PROVE  QueueMoves
<1>1. CASE qclosed[l][c]
  BY <1>1, Stays DEF Enqueue
<1>2. CASE ~qclosed[l][c]
  <2>1. /\ queue' = [queue EXCEPT ![l][c] = Append(queue[l][c], m)]
        /\ queue \in [Lanes -> [Channels -> Seq(Messages)]] /\ queue[l][c] \in Seq(Messages)
    BY <1>2 DEF Enqueue, Typed, TypeOK
  <2>2. /\ queue'[l][c] = Append(queue[l][c], m)
        /\ \A k \in Lanes, d \in Channels : <<k, d>> # <<l, c>> => queue'[k][d] = queue[k][d]
    BY <2>1
  <2>3. ASSUME NEW y \in Messages, Among(y, queue[l][c]) PROVE Ahead(y, m)
    <3>1. CASE InDisp(l, m)
      BY <2>3, <3>1 DEF Line
    <3>2. ASSUME NEW k \in Callers, m = CallerMessage[k], caller[k] # "returned" PROVE Ahead(y, m)
      BY <2>3, <3>2, ManagerAssumption DEF Line, Ahead, ManagerAssumption
    <3> QED
      BY <3>1, <3>2
  <2>4. /\ Sorted(queue'[l][c])
        /\ \A y : Among(y, queue'[l][c]) => Among(y, queue[l][c]) \/ y = m
    <3>1. Sorted(queue[l][c])
      BY DEF Line
    <3> QED
      BY <2>1, <2>2, <2>3, <3>1, AppendSorted
  <2>5. ASSUME NEW k \in Lanes, NEW d \in Channels, <<k, d>> # <<l, c>>
        PROVE  Sorted(queue'[k][d]) /\ queue'[k][d] = queue[k][d]
    BY <2>2, <2>5 DEF Line
  <2> QED
    BY <2>4, <2>5 DEF QueueMoves
<1> QED
  BY <1>1, <1>2

LEMMA MovesStep ==
  ASSUME Typed, Line, [Next]_vars, ~\E m \in BusMessages : Publish(m)
  PROVE  Moves
<1> USE Stays, Kinds
<1>a. ASSUME order' = order, BusMoves, DispMoves, QueueMoves, WorkMoves, CallersMove PROVE Moves
  BY <1>a DEF Moves
<1>1. ASSUME NEW l \in Lanes, DispatchTake(l) PROVE Moves
  <2>1. /\ busQ[l] \in Seq(BusMessages) /\ busQ[l] # <<>> /\ Sorted(busQ[l])
        /\ busQ' = [busQ EXCEPT ![l] = Tail(busQ[l])] /\ ~Held(l)
        /\ busQ \in [Lanes -> Seq(BusMessages)]
    BY <1>1 DEF DispatchTake, Typed, TypeOK, Line, Held
  <2>2. /\ Sorted(Tail(busQ[l])) /\ Among(Head(busQ[l]), busQ[l])
        /\ \A x : Among(x, Tail(busQ[l])) => Among(x, busQ[l]) /\ Ahead(Head(busQ[l]), x)
    BY <2>1, TailSorted
  <2>3. busQ'[l] = Tail(busQ[l]) /\ \A k \in Lanes \ {l} : busQ'[k] = busQ[k]
    BY <2>1
  <2>4. BusMoves
    BY <2>2, <2>3 DEF BusMoves, Line
  <2>5. /\ \A k \in Lanes \ {l} : disp'[k] = disp[k]
        /\ disp' = disp \/ disp'[l].msg = Head(busQ[l])
    BY <1>1 DEF DispatchTake, Typed, TypeOK
  <2>6. DispMoves
    BY <2>1, <2>2, <2>3, <2>5 DEF DispMoves, InDisp, Held
  <2>7. UNCHANGED <<order, queue, work, caller>>
    BY <1>1 DEF DispatchTake
  <2> QED
    BY <1>a, <2>4, <2>6, <2>7
<1>2. ASSUME NEW l \in Lanes, DispatchEnd(l) \/ DispatchLookup(l) PROVE Moves
  <2>1. UNCHANGED <<order, busQ, queue, work, caller>>
    BY <1>2 DEF DispatchEnd, DispatchLookup
  <2>2. DispMoves
    <3>1. PICK d : disp' = [disp EXCEPT ![l] = d] /\ (d.pc \in {"lookup", "enqueue"} => Held(l) /\ d.msg = disp[l].msg)
      <4>1. CASE DispatchEnd(l)
        <5>1. disp' = [disp EXCEPT ![l] = [pc |-> "ended", msg |-> NoMessage]]
          BY <4>1 DEF DispatchEnd
        <5>2. [pc |-> "ended", msg |-> NoMessage].pc = "ended"
          OBVIOUS
        <5> QED
          BY <5>1, <5>2
      <4>2. CASE DispatchLookup(l) /\ disp[l].msg.to \in registered \cap workers
        <5>1. disp' = [disp EXCEPT ![l] = [disp[l] EXCEPT !.pc = "enqueue"]]
          BY <4>2 DEF DispatchLookup
        <5>2. [disp[l] EXCEPT !.pc = "enqueue"].msg = disp[l].msg /\ Held(l)
          BY <4>2 DEF DispatchLookup, Held, Typed, TypeOK
        <5> QED
          BY <5>1, <5>2
      <4>3. CASE DispatchLookup(l) /\ disp[l].msg.to \notin registered \cap workers
        <5>1. disp' = [disp EXCEPT ![l] = [pc |-> "subscribe", msg |-> NoMessage]]
          BY <4>3 DEF DispatchLookup
        <5>2. [pc |-> "subscribe", msg |-> NoMessage].pc = "subscribe"
          OBVIOUS
        <5> QED
          BY <5>1, <5>2
      <4> QED
        BY <1>2, <4>1, <4>2, <4>3
    <3>2. disp'[l] = d /\ \A k \in Lanes \ {l} : disp'[k] = disp[k]
      BY <3>1 DEF Typed, TypeOK
    <3>3. ASSUME NEW k \in Lanes, NEW x, InDisp(k, x)' PROVE InDisp(k, x)
      BY <3>1, <3>2, <3>3 DEF InDisp, Held
    <3> QED
      BY <3>3 DEF DispMoves
  <2> QED
    BY <1>a, <2>1, <2>2
<1>3. ASSUME NEW l \in Lanes, DispatchEnqueue(l) PROVE Moves
  <2>1. UNCHANGED <<order, busQ, work, caller>>
    BY <1>3 DEF DispatchEnqueue
  <2>2. DispMoves /\ ~Held(l)'
    BY <1>3 DEF DispatchEnqueue, DispMoves, InDisp, Held, Typed, TypeOK
  <2>3. PICK m \in Messages : m = disp[l].msg
    BY <1>3 DEF DispatchEnqueue, Typed, DispOf, Held
  <2>4. InDisp(l, m) /\ m.to \in Channels /\ Enqueue(l, m.to, m)
    BY <1>3, <2>3 DEF DispatchEnqueue, Typed, DispOf, Held, InDisp
  <2>5. QueueMoves
    BY <2>2, <2>4, EnqueueMoves
  <2> QED
    BY <1>a, <2>1, <2>2, <2>5
<1>4. ASSUME NEW l \in Lanes, NEW c \in Channels, WorkerTake(l, c) PROVE Moves
  <2>1. /\ queue[l][c] \in Seq(Messages) /\ queue[l][c] # <<>> /\ Sorted(queue[l][c])
        /\ queue' = [queue EXCEPT ![l][c] = Tail(queue[l][c])] /\ ~Busy(l, c)
        /\ queue \in [Lanes -> [Channels -> Seq(Messages)]]
        /\ UNCHANGED <<order, busQ, disp, caller>>
    BY <1>4 DEF WorkerTake, Typed, TypeOK, Line, Busy
  <2>2. /\ Sorted(Tail(queue[l][c])) /\ Among(Head(queue[l][c]), queue[l][c])
        /\ \A x : Among(x, Tail(queue[l][c])) => Among(x, queue[l][c]) /\ Ahead(Head(queue[l][c]), x)
    BY <2>1, TailSorted
  <2>3. /\ queue'[l][c] = Tail(queue[l][c])
        /\ \A k \in Lanes, d \in Channels : <<k, d>> # <<l, c>> => queue'[k][d] = queue[k][d]
    BY <2>1, TailAt
  <2>4. QueueMoves
    BY <2>2, <2>3 DEF QueueMoves, Line
  <2>5. /\ \A k \in Lanes, d \in Channels : <<k, d>> # <<l, c>> => work'[k][d] = work[k][d]
        /\ work' = work \/ work'[l][c].msg = Head(queue[l][c])
    <3>1. CASE work' = work
      BY <3>1
    <3>2. CASE work' # work
      <4>1. work' = [work EXCEPT ![l][c] = [pc |-> "limiter", msg |-> Head(queue[l][c]), part |-> 1,
                                            attempt |-> 0]]
        BY <1>4, <3>2 DEF WorkerTake, SetWorker
      <4>2. work \in [Lanes -> [Channels -> [pc : WorkerPcs, msg : Messages \cup {NoMessage},
                                            part : Nat \ {0}, attempt : 0..MaxRetries]]]
        BY DEF Typed, TypeOK
      <4> QED
        BY <4>1, <4>2
    <3> QED
      BY <3>1, <3>2
  <2>6. ASSUME NEW k \in Lanes, NEW d \in Channels, NEW x \in Messages, InWork(k, d, x)'
        PROVE  \/ InWork(k, d, x)
               \/ Among(x, queue[k][d]) /\ \A y \in Messages : Among(y, queue'[k][d]) => Ahead(x, y)
    <3>1. CASE <<k, d>> = <<l, c>>
      BY <2>1, <2>2, <2>3, <2>5, <2>6, <3>1 DEF InWork, Busy
    <3>2. CASE <<k, d>> # <<l, c>>
      BY <2>5, <2>6, <3>2 DEF InWork, Busy
    <3> QED
      BY <3>1, <3>2
  <2>7. WorkMoves
    BY <2>6 DEF WorkMoves
  <2> QED
    BY <1>a, <2>1, <2>4, <2>7
<1>5. ASSUME NEW l \in Lanes, NEW c \in Channels, WorkerExit(l, c) \/ Sends(l, c) PROVE Moves
  <2>1. UNCHANGED <<order, busQ, disp, queue, caller>>
    BY <1>5 DEF WorkerExit, Sends
  <2>2. PICK w : /\ work' = [work EXCEPT ![l][c] = w]
                 /\ \/ w.pc \in {"select", "exited"}
                    \/ w.msg = work[l][c].msg /\ Busy(l, c)
    <3>1. NewWorker.pc = "select" /\ [NewWorker EXCEPT !.pc = "exited"].pc = "exited"
      BY DEF NewWorker
    <3> QED
      BY <1>5, <3>1 DEF WorkerExit, SetWorker, Sends
  <2>3. /\ work'[l][c] = w
        /\ \A k \in Lanes, d \in Channels : <<k, d>> # <<l, c>> => work'[k][d] = work[k][d]
    BY <2>2 DEF Typed, TypeOK
  <2>4. ASSUME NEW k \in Lanes, NEW d \in Channels, NEW x \in Messages, InWork(k, d, x)'
        PROVE  InWork(k, d, x)
    <3>1. CASE <<k, d>> = <<l, c>>
      BY <2>2, <2>3, <2>4, <3>1 DEF InWork, Busy
    <3>2. CASE <<k, d>> # <<l, c>>
      BY <2>3, <2>4, <3>2 DEF InWork, Busy
    <3> QED
      BY <3>1, <3>2
  <2>5. WorkMoves
    BY <2>4 DEF WorkMoves
  <2> QED
    BY <1>a, <2>1, <2>5
<1>6. ASSUME NEW k \in Callers, CallerEnqueue(k) PROVE Moves
  <2>1. UNCHANGED <<order, busQ, disp, work>>
    BY <1>6 DEF CallerEnqueue
  <2>2. CallersMove /\ caller[k] # "returned" /\ caller'[k] = "returned"
    BY <1>6 DEF CallerEnqueue, ToCaller, CallersMove, Typed, TypeOK
  <2>3. PICK m \in Messages : m = CallerMessage[k]
    OBVIOUS
  <2>4. m.to \in Channels /\ Enqueue("text", m.to, m) /\ "text" \in Lanes
    BY <1>6, <2>3 DEF CallerEnqueue, Typed, CallerOf, Lanes
  <2>5. QueueMoves
    BY <2>2, <2>3, <2>4, EnqueueMoves
  <2> QED
    BY <1>a, <2>1, <2>2, <2>5
<1>7. ASSUME NEW k \in Callers, CallerLookup(k) \/ CallerCancelled(k) \/ CallerDirect(k) PROVE Moves
  <2>1. UNCHANGED <<order, busQ, disp, queue, work>>
    BY <1>7 DEF CallerLookup, CallerCancelled, CallerDirect
  <2>2. CallersMove
    BY <1>7 DEF CallerLookup, CallerCancelled, CallerDirect, ToCaller, CallersMove, Typed, TypeOK
  <2> QED
    BY <1>a, <2>1, <2>2
<1>8. CASE Stop \/ (\E c \in Removable : Remove(c)) \/ UNCHANGED vars
  <2>1. UNCHANGED <<order, busQ, disp, queue, work, caller>>
    <3>1. CASE Stop
      BY <3>1 DEF Stop, StopLock, StopCloseText, StopCloseMedia, StopChannels
    <3>2. ASSUME NEW c \in Removable, Remove(c) PROVE UNCHANGED <<order, busQ, disp, queue, work, caller>>
      BY <3>2 DEF Remove, Unregister, UnregisterMedia, UnregisterDelete
    <3>3. CASE UNCHANGED vars
      BY <3>3 DEF vars
    <3> QED
      BY <1>8, <3>1, <3>2, <3>3
  <2> QED
    BY <1>a, <2>1
<1> QED
  BY <1>1, <1>2, <1>3, <1>4, <1>5, <1>6, <1>7, <1>8, WorkerSends DEF Next, Dispatch, Worker, Caller

LEMMA LineStep == ASSUME Typed, Line, [Next]_vars PROVE Line'
  BY LinePublish, MovesLine, MovesStep

-----------------------------------------------------------------------------
(* What has been tried.                                                    *)

Fresh(m) == \A i \in 1..m.parts : outcome[m][i] = "none"

\* What waits has not been tried, and of a worker's message the parts before the one at hand.
Untried ==
  /\ \A m \in BusMessages \ Published : Fresh(m)
  /\ \A l \in Lanes, x \in Messages : Among(x, busQ[l]) \/ InDisp(l, x) => Fresh(x)
  /\ \A l \in Lanes, c \in Channels, x \in Messages : Among(x, queue[l][c]) => Fresh(x)
  /\ \A l \in Lanes, c \in Channels, x \in Messages :
       InWork(l, c, x) => \A i \in 1..x.parts :
         /\ i < work[l][c].part => outcome[x][i] \in Final
         /\ i > work[l][c].part => outcome[x][i] = "none"
  /\ \A k \in Callers : caller[k] # "returned" => Fresh(CallerMessage[k])
  /\ \A m \in Messages : \A i \in 2..m.parts : outcome[m][i] # "none" => outcome[m][i - 1] \in Final
  /\ \A m \in Messages : ~Fresh(m) => m.to \in Channels

\* An earlier message of the chat is not on its way any more.
NotOvertaken ==
  \A a, b \in BusMessages :
    Precedes(a, b) /\ a.lane = b.lane /\ a.to = b.to /\ ~Fresh(b) => ~InFlight(a)

LEMMA UntriedInit == ASSUME Init PROVE Untried /\ NotOvertaken
<1>1. \A l \in Lanes : busQ[l] = <<>> /\ ~Held(l) /\ \A c \in Channels : queue[l][c] = <<>> /\ ~Busy(l, c)
  BY DEF Init, Held, Busy, NewWorker, None
<1>2. \A m \in Messages : \A i \in 1..m.parts : outcome[m][i] = "none"
  BY DEF Init
<1>3. \A m \in Messages : m.parts \in Nat
  BY Kinds
<1>4. \A m \in Messages : \A i \in 2..m.parts : i \in 1..m.parts
  BY <1>3
<1> QED
  BY Kinds, <1>1, <1>2, <1>4 DEF Untried, NotOvertaken, Fresh, Among, InDisp, InWork

\* A message that a worker begins with begins with its first part.
Begins ==
  \A l \in Lanes, c \in Channels, x \in Messages :
    InWork(l, c, x)' => \/ InWork(l, c, x) /\ work'[l][c].part = work[l][c].part
                        \/ Among(x, queue[l][c]) /\ work'[l][c].part = 1

LEMMA UntriedMoves ==
  ASSUME Typed, Line, Untried, Moves, Begins, outcome' = outcome
  PROVE  Untried'
<1> USE DEF Moves, BusMoves, DispMoves, QueueMoves, WorkMoves, CallersMove
<1>1. /\ Published' = Published /\ \A x : Fresh(x)' <=> Fresh(x)
      /\ \A x, q : Among(x, q)' <=> Among(x, q)
  BY DEF Published, Fresh, Among
<1>2. ASSUME NEW l \in Lanes, NEW x \in Messages, Among(x, busQ'[l]) \/ InDisp(l, x)' PROVE Fresh(x)
  BY <1>2 DEF Untried
<1>3. ASSUME NEW l \in Lanes, NEW c \in Channels, NEW x \in Messages, Among(x, queue'[l][c])
      PROVE  Fresh(x)
  BY <1>3 DEF Untried
<1>4. ASSUME NEW l \in Lanes, NEW c \in Channels, NEW x \in Messages, InWork(l, c, x)',
             NEW i \in 1..x.parts
      PROVE  /\ i < work'[l][c].part => outcome[x][i] \in Final
             /\ i > work'[l][c].part => outcome[x][i] = "none"
  <2>1. CASE InWork(l, c, x) /\ work'[l][c].part = work[l][c].part
    BY <2>1 DEF Untried
  <2>2. CASE Among(x, queue[l][c]) /\ work'[l][c].part = 1
    <3>1. Fresh(x)
      BY <2>2 DEF Untried
    <3> QED
      BY Kinds, <2>2, <3>1 DEF Fresh
  <2> QED
    BY <1>4, <2>1, <2>2 DEF Begins
<1>5. \A k \in Callers : caller'[k] # "returned" => Fresh(CallerMessage[k])
  BY DEF Untried
<1> QED
  BY <1>1, <1>2, <1>3, <1>4, <1>5 DEF Untried, Among

\* A message of a channel stays on the line or leaves it.
LEMMA FlightMoves ==
  ASSUME Typed, Typed', Moves, NEW a \in BusMessages, a.to \in Channels, InFlight(a)'
  PROVE  InFlight(a)
<1> USE DEF Moves, BusMoves, DispMoves, QueueMoves, WorkMoves, CallersMove
<1>1. /\ a \in Messages /\ a.lane \in Lanes /\ a # NoMessage
      /\ \A k \in Callers : a # CallerMessage[k]
  BY Kinds, ManagerAssumption DEF ManagerAssumption, NoMessage
<1>2. /\ Among(a, busQ[a.lane]) => InFlight(a)
      /\ InDisp(a.lane, a) => InFlight(a)
      /\ \A c \in Channels : Among(a, queue[a.lane][c]) \/ InWork(a.lane, c, a) => InFlight(a)
  BY DEF InFlight, Among, InDisp, InWork
<1>3. CASE Among(a, busQ'[a.lane])
  BY <1>1, <1>2, <1>3
<1>4. CASE disp'[a.lane].msg = a
  <2>1. InDisp(a.lane, a)'
    BY <1>1, <1>4 DEF Typed, DispOf, InDisp
  <2> QED
    BY <1>1, <1>2, <2>1
<1>5. ASSUME NEW c \in Channels, Among(a, queue'[a.lane][c]) PROVE InFlight(a)
  BY <1>1, <1>2, <1>5
<1>6. ASSUME NEW c \in Channels, work'[a.lane][c].msg = a PROVE InFlight(a)
  <2>1. InWork(a.lane, c, a)'
    BY <1>1, <1>6 DEF Typed, WorkOf, InWork
  <2> QED
    BY <1>1, <1>2, <2>1
<1> QED
  BY <1>3, <1>4, <1>5, <1>6 DEF InFlight, Among

LEMMA OvertakenMoves ==
  ASSUME Typed, Typed', Untried, NotOvertaken, Moves,
         \A b \in BusMessages : Fresh(b)' <=> Fresh(b)
  PROVE  NotOvertaken'
<1> SUFFICES ASSUME NEW a \in BusMessages, NEW b \in BusMessages, Precedes(a, b)', a.lane = b.lane,
                    a.to = b.to, ~Fresh(b)', InFlight(a)'
             PROVE  FALSE
  BY DEF NotOvertaken
<1>1. Precedes(a, b) /\ ~Fresh(b)
  BY DEF Precedes, Moves
<1>2. a.to \in Channels
  BY <1>1, Kinds DEF Untried
<1>3. InFlight(a)
  BY <1>2, FlightMoves
<1> QED
  BY <1>1, <1>3 DEF NotOvertaken

LEMMA UntriedPublish ==
  ASSUME Typed, Line, Untried, NotOvertaken, NEW m \in BusMessages, Publish(m)
  PROVE  Untried' /\ NotOvertaken'
<1>1. /\ m \notin Published /\ m.lane \in Lanes /\ m \in Messages
      /\ busQ \in [Lanes -> Seq(BusMessages)] /\ busQ[m.lane] \in Seq(BusMessages)
      /\ order \in Seq(BusMessages) /\ order' = Append(order, m)
      /\ busQ' = [busQ EXCEPT ![m.lane] = Append(busQ[m.lane], m)]
      /\ UNCHANGED <<disp, queue, work, caller, outcome>>
  BY Kinds DEF Publish, Typed, TypeOK
<1>2. \A l \in Lanes, x \in Messages : Among(x, busQ'[l]) => Among(x, busQ[l]) \/ x = m
  <2>1. /\ busQ'[m.lane] = Append(busQ[m.lane], m)
        /\ \A k \in Lanes \ {m.lane} : busQ'[k] = busQ[k]
    BY <1>1
  <2>2. \A i \in DOMAIN Append(busQ[m.lane], m) :
          \/ Append(busQ[m.lane], m)[i] = m
          \/ i \in DOMAIN busQ[m.lane] /\ Append(busQ[m.lane], m)[i] = busQ[m.lane][i]
    BY <1>1, AppendAt
  <2> QED
    BY <2>1, <2>2 DEF Among
<1>3. /\ Len(order) \in Nat /\ order'[Len(order) + 1] = m /\ Len(order) + 1 \in DOMAIN order'
      /\ DOMAIN order = 1..Len(order) /\ DOMAIN order' = 1..Len(order) + 1
      /\ \A i \in DOMAIN order : i \in DOMAIN order' /\ order'[i] = order[i]
  BY <1>1, AppendAt
<1>4. Published' = Published \cup {m}
  BY <1>3 DEF Published
<1>5. ASSUME NEW a \in BusMessages, NEW b \in BusMessages, Precedes(a, b)', b # m
      PROVE  Precedes(a, b) /\ a \in Published
  <2>1. PICK i, j \in DOMAIN order' : i < j /\ order'[i] = a /\ order'[j] = b
    BY <1>5 DEF Precedes
  <2>2. i \in DOMAIN order /\ j \in DOMAIN order
    BY <1>3, <1>5, <2>1
  <2> QED
    BY <1>3, <2>1, <2>2 DEF Precedes, Published
<1>6. Fresh(m) /\ \A x : Fresh(x)' <=> Fresh(x)
  BY <1>1 DEF Untried, Fresh
<1>7. /\ \A l \in Lanes, x \in Messages : InDisp(l, x)' <=> InDisp(l, x)
      /\ \A l \in Lanes, c \in Channels, x \in Messages : InWork(l, c, x)' <=> InWork(l, c, x)
  BY <1>1 DEF InDisp, InWork, Held, Busy
<1>8. Untried'
  <2>1. \A x, q : Among(x, q)' <=> Among(x, q)
    BY DEF Among
  <2>2. \A n \in BusMessages \ Published' : Fresh(n)
    BY <1>4 DEF Untried
  <2>3. \A l \in Lanes, x \in Messages : Among(x, busQ'[l]) \/ InDisp(l, x)' => Fresh(x)
    BY <1>2, <1>6, <1>7 DEF Untried
  <2> QED
    BY <1>1, <1>6, <1>7, <2>2, <2>3 DEF Untried, Among
<1>9. NotOvertaken'
  <2> SUFFICES ASSUME NEW a \in BusMessages, NEW b \in BusMessages, Precedes(a, b)', a.lane = b.lane,
                      a.to = b.to, ~Fresh(b), InFlight(a)'
               PROVE  FALSE
    BY <1>6 DEF NotOvertaken
  <2>1. Precedes(a, b) /\ a # m
    BY <1>1, <1>5, <1>6
  <2>2. Among(a, busQ'[a.lane]) => Among(a, busQ[a.lane])
    BY Kinds, <1>2, <2>1
  <2>3. InFlight(a)
    BY <1>1, <2>2 DEF InFlight, Among
  <2> QED
    BY <2>1, <2>3 DEF NotOvertaken
<1> QED
  BY <1>8, <1>9

LEMMA UntriedSends ==
  ASSUME Typed, Typed', Line, Untried, NotOvertaken, Moves, NEW l \in Lanes, NEW c \in Channels,
         Sends(l, c)
  PROVE  Untried' /\ NotOvertaken'
<1>m. PICK m, p : m = work[l][c].msg /\ p = work[l][c].part
  OBVIOUS
<1>0. /\ m \in Messages /\ m.lane = l /\ m.to = c /\ p \in 1..m.parts /\ InWork(l, c, m)
      /\ m.parts \in Nat
      /\ UNCHANGED <<queue, busQ, disp, order, caller>>
  BY Kinds, <1>m DEF Sends, Typed, TypeOK, WorkOf, InWork
<1>1. PICK w, r : /\ work' = [work EXCEPT ![l][c] = w]
                  /\ \/ /\ w.msg = m /\ w.pc \in {"limiter", "token", "send", "sleep"} /\ w.part = p
                        /\ r \in {outcome[m][p], "failing"}
                     \/ /\ \/ w.msg = m /\ w.pc = "limiter" /\ w.part = p + 1
                           \/ w = NewWorker
                        /\ r \in Final
                  /\ outcome' = outcome \/ outcome' = [outcome EXCEPT ![m][p] = r]
                  /\ outcome' = outcome => r = outcome[m][p]
  <2>1. CASE outcome' = outcome
    <3>1. outcome' # outcome \/ \A r \in Outcomes : outcome' = [outcome EXCEPT ![m][p] = r] => r = outcome[m][p]
      BY <1>0, Recorded
    <3> QED
      BY <1>m, <2>1, <3>1 DEF Sends, Outcomes
  <2>2. CASE outcome' # outcome
    BY <1>m, <2>2 DEF Sends
  <2> QED
    BY <2>1, <2>2
<1>2. /\ work'[l][c] = w
      /\ \A k \in Lanes, d \in Channels : <<k, d>> # <<l, c>> => work'[k][d] = work[k][d]
  BY <1>1 DEF Typed, TypeOK
<1>3. /\ \A n \in Messages \ {m} : outcome'[n] = outcome[n]
      /\ \A i \in 1..m.parts : i # p => outcome'[m][i] = outcome[m][i]
      /\ outcome'[m][p] = r
  <2>1. CASE outcome' = outcome
    BY <1>1, <2>1
  <2>2. CASE outcome' = [outcome EXCEPT ![m][p] = r]
    <3>1. outcome[m][p] \in Outcomes /\ "failing" \in Outcomes /\ Final \subseteq Outcomes
      BY <1>0 DEF Outcomes, Typed, TypeOK
    <3> QED
      BY <1>0, <1>1, <2>2, <3>1, Recorded
  <2> QED
    BY <1>1, <2>1, <2>2
<1>4. \A n \in Messages \ {m} : Fresh(n)' <=> Fresh(n)
  BY <1>3 DEF Fresh
\* Nothing else on the line, and no caller, has m.
<1>5. /\ \A k \in Lanes, x \in Messages : Among(x, busQ[k]) \/ InDisp(k, x) => x # m
      /\ \A k \in Lanes, d \in Channels, x \in Messages : Among(x, queue[k][d]) => x # m
      /\ \A k \in Callers : caller[k] # "returned" => CallerMessage[k] # m
      /\ m \in BusMessages => m \in Published
  <2>1. ASSUME NEW k \in Lanes, NEW x \in Messages, Among(x, busQ[k]) \/ InDisp(k, x) PROVE x # m
    <3>1. x.lane = k
      BY <2>1 DEF Typed, BusOf, DispOf, Among, InDisp
    <3>2. k = l => Ahead(m, x)
      BY <1>0, <2>1 DEF Line
    <3> QED
      BY <1>0, <3>1, <3>2 DEF Ahead
  <2>2. ASSUME NEW k \in Lanes, NEW d \in Channels, NEW x \in Messages, Among(x, queue[k][d])
        PROVE  x # m
    <3>1. x.lane = k /\ x.to = d
      BY <2>2 DEF Typed, QueueOf, Among
    <3>2. k = l /\ d = c => Ahead(m, x)
      BY <1>0, <2>2 DEF Line
    <3> QED
      BY <1>0, <3>1, <3>2 DEF Ahead
  <2> QED
    BY <1>0, <2>1, <2>2 DEF Line
<1>6. \A k \in Lanes, d \in Channels, x \in Messages :
        InWork(k, d, x)' => InWork(k, d, x) /\ (x = m => k = l /\ d = c /\ w.msg = m)
  <2> SUFFICES ASSUME NEW k \in Lanes, NEW d \in Channels, NEW x \in Messages, InWork(k, d, x)'
               PROVE  InWork(k, d, x) /\ (x = m => k = l /\ d = c /\ w.msg = m)
    OBVIOUS
  <2>1. CASE <<k, d>> = <<l, c>>
    <3>1. w.msg = x /\ w.pc \in {"limiter", "token", "send", "sleep"}
      BY <1>2, <2>1 DEF InWork, Busy
    <3>2. w # NewWorker
      BY <3>1 DEF NewWorker
    <3> QED
      BY <1>0, <1>1, <2>1, <3>1, <3>2
  <2>2. CASE <<k, d>> # <<l, c>>
    <3>1. InWork(k, d, x)
      BY <1>2, <2>2 DEF InWork, Busy
    <3>2. x.lane = k /\ x.to = d
      BY <3>1 DEF Typed, WorkOf, InWork
    <3> QED
      BY <1>0, <2>2, <3>1, <3>2
  <2> QED
    BY <2>1, <2>2
<1>7. /\ \A i \in 1..m.parts : i < p => outcome[m][i] \in Final
      /\ \A i \in 1..m.parts : i > p => outcome[m][i] = "none"
  BY <1>0, <1>m DEF Untried
<1>n. /\ p \in Nat
      /\ m.parts \in Nat
      /\ \A i \in 1..m.parts : i \in Nat
      /\ \A i \in 1..m.parts : i < p => outcome'[m][i] \in Final
      /\ \A i \in 1..m.parts : i > p => outcome'[m][i] = "none"
  <2>1. p \in Nat /\ \A i \in 1..m.parts : i \in Nat /\ (i < p \/ i > p => i # p)
    BY <1>0
  <2>2. ASSUME NEW i \in 1..m.parts, i < p PROVE outcome'[m][i] \in Final
    <3>1. i # p
      BY <2>1, <2>2
    <3>2. outcome'[m][i] = outcome[m][i]
      BY <1>3, <3>1
    <3> QED
      BY <1>7, <2>2, <3>2
  <2>3. ASSUME NEW i \in 1..m.parts, i > p PROVE outcome'[m][i] = "none"
    <3>1. i # p
      BY <2>1, <2>3
    <3>2. outcome'[m][i] = outcome[m][i]
      BY <1>3, <3>1
    <3> QED
      BY <1>7, <2>3, <3>2
  <2> QED
    BY <1>0, <2>1, <2>2, <2>3
<1>8. \A k \in Lanes, d \in Channels, x \in Messages :
        InWork(k, d, x)' => \A i \in 1..x.parts :
          /\ i < work'[k][d].part => outcome'[x][i] \in Final
          /\ i > work'[k][d].part => outcome'[x][i] = "none"
  <2> SUFFICES ASSUME NEW k \in Lanes, NEW d \in Channels, NEW x \in Messages, InWork(k, d, x)',
                      NEW i \in 1..x.parts
               PROVE  /\ i < work'[k][d].part => outcome'[x][i] \in Final
                      /\ i > work'[k][d].part => outcome'[x][i] = "none"
    OBVIOUS
  <2>1. CASE x = m
    <3>1. k = l /\ d = c /\ w.msg = m
      BY <1>6, <2>1
    <3>b. work'[k][d].part = w.part /\ outcome'[x] = outcome'[m] /\ i \in 1..m.parts
      BY <1>2, <2>1, <3>1
    <3>c. i \in Nat /\ p \in Nat
      BY <1>n, <3>b
    <3>a. /\ i < p => outcome'[m][i] \in Final
          /\ i > p => outcome'[m][i] = "none"
      BY <1>n, <3>b
    <3>2. CASE w.part = p
      BY <3>a, <3>b, <3>2
    <3>3. CASE w.part = p + 1 /\ r \in Final
      <4>1. /\ i < p + 1 => i < p \/ i = p
            /\ i > p + 1 => i > p
        BY <3>c
      <4> QED
        BY <1>3, <3>a, <3>b, <3>c, <3>3, <4>1
    <3>4. w # NewWorker
      BY <1>2, <3>1 DEF InWork, Busy, NewWorker
    <3> QED
      BY <1>1, <3>2, <3>3, <3>4
  <2>2. CASE x # m
    <3>1. InWork(k, d, x) /\ <<k, d>> # <<l, c>>
      BY <1>0, <1>6, <2>2 DEF InWork
    <3> QED
      BY <1>2, <1>3, <2>2, <3>1 DEF Untried
  <2> QED
    BY <2>1, <2>2
<1>9. ASSUME NEW n \in Messages, NEW i \in 2..n.parts, outcome'[n][i] # "none"
      PROVE  outcome'[n][i - 1] \in Final
  <2>0. n.parts \in Nat /\ i \in 1..n.parts /\ i - 1 \in 1..n.parts /\ i - 1 # i /\ i \in Nat
    BY Kinds
  <2>1. CASE n # m
    BY <1>3, <1>9, <2>1 DEF Untried
  <2>2. CASE n = m /\ i = p
    <3>1. i - 1 \in 1..m.parts /\ i - 1 < p
      BY <2>0, <2>2
    <3>2. outcome'[m][i - 1] \in Final
      BY <1>n, <3>1
    <3> QED
      BY <2>2, <3>2
  <2>3. CASE n = m /\ i # p
    <3>1. i \in 1..m.parts /\ i - 1 \in 1..m.parts /\ ~(i > p)
      BY <1>n, <1>9, <2>0, <2>3
    <3>2. i - 1 < p
      BY <1>n, <2>0, <3>1
    <3>3. outcome'[m][i - 1] \in Final
      BY <1>n, <3>1, <3>2
    <3> QED
      BY <2>3, <3>3
  <2> QED
    BY <2>1, <2>2, <2>3
<1>10. Untried'
  <2>1. Published' = Published
    BY <1>0 DEF Published
  <2>2. \A k \in Lanes, x \in Messages : InDisp(k, x)' <=> InDisp(k, x)
    BY <1>0 DEF InDisp, Held
  <2>3. \A n \in BusMessages \ Published' : Fresh(n)'
    BY Kinds, <1>4, <1>5, <2>1 DEF Untried
  <2>4. \A k \in Lanes, x \in Messages : Among(x, busQ'[k]) \/ InDisp(k, x)' => Fresh(x)'
    BY <1>0, <1>4, <1>5, <2>2 DEF Untried
  <2>5. \A k \in Lanes, d \in Channels, x \in Messages : Among(x, queue'[k][d]) => Fresh(x)'
    BY <1>0, <1>4, <1>5 DEF Untried
  <2>6. \A k \in Callers : caller'[k] # "returned" => Fresh(CallerMessage[k])'
    BY Kinds, <1>0, <1>4, <1>5 DEF Untried
  <2>7. \A n \in Messages : ~Fresh(n)' => n.to \in Channels
    BY <1>0, <1>4 DEF Untried
  <2> QED
    BY <1>8, <1>9, <2>3, <2>4, <2>5, <2>6, <2>7 DEF Untried, Among
<1>11. NotOvertaken'
  <2> SUFFICES ASSUME NEW a \in BusMessages, NEW b \in BusMessages, Precedes(a, b)', a.lane = b.lane,
                      a.to = b.to, ~Fresh(b)', InFlight(a)'
               PROVE  FALSE
    BY DEF NotOvertaken
  <2>0. a \in Messages /\ b \in Messages
    BY Kinds
  <2>1. Precedes(a, b)
    BY <1>0 DEF Precedes
  <2>2. CASE b # m
    <3>1. ~Fresh(b) /\ b.to \in Channels
      BY <1>4, <2>0, <2>2 DEF Untried
    <3>2. InFlight(a)
      BY <3>1, FlightMoves
    <3> QED
      BY <2>1, <3>1, <3>2 DEF NotOvertaken
  <2>3. CASE b = m
    <3>1. ~Ahead(m, a) /\ a # m
      <4>1. PICK i, j \in DOMAIN order : i < j /\ order[i] = a /\ order[j] = m
        BY <2>1, <2>3 DEF Precedes
      <4>2. i \in Nat /\ j \in Nat
        <5>1. DOMAIN order = 1..Len(order) /\ Len(order) \in Nat
          BY DEF Typed, TypeOK
        <5> QED
          BY <4>1, <5>1
      <4>3. \A h, k \in DOMAIN order : order[h] = order[k] => h = k
        BY DEF Line
      <4>4. a # m
        BY <4>1, <4>2, <4>3
      <4>5. ASSUME Precedes(m, a) PROVE FALSE
        <5>1. PICK h, k \in DOMAIN order : h < k /\ order[h] = m /\ order[k] = a
          BY <4>5 DEF Precedes
        <5>2. h = j /\ k = i
          BY <4>1, <4>3, <5>1
        <5> QED
          BY <4>1, <4>2, <5>1, <5>2
      <4> QED
        BY <2>3, <4>4, <4>5 DEF Ahead
    <3>2. ~Among(a, busQ[l]) /\ ~InDisp(l, a) /\ ~Among(a, queue[l][c])
      BY <1>0, <2>0, <3>1 DEF Line
    <3>3. \A d \in Channels : ~Among(a, queue[l][d])
      BY <1>0, <2>3, <3>2 DEF Typed, QueueOf, Among
    <3>4. \A d \in Channels : ~InWork(l, d, a)'
      <4> SUFFICES ASSUME NEW d \in Channels, InWork(l, d, a)' PROVE FALSE
        OBVIOUS
      <4>1. InWork(l, d, a)
        BY <1>6, <2>0
      <4>2. d = c
        BY <1>0, <2>3, <4>1 DEF Typed, WorkOf, InWork
      <4> QED
        BY <1>0, <3>1, <4>1, <4>2 DEF InWork
    <3>5. a # NoMessage
      BY <1>0, <2>3, ManagerAssumption DEF ManagerAssumption, NoMessage
    <3>6. \A d \in Channels : work'[l][d].msg # a
      BY <3>4, <3>5 DEF Typed, WorkOf, InWork
    <3>7. disp'[l].msg # a
      BY <1>0, <3>2, <3>5 DEF Typed, DispOf, InDisp
    <3> QED
      BY <1>0, <2>3, <3>2, <3>3, <3>6, <3>7 DEF InFlight, Among
  <2> QED
    BY <2>2, <2>3
<1> QED
  BY <1>10, <1>11

\* SendToChannel without a worker sends a message that was nowhere on the line.
LEMMA UntriedDirect ==
  ASSUME Typed, Typed', Line, Untried, NotOvertaken, Moves, NEW k \in Callers, CallerDirect(k),
         outcome' # outcome
  PROVE  Untried' /\ NotOvertaken'
<1>m. PICK m : m = CallerMessage[k]
  OBVIOUS
<1>0. /\ m \in Messages /\ m.lane = "text" /\ m.to \in Channels /\ m \notin BusMessages
      /\ m.parts \in Nat \ {0} /\ 1 \in 1..m.parts /\ Fresh(m)
      /\ caller[k] = "direct" /\ caller' = [caller EXCEPT ![k] = "returned"]
      /\ caller \in [Callers -> {"idle", "enqueue", "direct", "returned"}]
      /\ UNCHANGED <<busQ, disp, queue, work, order>>
  <2>1. /\ caller[k] = "direct" /\ caller' = [caller EXCEPT ![k] = "returned"]
        /\ UNCHANGED <<busQ, disp, queue, work, order>>
    BY DEF CallerDirect, ToCaller
  <2>2. m.to \in Channels /\ caller \in [Callers -> {"idle", "enqueue", "direct", "returned"}]
    BY <1>m, <2>1 DEF Typed, TypeOK, CallerOf
  <2>3. Fresh(m)
    BY <1>m, <2>1 DEF Untried
  <2>4. m.lane = "text" /\ m \notin BusMessages
    BY <1>m, ManagerAssumption DEF ManagerAssumption
  <2>5. m \in Messages /\ m.parts \in Nat \ {0} /\ 1 \in 1..m.parts
    BY <1>m, Kinds
  <2> QED
    BY <2>1, <2>2, <2>3, <2>4, <2>5
<1>1. PICK r \in {"sent", "permanent"} : outcome' = [outcome EXCEPT ![m][1] = r]
  BY <1>m DEF CallerDirect
<1>2. r \in Outcomes /\ r \in Final
  BY DEF Outcomes, Final
<1>3. /\ \A n \in Messages \ {m} : outcome'[n] = outcome[n]
      /\ outcome'[m][1] = r
      /\ \A i \in 1..m.parts : i # 1 => outcome'[m][i] = outcome[m][i]
  BY <1>0, <1>1, <1>2, Recorded
<1>4. \A n \in Messages \ {m} : Fresh(n)' <=> Fresh(n)
  BY <1>3 DEF Fresh
<1>5. /\ \A l \in Lanes, x \in Messages : Among(x, busQ[l]) \/ InDisp(l, x) => x # m
      /\ \A l \in Lanes, d \in Channels, x \in Messages :
           Among(x, queue[l][d]) \/ InWork(l, d, x) => x # m
      /\ \A j \in Callers : caller'[j] # "returned" => caller[j] # "returned" /\ CallerMessage[j] # m
  <2>1. \A l \in Lanes, x \in Messages : Among(x, busQ[l]) \/ InDisp(l, x) => x \in BusMessages
    BY DEF Typed, TypeOK, DispOf, Among, InDisp
  <2>2. \A j \in Callers : j # k => CallerMessage[j] # m
    BY <1>m, ManagerAssumption DEF ManagerAssumption
  <2> QED
    BY <1>m, <1>0, <2>1, <2>2 DEF Line
<1>6. NotOvertaken'
  BY Kinds, <1>0, <1>4, OvertakenMoves
<1>7. /\ Published' = Published
      /\ \A l \in Lanes, x \in Messages : InDisp(l, x)' <=> InDisp(l, x)
      /\ \A l \in Lanes, c \in Channels, x \in Messages : InWork(l, c, x)' <=> InWork(l, c, x)
  BY <1>0 DEF Published, InDisp, InWork, Held, Busy
<1>8. ASSUME NEW l \in Lanes, NEW c \in Channels, NEW x \in Messages, InWork(l, c, x),
             NEW i \in 1..x.parts
      PROVE  /\ i < work'[l][c].part => outcome'[x][i] \in Final
             /\ i > work'[l][c].part => outcome'[x][i] = "none"
  <2>1. x # m /\ outcome'[x] = outcome[x] /\ work' = work
    BY <1>0, <1>3, <1>5, <1>8
  <2> QED
    BY <1>8, <2>1 DEF Untried
<1>9. ASSUME NEW n \in Messages, NEW i \in 2..n.parts, outcome'[n][i] # "none"
      PROVE  outcome'[n][i - 1] \in Final
  <2>0. n.parts \in Nat /\ i \in 1..n.parts /\ i - 1 \in 1..n.parts /\ i # 1
    BY Kinds
  <2>1. CASE n # m
    BY <1>3, <1>9, <2>1 DEF Untried
  <2>2. CASE n = m
    BY <1>0, <1>3, <1>9, <2>0, <2>2 DEF Fresh
  <2> QED
    BY <2>1, <2>2
<1>10. Untried'
  <2>1. \A n \in BusMessages \ Published' : Fresh(n)'
    BY Kinds, <1>0, <1>4, <1>7 DEF Untried
  <2>2. \A l \in Lanes, x \in Messages : Among(x, busQ'[l]) \/ InDisp(l, x)' => Fresh(x)'
    BY <1>0, <1>4, <1>5, <1>7 DEF Untried
  <2>3. \A l \in Lanes, d \in Channels, x \in Messages : Among(x, queue'[l][d]) => Fresh(x)'
    BY <1>0, <1>4, <1>5 DEF Untried
  <2>4. \A j \in Callers : caller'[j] # "returned" => Fresh(CallerMessage[j])'
    BY Kinds, <1>4, <1>5 DEF Untried
  <2>5. \A n \in Messages : ~Fresh(n)' => n.to \in Channels
    BY <1>0, <1>4 DEF Untried
  <2> QED
    BY <1>7, <1>8, <1>9, <2>1, <2>2, <2>3, <2>4, <2>5 DEF Untried, Among
<1> QED
  BY <1>6, <1>10

LEMMA UntriedStep ==
  ASSUME Typed, Typed', Line, Untried, NotOvertaken, [Next]_vars
  PROVE  Untried' /\ NotOvertaken'
<1>1. CASE \E m \in BusMessages : Publish(m)
  BY <1>1, UntriedPublish
<1>2. CASE ~\E m \in BusMessages : Publish(m)
  <2>1. Moves
    BY <1>2, MovesStep
  <2>2. ASSUME Begins, outcome' = outcome PROVE Untried' /\ NotOvertaken'
    <3>1. \A b \in BusMessages : Fresh(b)' <=> Fresh(b)
      BY <2>2 DEF Fresh
    <3> QED
      BY <2>1, <2>2, <3>1, UntriedMoves, OvertakenMoves
  <2>3. work' = work => Begins
    BY DEF Begins, InWork, Busy
  <2>4. ASSUME NEW l \in Lanes, NEW c \in Channels, WorkerTake(l, c) PROVE Begins /\ outcome' = outcome
    <3>1. outcome' = outcome
      BY <2>4 DEF WorkerTake
    <3>2. CASE work' = work
      BY <2>3, <3>1, <3>2
    <3>3. CASE work' # work
      <4>1. PICK w : w = [pc |-> "limiter", msg |-> Head(queue[l][c]), part |-> 1, attempt |-> 0]
        OBVIOUS
      <4>2. /\ work' = [work EXCEPT ![l][c] = w] /\ queue[l][c] # <<>>
            /\ queue[l][c] \in Seq(Messages)
        <5>1. work' = [work EXCEPT ![l][c] = w] /\ queue[l][c] # <<>>
          BY <2>4, <3>3, <4>1 DEF WorkerTake, SetWorker
        <5> QED
          BY <5>1 DEF Typed, TypeOK
      <4>3. /\ work'[l][c] = w /\ w.part = 1 /\ w.msg = Head(queue[l][c])
            /\ \A k \in Lanes, d \in Channels : <<k, d>> # <<l, c>> => work'[k][d] = work[k][d]
        BY <4>1, <4>2 DEF Typed, TypeOK
      <4>4. Among(Head(queue[l][c]), queue[l][c])
        BY <4>2, TailAt DEF Among
      <4>5. Begins
        BY <4>3, <4>4 DEF Begins, InWork, Busy
      <4> QED
        BY <3>1, <4>5
    <3> QED
      BY <3>2, <3>3
  <2>5. ASSUME NEW l \in Lanes, NEW c \in Channels, WorkerExit(l, c) PROVE Begins /\ outcome' = outcome
    <3>1. PICK w : w = [NewWorker EXCEPT !.pc = "exited"]
      OBVIOUS
    <3>2. /\ work' = [work EXCEPT ![l][c] = w] /\ w.pc = "exited" /\ outcome' = outcome
      BY <2>5, <3>1 DEF WorkerExit, SetWorker, NewWorker
    <3>3. /\ work'[l][c].pc = "exited"
          /\ \A k \in Lanes, d \in Channels : <<k, d>> # <<l, c>> => work'[k][d] = work[k][d]
      BY <3>2 DEF Typed, TypeOK
    <3>4. Begins
      BY <3>3 DEF Begins, InWork, Busy
    <3> QED
      BY <3>2, <3>4
  <2>6. ASSUME NEW k \in Callers, CallerDirect(k) PROVE Untried' /\ NotOvertaken'
    <3>1. CASE outcome' = outcome
      BY <2>2, <2>3, <2>6, <3>1 DEF CallerDirect
    <3>2. CASE outcome' # outcome
      BY <2>1, <2>6, <3>2, UntriedDirect
    <3> QED
      BY <3>1, <3>2
  <2>7. CASE UNCHANGED vars
    BY <2>2, <2>3, <2>7 DEF vars
  <2>8. ASSUME NEW l \in Lanes, Dispatch(l) PROVE work' = work /\ outcome' = outcome
    BY <2>8 DEF Dispatch, DispatchTake, DispatchEnd, DispatchLookup, DispatchEnqueue
  <2>9. ASSUME Stop \/ \E c \in Removable : Remove(c) PROVE work' = work /\ outcome' = outcome
    BY <2>9 DEF Stop, StopLock, StopCloseText, StopCloseMedia, StopChannels, Remove, Unregister,
                UnregisterMedia, UnregisterDelete
  <2>10. ASSUME NEW k \in Callers, Caller(k) PROVE CallerDirect(k) \/ (work' = work /\ outcome' = outcome)
    BY <2>10 DEF Caller, CallerLookup, CallerEnqueue, CallerCancelled
  <2>11. ASSUME NEW l \in Lanes, NEW c \in Channels, Worker(l, c) PROVE Untried' /\ NotOvertaken'
    <3>1. CASE WorkerTake(l, c) \/ WorkerExit(l, c)
      BY <2>2, <2>4, <2>5, <3>1
    <3>2. CASE ~(WorkerTake(l, c) \/ WorkerExit(l, c))
      <4>1. Sends(l, c)
        BY <2>11, <3>2, WorkerSends DEF Worker
      <4> QED
        BY <2>1, <4>1, UntriedSends
    <3> QED
      BY <3>1, <3>2
  <2> QED
    BY <1>2, <2>2, <2>3, <2>6, <2>7, <2>8, <2>9, <2>10, <2>11 DEF Next
<1> QED
  BY <1>1, <1>2

\* A chat sees its messages, and their parts, in the order they were published.
\* What waits is untried, so a message that has been tried has left the line behind it.
THEOREM InOrder == Spec => []DeliveredInOrder
<1>1. Typed /\ Untried /\ NotOvertaken => DeliveredInOrder
  <2> SUFFICES ASSUME Typed, Untried, NotOvertaken PROVE DeliveredInOrder
    OBVIOUS
  <2>1. ASSUME NEW i \in DOMAIN order, NEW j \in DOMAIN order, i < j,
               order[i].lane = order[j].lane, order[i].to = order[j].to, Attempted(order[j])
        PROVE  ~InFlight(order[i])
    <3>1. order[i] \in BusMessages /\ order[j] \in BusMessages
      BY DEF Typed, TypeOK
    <3>2. Precedes(order[i], order[j])
      BY <2>1 DEF Precedes
    <3>3. ~Fresh(order[j])
      BY <2>1 DEF Fresh, Attempted
    <3> QED
      BY <2>1, <3>1, <3>2, <3>3 DEF NotOvertaken
  <2>2. \A m \in Messages : \A i \in 2..m.parts : outcome[m][i] # "none" => outcome[m][i - 1] \in Final
    BY DEF Untried
  <2> QED
    BY <2>1, <2>2 DEF DeliveredInOrder
<1> QED
  BY <1>1, TypedInit, TypedStep, LineInit, LineStep, UntriedInit, UntriedStep, PTL DEF Spec

=============================================================================
