-------------------------- MODULE MessageBusProofs --------------------------
(***************************************************************************)
(* Proofs about the message bus, for every number of publishers, consumers *)
(* and calls and every channel capacity; about what the channels' handlers *)
(* let through to it, for any of the handlers and any number of            *)
(* deliveries; and about how the adapters send a message to a platform,    *)
(* for any number of parts, retries and messages.                          *)
(***************************************************************************)
EXTENDS MessageBus, ChannelInbound, ChannelOutbound, SequenceTheorems, FiniteSetTheorems, TLAPS

-----------------------------------------------------------------------------
(* The message bus                                                         *)

\* The channel of every topic is emptied before the next one, and the last
\* loop returns from Close.
LEMMA NextDrainTyped == \A t \in Topics : NextDrain[t] \in Topics \cup {"returned"}
  BY DEF NextDrain, Topics

\* What a send appends is a message and what a receive leaves is a tail.
LEMMA TailTyped ==
  ASSUME NEW S, NEW s \in Seq(S), s # <<>>
  PROVE  Tail(s) \in Seq(S) /\ Head(s) \in S /\ s = <<Head(s)>> \o Tail(s)
  OBVIOUS

LEMMA TypeInit == Init => TypeOK
<1> SUFFICES ASSUME Init PROVE TypeOK
  OBVIOUS
<1>1. <<>> \in Seq(Msgs)
  OBVIOUS
<1>2. /\ buf \in [Topics -> Seq(Msgs)]
      /\ accepted \in [Topics -> Seq(Msgs)]
      /\ taken \in [Topics -> Seq(Msgs)]
  BY <1>1 DEF Init
<1>3. calls \in [Publishers -> 0..MaxCalls]
  BY BusAssumption DEF BusAssumption, Init
<1>4. /\ pub \in [Publishers -> [pc : {"idle", "ctx", "select"},
                                topic : Topics \cup {NoTopic}]]
      /\ \A p \in Publishers : pub[p].pc = "idle" /\ pub[p].topic = NoTopic
  BY DEF Init, Idle
<1> QED
  BY <1>2, <1>3, <1>4 DEF Init, TypeOK

LEMMA TypeStep == TypeOK /\ [Next]_vars => TypeOK'
<1> SUFFICES ASSUME TypeOK, [Next]_vars PROVE TypeOK'
  OBVIOUS
<1> USE BusAssumption DEF BusAssumption, TypeOK, Idle, NoTopic
<1>1. ASSUME NEW p \in Publishers, NEW t \in Topics, PublishStart(p, t)
      PROVE  TypeOK'
  BY <1>1 DEF PublishStart, history, Topics
<1>2. ASSUME NEW p \in Publishers, PublishCtxAlive(p) PROVE TypeOK'
  BY <1>2 DEF PublishCtxAlive, history, Topics
<1>3. ASSUME NEW p \in Publishers, PublishSend(p) PROVE TypeOK'
  <2> DEFINE t == pub[p].topic
             m == <<p, calls[p]>>
  <2>1. t \in Topics
    BY <1>3 DEF PublishSend
  <2>2. m \in Msgs
    BY <1>3 DEF PublishSend, Msgs
  <2>3. Append(buf[t], m) \in Seq(Msgs) /\ Append(accepted[t], m) \in Seq(Msgs)
    BY <2>1, <2>2
  <2> QED
    BY <1>3, <2>1, <2>2, <2>3 DEF PublishSend, Topics
<1>4. ASSUME NEW p \in Publishers, PublishDone(p) PROVE TypeOK'
  BY <1>4 DEF PublishDone, history, Topics
<1>5. ASSUME NEW p \in Publishers, PublishCancelled(p) PROVE TypeOK'
  BY <1>5 DEF PublishCancelled, history, Topics
<1>6. ASSUME NEW c \in Consumers, NEW t \in Topics, ConsumeStart(c, t)
      PROVE  TypeOK'
  BY <1>6 DEF ConsumeStart, history
<1>7. ASSUME NEW c \in Consumers, ConsumeTake(c) PROVE TypeOK'
  BY <1>7, TailTyped DEF ConsumeTake
<1>8. ASSUME NEW c \in Consumers, ConsumeDone(c) PROVE TypeOK'
  BY <1>8 DEF ConsumeDone, history
<1>9. ASSUME NEW c \in Consumers, ConsumeCancelled(c) PROVE TypeOK'
  BY <1>9 DEF ConsumeCancelled, history
<1>10. CASE Close
  <2>1. CASE CloseSwap
    BY <2>1 DEF CloseSwap, history
  <2>2. CASE CloseDone
    BY <2>2 DEF CloseDone, history, Topics
  <2>3. CASE DrainOne
    BY <2>3, TailTyped DEF DrainOne
  <2>4. CASE DrainNext
    BY <2>4, NextDrainTyped DEF DrainNext, history
  <2> QED
    BY <1>10, <2>1, <2>2, <2>3, <2>4 DEF Close
<1>11. CASE UNCHANGED vars
  BY <1>11 DEF vars
<1> QED
  BY <1>1, <1>2, <1>3, <1>4, <1>5, <1>6, <1>7, <1>8, <1>9, <1>10, <1>11
  DEF Next, Publish, Consume

\* The variables of the bus keep their types in every reachable state.
THEOREM TypeCorrect == Spec => []TypeOK
  BY TypeInit, TypeStep, PTL DEF Spec

-----------------------------------------------------------------------------
(* StrandedAtMostOne.  The property speaks of the channels behind the drain; *)
(* what makes it inductive is that everything there was accepted late, that  *)
(* a publisher with a late message never starts another call, and that a     *)
(* message is in one place only.                                             *)

\* The flag is set exactly while a Close call has been started.
ClosePhase == closed <=> closePc # "open"

\* A message in a channel belongs to a call of its publisher that is over.
CallOver(m) == /\ m[2] <= calls[m[1]]
               /\ pub[m[1]].pc # "idle" => m[2] < calls[m[1]]
BufferedCallsOver == \A t \in Topics : \A i \in DOMAIN buf[t] : CallOver(buf[t][i])

NoDuplicates ==
  \A t, u \in Topics : \A i \in DOMAIN buf[t], j \in DOMAIN buf[u] :
    buf[t][i] = buf[u][j] => <<t, i>> = <<u, j>>

\* A publisher that was accepted late has no call left, and never had two.
LateOnce == /\ ~closed => late = {}
            /\ \A m \in late : pub[m[1]].pc = "idle"
            /\ \A m, n \in late : m[1] = n[1] => m = n

BehindDrain ==
  \A t \in Topics : Drained(t) => \A i \in DOMAIN buf[t] : buf[t][i] \in late

StrandedInv == /\ TypeOK
               /\ ClosePhase
               /\ BufferedCallsOver
               /\ NoDuplicates
               /\ LateOnce
               /\ BehindDrain

\* Index arithmetic of a receive: element i of the tail is element i+1.
LEMMA TailIndex ==
  ASSUME NEW S, NEW s \in Seq(S), s # <<>>
  PROVE  /\ DOMAIN Tail(s) = 1..(Len(s) - 1)
         /\ \A i \in DOMAIN Tail(s) : i + 1 \in DOMAIN s /\ Tail(s)[i] = s[i + 1]
  OBVIOUS

\* Index arithmetic of a send: the new message is last, the others stay.
LEMMA AppendIndex ==
  ASSUME NEW S, NEW s \in Seq(S), NEW m \in S
  PROVE  /\ DOMAIN Append(s, m) = 1..(Len(s) + 1)
         /\ DOMAIN s = 1..Len(s)
         /\ Len(s) \in Nat
         /\ Append(s, m)[Len(s) + 1] = m
         /\ \A i \in DOMAIN s : Append(s, m)[i] = s[i]
  OBVIOUS

\* Receiving a message, by a consumer or by the drain, disturbs no part.
LEMMA ReceiveKeepsBuffers ==
  ASSUME StrandedInv, NEW t \in Topics, buf[t] # <<>>,
         buf' = [buf EXCEPT ![t] = Tail(@)],
         UNCHANGED <<closed, pub, calls, closePc, late>>
  PROVE  /\ BufferedCallsOver'
         /\ NoDuplicates'
         /\ BehindDrain'
<1> USE DEF StrandedInv
<1>1. \A u \in Topics : \A i \in DOMAIN buf'[u] :
        \E k \in DOMAIN buf[u] : /\ buf'[u][i] = buf[u][k]
                                 /\ k = IF u = t THEN i + 1 ELSE i
  BY TailIndex DEF TypeOK
<1>2. BufferedCallsOver'
  BY <1>1 DEF BufferedCallsOver, CallOver
<1>3. BehindDrain'
  BY <1>1 DEF BehindDrain, Drained
<1>4. NoDuplicates'
  <2> SUFFICES ASSUME NEW u \in Topics, NEW v \in Topics,
                      NEW i \in DOMAIN buf'[u], NEW j \in DOMAIN buf'[v],
                      buf'[u][i] = buf'[v][j]
               PROVE  <<u, i>> = <<v, j>>
    BY DEF NoDuplicates
  <2>1. \A w \in Topics : \A k \in DOMAIN buf'[w] : k \in Nat
    BY TailIndex DEF TypeOK
  <2>2. PICK k \in DOMAIN buf[u] : /\ buf'[u][i] = buf[u][k]
                                   /\ k = IF u = t THEN i + 1 ELSE i
    BY <1>1
  <2>3. PICK l \in DOMAIN buf[v] : /\ buf'[v][j] = buf[v][l]
                                   /\ l = IF v = t THEN j + 1 ELSE j
    BY <1>1
  <2>4. u = v /\ k = l
    BY <2>2, <2>3 DEF NoDuplicates
  <2> QED
    BY <2>1, <2>2, <2>3, <2>4
<1> QED
  BY <1>2, <1>3, <1>4

\* Sending disturbs no part: the new message is the publisher's current call.
LEMMA SendKeepsInv ==
  ASSUME StrandedInv, NEW p \in Publishers, PublishSend(p), TypeOK'
  PROVE  StrandedInv'
<1> DEFINE t == pub[p].topic
           m == <<p, calls[p]>>
<1> USE DEF StrandedInv
<1>1. /\ t \in Topics /\ m \in Msgs /\ buf[t] \in Seq(Msgs)
      /\ pub[p].pc = "select" /\ calls[p] \in Nat
  BY DEF PublishSend, TypeOK, Msgs
<1>2. /\ buf' = [buf EXCEPT ![t] = Append(@, m)]
      /\ late' = IF closed THEN late \cup {m} ELSE late
      /\ pub' = [pub EXCEPT ![p] = Idle]
      /\ UNCHANGED <<closed, calls, closePc>>
  BY DEF PublishSend
<1> HIDE DEF m, t
<1>3. \A u \in Topics : \A i \in DOMAIN buf'[u] :
        \/ i \in DOMAIN buf[u] /\ buf'[u][i] = buf[u][i]
        \/ u = t /\ i = Len(buf[t]) + 1 /\ buf'[u][i] = m
  BY <1>1, <1>2, AppendIndex DEF TypeOK
<1>4. \A u \in Topics : \A i \in DOMAIN buf[u] : buf[u][i] # m
  BY <1>1 DEF BufferedCallsOver, CallOver, m
<1>5. ClosePhase'
  BY <1>2 DEF ClosePhase
<1>6. BufferedCallsOver'
  <2>1. ASSUME NEW n, n = m PROVE CallOver(n)'
    BY <1>1, <1>2, <2>1 DEF CallOver, m, Idle, TypeOK
  <2>2. ASSUME NEW n \in Msgs, CallOver(n) PROVE CallOver(n)'
    BY <1>2, <2>2 DEF CallOver, TypeOK, Idle, Msgs
  <2>3. \A u \in Topics : \A i \in DOMAIN buf[u] : buf[u][i] \in Msgs
    BY DEF TypeOK
  <2> QED
    BY <1>3, <2>1, <2>2, <2>3 DEF BufferedCallsOver
<1>7. NoDuplicates'
  BY <1>3, <1>4 DEF NoDuplicates
<1>8. LateOnce'
  <2>1. \A n \in late : n[1] # p
    BY <1>1 DEF LateOnce
  <2>2. pub'[p].pc = "idle" /\ \A q \in Publishers : q # p => pub'[q] = pub[q]
    BY <1>2 DEF TypeOK, Idle
  <2>3. m[1] = p
    BY DEF m
  <2> QED
    BY <1>2, <2>1, <2>2, <2>3 DEF LateOnce, TypeOK, Msgs
<1>9. BehindDrain'
  <2>1. \A u \in Topics : Drained(u)' => Drained(u) /\ closed
    BY <1>2 DEF Drained, ClosePhase
  <2> QED
    BY <1>2, <1>3, <2>1 DEF BehindDrain
<1> QED
  BY <1>5, <1>6, <1>7, <1>8, <1>9

LEMMA StrandedInvInit == Init => StrandedInv
<1> SUFFICES ASSUME Init PROVE StrandedInv
  OBVIOUS
<1>1. TypeOK
  BY TypeInit
<1>2. \A t \in Topics : DOMAIN buf[t] = {}
  BY DEF Init
<1> QED
  BY <1>1, <1>2 DEF Init, StrandedInv, ClosePhase, BufferedCallsOver, NoDuplicates,
                    LateOnce, BehindDrain

LEMMA StrandedInvStep == StrandedInv /\ [Next]_vars => StrandedInv'
<1> SUFFICES ASSUME StrandedInv, [Next]_vars PROVE StrandedInv'
  OBVIOUS
<1>0. TypeOK'
  BY TypeStep DEF StrandedInv
<1> USE <1>0
<1>1. ASSUME NEW p \in Publishers, NEW t \in Topics, PublishStart(p, t)
      PROVE  StrandedInv'
  <2>1. /\ UNCHANGED <<closed, buf, closePc, late>>
        /\ \A q \in Publishers : q # p => pub'[q] = pub[q] /\ calls'[q] = calls[q]
        /\ pub[p].pc = "idle" /\ calls'[p] = calls[p] + 1
        /\ pub'[p].pc # "idle" => ~closed
    BY <1>1 DEF PublishStart, StrandedInv, TypeOK, history, Idle
  <2>2. ASSUME NEW n \in Msgs, CallOver(n) PROVE CallOver(n)'
    <3>1. n[1] \in Publishers /\ n[2] \in Nat /\ calls[n[1]] \in Nat
      BY BusAssumption DEF BusAssumption, StrandedInv, TypeOK, Msgs
    <3>2. CASE n[1] = p
      BY <2>1, <2>2, <3>1, <3>2 DEF CallOver
    <3>3. CASE n[1] # p
      BY <2>1, <2>2, <3>1, <3>3 DEF CallOver
    <3> QED
      BY <3>2, <3>3
  <2>3. \A u \in Topics : \A i \in DOMAIN buf[u] : buf[u][i] \in Msgs
    BY DEF StrandedInv, TypeOK
  <2>4. BufferedCallsOver'
    BY <2>1, <2>2, <2>3 DEF StrandedInv, BufferedCallsOver
  <2>5. LateOnce'
    BY <2>1 DEF StrandedInv, LateOnce, TypeOK, Msgs
  <2> QED
    BY <2>1, <2>4, <2>5 DEF StrandedInv, ClosePhase, NoDuplicates, BehindDrain, Drained
<1>2. ASSUME NEW p \in Publishers,
             PublishCtxAlive(p) \/ PublishDone(p) \/ PublishCancelled(p)
      PROVE  StrandedInv'
  <2>1. /\ UNCHANGED <<closed, buf, calls, closePc, late>>
        /\ \A q \in Publishers : pub[q].pc = "idle" => pub'[q].pc = "idle"
    BY <1>2 DEF PublishCtxAlive, PublishDone, PublishCancelled, history, Idle,
                StrandedInv, TypeOK
  <2>2. \A u \in Topics : \A i \in DOMAIN buf[u] : buf[u][i][1] \in Publishers
    BY DEF StrandedInv, TypeOK, Msgs
  <2>3. BufferedCallsOver'
    BY <2>1, <2>2 DEF StrandedInv, BufferedCallsOver, CallOver
  <2>4. LateOnce'
    BY <2>1 DEF StrandedInv, LateOnce, TypeOK, Msgs
  <2> QED
    BY <2>1, <2>3, <2>4 DEF StrandedInv, ClosePhase, NoDuplicates, BehindDrain, Drained
<1>3. ASSUME NEW p \in Publishers, PublishSend(p) PROVE StrandedInv'
  BY <1>3, SendKeepsInv
<1>4. ASSUME NEW c \in Consumers, ConsumeTake(c) PROVE StrandedInv'
  <2>1. /\ con[c] \in Topics /\ buf[con[c]] # <<>>
        /\ buf' = [buf EXCEPT ![con[c]] = Tail(@)]
        /\ UNCHANGED <<closed, pub, calls, closePc, late>>
    BY <1>4 DEF ConsumeTake, StrandedInv, TypeOK
  <2>2. BufferedCallsOver' /\ NoDuplicates' /\ BehindDrain'
    BY <2>1, ReceiveKeepsBuffers
  <2> QED
    BY <2>1, <2>2 DEF StrandedInv, ClosePhase, LateOnce
<1>5. CASE \E c \in Consumers : \/ \E t \in Topics : ConsumeStart(c, t)
                                \/ ConsumeDone(c)
                                \/ ConsumeCancelled(c)
  BY <1>5 DEF ConsumeStart, ConsumeDone, ConsumeCancelled, history, StrandedInv,
              ClosePhase, CallOver, BufferedCallsOver, NoDuplicates, LateOnce,
              BehindDrain, Drained
<1>6. CASE CloseSwap
  <2>1. late' = {} /\ \A t \in Topics : ~Drained(t)'
    BY <1>6 DEF CloseSwap, history, StrandedInv, LateOnce, Drained
  <2> QED
    BY <1>6, <2>1 DEF CloseSwap, history, StrandedInv, ClosePhase, CallOver,
                      BufferedCallsOver, NoDuplicates, LateOnce, BehindDrain
<1>7. CASE CloseDone
  <2>1. \A t \in Topics : ~Drained(t)'
    BY <1>7 DEF CloseDone, Drained
  <2> QED
    BY <1>7, <2>1 DEF CloseDone, history, StrandedInv, ClosePhase, CallOver,
                      BufferedCallsOver, NoDuplicates, LateOnce, BehindDrain
<1>8. CASE DrainOne
  <2>1. /\ closePc \in Topics /\ buf[closePc] # <<>>
        /\ buf' = [buf EXCEPT ![closePc] = Tail(@)]
        /\ UNCHANGED <<closed, pub, calls, closePc, late>>
    BY <1>8 DEF DrainOne
  <2>2. BufferedCallsOver' /\ NoDuplicates' /\ BehindDrain'
    BY <2>1, ReceiveKeepsBuffers
  <2> QED
    BY <2>1, <2>2 DEF StrandedInv, ClosePhase, LateOnce
<1>9. CASE DrainNext
  \* The channel that joins the drained ones is empty at this moment.
  <2>1. /\ closePc \in Topics /\ buf[closePc] = <<>>
        /\ closePc' = NextDrain[closePc]
        /\ UNCHANGED <<closed, buf, pub, calls, late>>
    BY <1>9 DEF DrainNext, history
  <2>2. \A t \in Topics : Drained(t)' => Drained(t) \/ buf[t] = <<>>
    BY <2>1 DEF Drained, NextDrain, Topics
  <2>3. closed' <=> closePc' # "open"
    BY <2>1 DEF StrandedInv, ClosePhase, NextDrain, Topics
  <2>4. BehindDrain'
    BY <2>1, <2>2 DEF StrandedInv, BehindDrain
  <2> QED
    BY <2>1, <2>3, <2>4 DEF StrandedInv, ClosePhase, CallOver, BufferedCallsOver,
                            NoDuplicates, LateOnce
<1>10. CASE UNCHANGED vars
  BY <1>10 DEF vars, StrandedInv, ClosePhase, CallOver, BufferedCallsOver,
               NoDuplicates, LateOnce, BehindDrain, Drained
<1> QED
  BY <1>1, <1>2, <1>3, <1>4, <1>5, <1>6, <1>7, <1>8, <1>9, <1>10
  DEF Next, Publish, Consume, Close

\* However publishers race with Close, at most one message of each of them is
\* behind the drain.
THEOREM StrandedBound == Spec => []StrandedAtMostOne
<1>1. StrandedInv => StrandedAtMostOne
  BY DEF StrandedInv, LateOnce, BehindDrain, NoDuplicates, StrandedAtMostOne
<1> QED
  BY <1>1, StrandedInvInit, StrandedInvStep, PTL DEF Spec

-----------------------------------------------------------------------------
(* Conservation is inductive together with the types.                       *)

\* Moving the head of the second part to the first leaves the whole as it is.
LEMMA MoveHead ==
  ASSUME NEW S, NEW a \in Seq(S), NEW b \in Seq(S), b # <<>>
  PROVE  Append(a, Head(b)) \o Tail(b) = a \o b
<1>1. /\ Head(b) \in S /\ Tail(b) \in Seq(S) /\ <<Head(b)>> \in Seq(S)
      /\ b = <<Head(b)>> \o Tail(b)
  BY TailTyped
<1>2. (a \o <<Head(b)>>) \o Tail(b) = a \o (<<Head(b)>> \o Tail(b))
  BY <1>1, ConcatAssociative
<1>3. Append(a, Head(b)) = a \o <<Head(b)>>
  BY <1>1, AppendIsConcat
<1> QED
  BY <1>1, <1>2, <1>3

\* A receive moves the head from the channel to what was taken.
LEMMA ReceiveConserves ==
  ASSUME TypeOK, Conservation, NEW t \in Topics, buf[t] # <<>>,
         buf' = [buf EXCEPT ![t] = Tail(@)],
         taken' = [taken EXCEPT ![t] = Append(@, Head(buf[t]))],
         UNCHANGED accepted
  PROVE  Conservation'
<1>1. buf[t] \in Seq(Msgs) /\ taken[t] \in Seq(Msgs)
  BY DEF TypeOK
<1>2. /\ Len(Tail(buf[t])) = Len(buf[t]) - 1
      /\ Len(buf[t]) \in Nat
  BY <1>1
<1>3. Append(taken[t], Head(buf[t])) \o Tail(buf[t]) = taken[t] \o buf[t]
  BY <1>1, MoveHead
<1>4. Len(buf[t]) <= Capacity /\ Capacity \in Nat
  BY BusAssumption DEF BusAssumption, Conservation
<1>5. Len(Tail(buf[t])) <= Capacity
  BY <1>2, <1>4
<1> QED
  BY <1>3, <1>5 DEF TypeOK, Conservation

\* A send appends the same message to the channel and to what was accepted.
LEMMA SendConserves ==
  ASSUME TypeOK, Conservation, NEW t \in Topics, NEW m \in Msgs,
         Len(buf[t]) < Capacity,
         buf' = [buf EXCEPT ![t] = Append(@, m)],
         accepted' = [accepted EXCEPT ![t] = Append(@, m)],
         UNCHANGED taken
  PROVE  Conservation'
<1>1. /\ buf[t] \in Seq(Msgs) /\ taken[t] \in Seq(Msgs) /\ accepted[t] \in Seq(Msgs)
      /\ accepted[t] = taken[t] \o buf[t]
  BY DEF TypeOK, Conservation
<1>2. /\ buf'[t] = Append(buf[t], m)
      /\ accepted'[t] = Append(accepted[t], m)
      /\ taken'[t] = taken[t]
  BY <1>1 DEF TypeOK
<1>3. PICK a \in Seq(Msgs), b \in Seq(Msgs) : a = taken[t] /\ b = buf[t]
  BY <1>1
<1>4. accepted'[t] = taken'[t] \o buf'[t]
  <2>1. ASSUME NEW x \in Seq(Msgs), NEW y \in Seq(Msgs)
        PROVE  Append(x \o y, m) = x \o Append(y, m)
    <3>1. <<m>> \in Seq(Msgs) /\ x \o y \in Seq(Msgs)
      OBVIOUS
    <3>2. (x \o y) \o <<m>> = x \o (y \o <<m>>)
      BY <3>1, ConcatAssociative
    <3>3. Append(x \o y, m) = (x \o y) \o <<m>>
      BY <3>1, AppendIsConcat
    <3>4. Append(y, m) = y \o <<m>>
      BY <3>1, AppendIsConcat
    <3> QED
      BY <3>2, <3>3, <3>4
  <2>2. Append(a \o b, m) = a \o Append(b, m)
    BY <1>3, <2>1
  <2> QED
    BY <1>1, <1>2, <1>3, <2>2
<1>5. Len(buf'[t]) <= Capacity
  BY <1>1, BusAssumption DEF BusAssumption, TypeOK
<1> QED
  BY <1>4, <1>5 DEF TypeOK, Conservation

\* Each channel is a bounded FIFO: nothing is lost, duplicated or reordered.
THEOREM ConservationHolds == Spec => []Conservation
<1>1. Init => Conservation
  BY BusAssumption DEF BusAssumption, Init, Conservation
<1>2. TypeOK /\ Conservation /\ [Next]_vars => Conservation'
  <2> SUFFICES ASSUME TypeOK, Conservation, [Next]_vars PROVE Conservation'
    OBVIOUS
  <2>1. CASE UNCHANGED <<buf, accepted, taken>>
    BY <2>1 DEF Conservation
  <2>2. ASSUME NEW p \in Publishers, Publish(p) PROVE Conservation'
    <3>1. CASE PublishSend(p)
      <4>1. pub[p].topic \in Topics /\ <<p, calls[p]>> \in Msgs
        BY <3>1 DEF PublishSend, TypeOK, Msgs
      <4> QED
        BY <3>1, <4>1, SendConserves DEF PublishSend
    <3>2. CASE ~PublishSend(p)
      BY <2>1, <2>2, <3>2 DEF Publish, PublishStart, PublishCtxAlive, PublishDone,
                              PublishCancelled, history
    <3> QED
      BY <3>1, <3>2
  <2>3. ASSUME NEW c \in Consumers, Consume(c) PROVE Conservation'
    <3>1. CASE ConsumeTake(c)
      BY <3>1, ReceiveConserves DEF ConsumeTake, TypeOK
    <3>2. CASE ~ConsumeTake(c)
      BY <2>1, <2>3, <3>2 DEF Consume, ConsumeStart, ConsumeDone, ConsumeCancelled,
                              history
    <3> QED
      BY <3>1, <3>2
  <2>4. CASE Close
    <3>1. CASE DrainOne
      BY <3>1, ReceiveConserves DEF DrainOne
    <3>2. CASE ~DrainOne
      BY <2>1, <2>4, <3>2 DEF Close, CloseSwap, CloseDone, DrainNext, history
    <3> QED
      BY <3>1, <3>2
  <2> QED
    BY <2>1, <2>2, <2>3, <2>4 DEF Next, vars
<1> QED
  BY <1>1, <1>2, TypeCorrect, PTL DEF Spec

-----------------------------------------------------------------------------
(* MessageBus implements BusContract, step by step.                         *)

Owed == {p \in Publishers : pub[p] # Idle}

\* Under the refinement mapping every step of the bus is a step of the
\* contract or changes nothing it can see.
THEOREM Refinement == Spec => Contract!Spec
<1>1. Init => Contract!Init
  BY DEF Init, Contract!Init
<1>2. TypeOK /\ [Next]_vars => [Contract!Next]_(Contract!contractVars)
  <2> SUFFICES ASSUME TypeOK, [Next]_vars
               PROVE  Contract!Next \/ UNCHANGED Contract!contractVars
    OBVIOUS
  <2> USE DEF Contract!Next, Contract!contractVars
  <2>1. ASSUME NEW p \in Publishers, NEW t \in Topics, PublishStart(p, t)
        PROVE  Contract!Ask(p) \/ UNCHANGED Contract!contractVars
    BY <2>1 DEF PublishStart, history, TypeOK, Idle, Contract!Ask
  <2>2. ASSUME NEW p \in Publishers, PublishCtxAlive(p)
        PROVE  UNCHANGED Contract!contractVars
    BY <2>2 DEF PublishCtxAlive, history, TypeOK, Idle
  <2>3. ASSUME NEW p \in Publishers, PublishSend(p) PROVE Contract!Sent(p)
    <3>1. pub[p].topic \in Topics /\ <<p, calls[p]>> \in Msgs
      BY <2>3 DEF PublishSend, TypeOK, Msgs
    <3>2. Owed' = Owed \ {p} /\ p \in Owed
      BY <2>3 DEF PublishSend, TypeOK, Idle, Owed
    <3> QED
      BY <2>3, <3>1, <3>2 DEF PublishSend, Owed, Contract!Sent
  <2>4. ASSUME NEW p \in Publishers, PublishDone(p) \/ PublishCancelled(p)
        PROVE  Contract!Refused(p)
    BY <2>4 DEF PublishDone, PublishCancelled, history, TypeOK, Idle, Contract!Refused
  <2>5. ASSUME NEW c \in Consumers, Consume(c)
        PROVE  Contract!Take \/ UNCHANGED Contract!contractVars
    BY <2>5 DEF Consume, ConsumeStart, ConsumeTake, ConsumeDone, ConsumeCancelled,
                history, TypeOK, Contract!Take
  <2>6. CASE Close
    BY <2>6 DEF Close, CloseSwap, CloseDone, DrainOne, DrainNext, history,
                Contract!Shut, Contract!Take
  <2>7. CASE UNCHANGED vars
    BY <2>7 DEF vars
  <2> QED
    BY <2>1, <2>2, <2>3, <2>4, <2>5, <2>6, <2>7 DEF Next, Publish
<1> QED
  BY <1>1, <1>2, TypeCorrect, PTL DEF Spec, Contract!Spec

-----------------------------------------------------------------------------
(* The channels' handlers.  A run is known by the stages it has passed:    *)
(* Checked says what they have found out, and Table what the stages of     *)
(* every handler are, so that the stage "handle" is reached only with all  *)
(* that OnlyWanted asks for.  HandedOn counts the downloads by the runs    *)
(* that hold one, Deduplicated the runs past the deduplicator, and Hearing *)
(* says that a message that has to be heard is on its way.                 *)

\* The stages a run of handler h at stage k has passed.
Behind(h, k) == {Stages[h][m] : m \in 1..(k - 1)}

\* Handlers with a deduplicator, handlers whose messages may be forged or the bot's own,
\* those that look at the list before anything else, those without groups, and those
\* that look at groups without a trigger.
Onces == {"wecom", "wecomApp", "qq", "qqGroup"}
Forgeable == {"line", "wecom", "wecomApp"}
Echoing == {"discord", "slack", "slackMention"}
ListFirst == {"telegram", "discord", "slack", "slackMention"}
Ungrouped == {"qq", "maixcam", "slackCommand", "wecomApp", "pico"}
Untriggered == {"slackMention", "whatsapp", "whatsappNative"}

StageNames == {"verify", "self", "allow", "once", "ack", "download", "strip", "stripGroup",
               "blank", "fill", "trigger", "handle"}

\* What is true of the table of stages at stage k of handler h.
Row(h, k) ==
  LET s == Stages[h][k] IN
  /\ s \in StageNames
  /\ s # "handle" => k + 1 \in DOMAIN Stages[h]
  /\ s = "handle" /\ h \in Forgeable => "verify" \in Behind(h, k)
  /\ s = "handle" /\ h \in Echoing => "self" \in Behind(h, k)
  /\ s = "handle" /\ h \notin Ungrouped \cup Untriggered => "trigger" \in Behind(h, k)
  /\ s = "handle" /\ h \in Onces => "once" \in Behind(h, k)
  /\ s \in {"download", "ack", "handle"} /\ h \in ListFirst => "allow" \in Behind(h, k)
  /\ s = "trigger" => h \notin Untriggered
  /\ s \in {"trigger", "strip", "stripGroup"} => "trigger" \notin Behind(h, k)
  /\ s = "strip" => h \in Echoing
  /\ s = "stripGroup" => h = "line"
  /\ s = "once" => h \in Onces /\ "once" \notin Behind(h, k)
  /\ s = "download" => "download" \notin Behind(h, k)
  /\ "download" \in Behind(h, k) => h \in Downloading
  /\ s \in {"verify", "self", "allow", "once", "trigger"} /\ h \notin {"telegram", "line"} =>
       "download" \notin Behind(h, k)

LEMMA Handlers ==
  DOMAIN Stages = {"telegram", "discord", "slack", "slackMention", "slackCommand", "line",
     "wecom", "wecomApp", "qq", "qqGroup", "dingtalk", "feishu", "maixcam", "whatsapp",
     "whatsappNative", "pico"}
  BY DEF Stages

\* Every handler's stages, one by one.
LEMMA Table == \A h \in DOMAIN Stages : \A k \in DOMAIN Stages[h] : Row(h, k)
<1> USE DEF Row, Behind, Onces, Forgeable, Echoing, ListFirst, Ungrouped, Untriggered,
            StageNames, Downloading
<1>1. \A k \in DOMAIN Stages["telegram"] : Row("telegram", k)
  <2>1. Stages["telegram"] = Telegram
    BY DEF Stages
  <2> QED
    BY <2>1 DEF Telegram
<1>2. \A k \in DOMAIN Stages["discord"] : Row("discord", k)
  <2>1. Stages["discord"] = Discord
    BY DEF Stages
  <2> QED
    BY <2>1 DEF Discord
<1>3. \A k \in DOMAIN Stages["slack"] : Row("slack", k)
  <2>1. Stages["slack"] = SlackMessage
    BY DEF Stages
  <2> QED
    BY <2>1 DEF SlackMessage
<1>4. \A k \in DOMAIN Stages["slackMention"] : Row("slackMention", k)
  <2>1. Stages["slackMention"] = SlackMention
    BY DEF Stages
  <2> QED
    BY <2>1 DEF SlackMention
<1>5. \A k \in DOMAIN Stages["slackCommand"] : Row("slackCommand", k)
  <2>1. Stages["slackCommand"] = SlackCommand
    BY DEF Stages
  <2> QED
    BY <2>1 DEF SlackCommand
<1>6. \A k \in DOMAIN Stages["line"] : Row("line", k)
  <2>1. Stages["line"] = Line
    BY DEF Stages
  <2> QED
    BY <2>1 DEF Line
<1>7. \A k \in DOMAIN Stages["wecom"] : Row("wecom", k)
  <2>1. Stages["wecom"] = WeComBot
    BY DEF Stages
  <2> QED
    BY <2>1 DEF WeComBot
<1>8. \A k \in DOMAIN Stages["wecomApp"] : Row("wecomApp", k)
  <2>1. Stages["wecomApp"] = WeComApp
    BY DEF Stages
  <2> QED
    BY <2>1 DEF WeComApp
<1>9. \A k \in DOMAIN Stages["qq"] : Row("qq", k)
  <2>1. Stages["qq"] = QQDirect
    BY DEF Stages
  <2> QED
    BY <2>1 DEF QQDirect
<1>10. \A k \in DOMAIN Stages["qqGroup"] : Row("qqGroup", k)
  <2>1. Stages["qqGroup"] = QQGroup
    BY DEF Stages
  <2> QED
    BY <2>1 DEF QQGroup
<1>11. \A k \in DOMAIN Stages["dingtalk"] : Row("dingtalk", k)
  <2>1. Stages["dingtalk"] = DingTalk
    BY DEF Stages
  <2> QED
    BY <2>1 DEF DingTalk
<1>12. \A k \in DOMAIN Stages["feishu"] : Row("feishu", k)
  <2>1. Stages["feishu"] = Feishu
    BY DEF Stages
  <2> QED
    BY <2>1 DEF Feishu
<1>13. \A k \in DOMAIN Stages["maixcam"] : Row("maixcam", k)
  <2>1. Stages["maixcam"] = MaixCam
    BY DEF Stages
  <2> QED
    BY <2>1 DEF MaixCam
<1>14. \A k \in DOMAIN Stages["whatsapp"] : Row("whatsapp", k)
  <2>1. Stages["whatsapp"] = WhatsApp
    BY DEF Stages
  <2> QED
    BY <2>1 DEF WhatsApp
<1>15. \A k \in DOMAIN Stages["whatsappNative"] : Row("whatsappNative", k)
  <2>1. Stages["whatsappNative"] = WhatsAppNative
    BY DEF Stages
  <2> QED
    BY <2>1 DEF WhatsAppNative
<1>16. \A k \in DOMAIN Stages["pico"] : Row("pico", k)
  <2>1. Stages["pico"] = Pico
    BY DEF Stages
  <2> QED
    BY <2>1 DEF Pico
<1> HIDE DEF Row
<1> QED
  BY <1>1, <1>2, <1>3, <1>4, <1>5, <1>6, <1>7, <1>8, <1>9, <1>10, <1>11, <1>12, <1>13,
     <1>14, <1>15, <1>16, Handlers

\* The stages of a handler are numbered from 1.
Numbered(h) == \E len \in Nat : len > 0 /\ DOMAIN Stages[h] = 1..len

LEMMA Lengths ==
  ASSUME NEW h \in DOMAIN Stages
  PROVE  Numbered(h)
<1> USE DEF Numbered
<1>1. Numbered("telegram")
  <2>1. Stages["telegram"] = Telegram
    BY DEF Stages
  <2> QED
    BY <2>1 DEF Telegram
<1>2. Numbered("discord")
  <2>1. Stages["discord"] = Discord
    BY DEF Stages
  <2> QED
    BY <2>1 DEF Discord
<1>3. Numbered("slack")
  <2>1. Stages["slack"] = SlackMessage
    BY DEF Stages
  <2> QED
    BY <2>1 DEF SlackMessage
<1>4. Numbered("slackMention")
  <2>1. Stages["slackMention"] = SlackMention
    BY DEF Stages
  <2> QED
    BY <2>1 DEF SlackMention
<1>5. Numbered("slackCommand")
  <2>1. Stages["slackCommand"] = SlackCommand
    BY DEF Stages
  <2> QED
    BY <2>1 DEF SlackCommand
<1>6. Numbered("line")
  <2>1. Stages["line"] = Line
    BY DEF Stages
  <2> QED
    BY <2>1 DEF Line
<1>7. Numbered("wecom")
  <2>1. Stages["wecom"] = WeComBot
    BY DEF Stages
  <2> QED
    BY <2>1 DEF WeComBot
<1>8. Numbered("wecomApp")
  <2>1. Stages["wecomApp"] = WeComApp
    BY DEF Stages
  <2> QED
    BY <2>1 DEF WeComApp
<1>9. Numbered("qq")
  <2>1. Stages["qq"] = QQDirect
    BY DEF Stages
  <2> QED
    BY <2>1 DEF QQDirect
<1>10. Numbered("qqGroup")
  <2>1. Stages["qqGroup"] = QQGroup
    BY DEF Stages
  <2> QED
    BY <2>1 DEF QQGroup
<1>11. Numbered("dingtalk")
  <2>1. Stages["dingtalk"] = DingTalk
    BY DEF Stages
  <2> QED
    BY <2>1 DEF DingTalk
<1>12. Numbered("feishu")
  <2>1. Stages["feishu"] = Feishu
    BY DEF Stages
  <2> QED
    BY <2>1 DEF Feishu
<1>13. Numbered("maixcam")
  <2>1. Stages["maixcam"] = MaixCam
    BY DEF Stages
  <2> QED
    BY <2>1 DEF MaixCam
<1>14. Numbered("whatsapp")
  <2>1. Stages["whatsapp"] = WhatsApp
    BY DEF Stages
  <2> QED
    BY <2>1 DEF WhatsApp
<1>15. Numbered("whatsappNative")
  <2>1. Stages["whatsappNative"] = WhatsAppNative
    BY DEF Stages
  <2> QED
    BY <2>1 DEF WhatsAppNative
<1>16. Numbered("pico")
  <2>1. Stages["pico"] = Pico
    BY DEF Stages
  <2> QED
    BY <2>1 DEF Pico
<1> HIDE DEF Numbered
<1> QED
  BY <1>1, <1>2, <1>3, <1>4, <1>5, <1>6, <1>7, <1>8, <1>9, <1>10, <1>11, <1>12, <1>13,
     <1>14, <1>15, <1>16, Handlers

-----------------------------------------------------------------------------
(* The invariant                                                           *)

\* A mention that is not in the text any more, or never was.
Unmarked(h) ==
  \/ message.mention = "none"
  \/ message.mention = "bot" /\ (h \in {"slack", "slackMention"} \/ Mentioned(h, message))

\* A run is of a delivery, at one of its handler's stages.
RunTyped(r) ==
  /\ r.handler \in handlers /\ r.n \in Nat \ {0} /\ r.n <= events[r.handler]
  /\ r.stage \in DOMAIN Stages[r.handler]
  /\ r.text \in {message.text, "plain"} /\ r.files \in {0, 1}

\* What the stages behind a run have found out.
Checked(r) ==
  LET behind == Behind(r.handler, r.stage) IN
  /\ "verify" \in behind => message.genuine
  /\ "self" \in behind => ~message.own
  /\ "allow" \in behind => Allowed
  /\ "trigger" \in behind /\ message.group =>
       Responds(Mentioned(r.handler, message), Said(r.handler))
  /\ "trigger" \notin behind /\ ~r.marked => Unmarked(r.handler)
  /\ r.files = 1 => "download" \in behind

\* What the proof needs of the types.
InTyped ==
  /\ handlers \subseteq DOMAIN Stages
  /\ events \in [handlers -> Nat] /\ published \in [handlers -> Nat]
  /\ downloads \in Int /\ forgotten \in Nat /\ IsFiniteSet(underWay)
  /\ setup.trigger \in {"none", "mention_only", "prefixes"}
  /\ \A r \in underWay : RunTyped(r)

\* The handlers fit the message, and only Slack has two for one.
Chosen ==
  /\ \A h \in handlers : Possible(h, message)
  /\ \A g, h \in handlers : g = h \/ {g, h} \subseteq {"slack", "slackMention"}
  /\ handlers = {} => ~seen /\ downloads = 0 /\ ~acks

\* A delivery is handled by one run.
OneRun == \A q, r \in underWay : q.handler = r.handler /\ q.n = r.n => q = r

AllChecked == \A r \in underWay : Checked(r)

\* Runs that have downloaded something.
Holding == {r \in underWay : r.files = 1}

HandedOn ==
  (\A h \in handlers : h \notin {"telegram", "line"}) /\ lost = {}
    => downloads = Cardinality(Holding)

\* A run is past a stage.
Past(r, s) == s \in Behind(r.handler, r.stage)

\* Each time it has not seen the message, one run comes past the deduplicator.
Passed == {r \in underWay : Past(r, "once")}

Deduplicated ==
  \A h \in handlers \cap Onces :
    /\ published[h] + Cardinality(Passed) <= forgotten + (IF seen THEN 1 ELSE 0)
    /\ seen => events[h] > 0

\* A message that has to be heard.
MustHear(h) ==
  /\ message.genuine /\ ~message.own /\ Allowed /\ message.text # "empty"
  /\ message.group => Mentioned(h, message) \/ setup.trigger = "none"

\* It is published, could not be, or a run is on the way to it.
Hearing ==
  \A h \in handlers : MustHear(h) /\ events[h] > 0 =>
    \/ published[h] > 0
    \/ h \in lost
    \/ \E r \in underWay : r.handler = h /\ (h \in Onces /\ seen => Past(r, "once"))

InInv ==
  /\ InTyped /\ Chosen /\ OneRun /\ AllChecked /\ OnlyWanted /\ NothingForStrangers
  /\ HandedOn /\ Deduplicated /\ Hearing

-----------------------------------------------------------------------------
(* One step of a run                                                       *)

LEMMA RunIs ==
  ASSUME NEW h, NEW n, NEW stage, NEW text, NEW marked, NEW files,
         NEW t, t = Run(h, n, stage, text, marked, files)
  PROVE  /\ t.handler = h /\ t.n = n /\ t.stage = stage /\ t.text = text
         /\ t.marked = marked /\ t.files = files
  BY DEF Run

\* What lets a run pass its stage.
Gate(r) ==
  LET s == StageOf(r)
      mentioned == Mentioned(r.handler, message) IN
  /\ s = "verify" => message.genuine
  /\ s = "self" => ~message.own
  /\ s = "allow" => Allowed
  /\ s = "once" => ~seen
  /\ s = "trigger" /\ message.group =>
       Responds(mentioned, IF r.marked /\ ~mentioned THEN "plain" ELSE r.text)
  /\ s # "handle"

\* What becomes of a run that passes.
Goes(r, t) ==
  LET s == StageOf(r) IN
  /\ t.handler = r.handler /\ t.n = r.n /\ t.stage = r.stage + 1
  /\ t.text \in {r.text, "plain"}
  /\ t.files = r.files \/ (s = "download" /\ t.files \in {0, 1})
  /\ s # "trigger" /\ ~t.marked =>
       \/ ~r.marked
       \/ /\ s \in {"strip", "stripGroup"} /\ message.mention = "bot"
          /\ r.handler = "line" => setup.known

\* What drops it.
Fails(r) ==
  LET s == StageOf(r)
      mentioned == Mentioned(r.handler, message) IN
  \/ s = "verify" /\ ~message.genuine
  \/ s = "self" /\ message.own
  \/ s = "allow" /\ ~Allowed
  \/ s = "once" /\ seen
  \/ s = "blank" /\ r.text = "empty" /\ r.files = 0
  \/ /\ s = "trigger" /\ message.group
     /\ ~Responds(mentioned, IF r.marked /\ ~mentioned THEN "plain" ELSE r.text)

\* The step of a run that passes.
Moves(r, t) ==
  LET s == StageOf(r) IN
  /\ underWay' = (underWay \ {r}) \cup {t}
  /\ Gate(r) /\ Goes(r, t)
  /\ seen' <=> seen \/ s = "once"
  /\ downloads' = IF s = "download" THEN downloads + t.files ELSE downloads
  /\ acks' => acks \/ s = "ack"
  /\ UNCHANGED published

\* The content of a run changes, nothing else.
Same(r, to) ==
  /\ to.handler = r.handler /\ to.n = r.n /\ to.stage = r.stage
  /\ to.text \in {r.text, "plain"} /\ to.files = r.files

LEMMA PassMoves ==
  ASSUME NEW r, NEW passes, NEW to, PassOrDrop(r, passes, to),
         passes => Gate(r) /\ Same(r, to), ~passes => Fails(r),
         StageOf(r) \notin {"once", "ack", "download"},
         StageOf(r) # "trigger" /\ ~to.marked =>
           \/ ~r.marked
           \/ /\ StageOf(r) \in {"strip", "stripGroup"} /\ message.mention = "bot"
              /\ r.handler = "line" => setup.known
  PROVE  (\E t : Moves(r, t)) \/ (Drop(r) /\ Fails(r))
<1>1. CASE passes
  <2> DEFINE t == Run(to.handler, to.n, to.stage + 1, to.text, to.marked, to.files)
  <2>1. /\ underWay' = (underWay \ {r}) \cup {t}
        /\ UNCHANGED <<seen, downloads, acks, published>>
    BY <1>1 DEF PassOrDrop, Advance
  <2>2. /\ t.handler = to.handler /\ t.n = to.n /\ t.stage = to.stage + 1 /\ t.text = to.text
        /\ t.marked = to.marked /\ t.files = to.files
    BY RunIs
  <2> HIDE DEF t
  <2>3. Goes(r, t)
    BY <1>1, <2>2 DEF Goes, Same
  <2> QED
    BY <1>1, <2>1, <2>3 DEF Moves
<1>2. CASE ~passes
  BY <1>2 DEF PassOrDrop
<1> QED
  BY <1>1, <1>2

LEMMA SelfSame == ASSUME NEW r PROVE Same(r, r)
  BY DEF Same

LEMMA ContentSame ==
  ASSUME NEW r, NEW text, NEW marked, NEW files, NEW to, to = Content(r, text, marked, files)
  PROVE  /\ to.handler = r.handler /\ to.n = r.n /\ to.stage = r.stage
         /\ to.text = text /\ to.marked = marked /\ to.files = files
  BY RunIs DEF Content

LEMMA Outcome ==
  ASSUME NEW r, Step(r)
  PROVE  \/ \E t : Moves(r, t)
         \/ Drop(r) /\ Fails(r)
         \/ HandleMessage(r)
<1> SUFFICES ASSUME Look(r)
             PROVE  (\E t : Moves(r, t)) \/ (Drop(r) /\ Fails(r))
  BY DEF Step
<1>1. CASE Verify(r)
  <2>1. PassOrDrop(r, message.genuine, r) /\ StageOf(r) = "verify"
    BY <1>1 DEF Verify
  <2>2. message.genuine => Gate(r)
    BY <2>1 DEF Gate
  <2>3. ~message.genuine => Fails(r)
    BY <2>1 DEF Fails
  <2> QED
    BY <2>1, <2>2, <2>3, SelfSame, PassMoves
<1>2. CASE Self(r)
  <2>1. PassOrDrop(r, ~message.own, r) /\ StageOf(r) = "self"
    BY <1>2 DEF Self
  <2>2. ~message.own => Gate(r)
    BY <2>1 DEF Gate
  <2>3. message.own => Fails(r)
    BY <2>1 DEF Fails
  <2> QED
    BY <2>1, <2>2, <2>3, SelfSame, PassMoves
<1>3. CASE Allow(r)
  <2>1. PassOrDrop(r, Allowed, r) /\ StageOf(r) = "allow"
    BY <1>3 DEF Allow
  <2>2. Allowed => Gate(r)
    BY <2>1 DEF Gate
  <2>3. ~Allowed => Fails(r)
    BY <2>1 DEF Fails
  <2> QED
    BY <2>1, <2>2, <2>3, SelfSame, PassMoves
<1>4. CASE OnlyOnce(r)
  <2>1. CASE seen
    BY <1>4, <2>1 DEF OnlyOnce, Fails
  <2>2. CASE ~seen
    <3> DEFINE t == Run(r.handler, r.n, r.stage + 1, r.text, r.marked, r.files)
    <3>1. /\ StageOf(r) = "once" /\ seen'
          /\ underWay' = (underWay \ {r}) \cup {t} /\ UNCHANGED <<downloads, acks, published>>
      BY <1>4, <2>2 DEF OnlyOnce, Advance
    <3>2. /\ t.handler = r.handler /\ t.n = r.n /\ t.stage = r.stage + 1 /\ t.text = r.text
          /\ t.marked = r.marked /\ t.files = r.files
      BY RunIs
    <3> HIDE DEF t
    <3>3. Gate(r) /\ Goes(r, t)
      BY <2>2, <3>1, <3>2 DEF Gate, Goes
    <3> QED
      BY <2>2, <3>1, <3>3 DEF Moves
  <2> QED
    BY <2>1, <2>2
<1>5. CASE Ack(r)
  <2> DEFINE t == Run(r.handler, r.n, r.stage + 1, r.text, r.marked, r.files)
  <2>1. /\ StageOf(r) = "ack"
        /\ underWay' = (underWay \ {r}) \cup {t} /\ UNCHANGED <<seen, downloads, published>>
    BY <1>5 DEF Ack, Advance
  <2>2. /\ t.handler = r.handler /\ t.n = r.n /\ t.stage = r.stage + 1 /\ t.text = r.text
        /\ t.marked = r.marked /\ t.files = r.files
    BY RunIs
  <2> HIDE DEF t
  <2>3. Gate(r) /\ Goes(r, t)
    BY <2>1, <2>2 DEF Gate, Goes
  <2> QED
    BY <2>1, <2>3 DEF Moves
<1>6. CASE Download(r)
  <2>1. PICK n \in 0..Attachments(r.handler) :
          downloads' = downloads + n /\ Advance(r, Fetched(r, n))
    BY <1>6 DEF Download
  <2>2. StageOf(r) = "download" /\ UNCHANGED <<seen, acks, published>>
    BY <1>6 DEF Download
  <2>3. n \in {0, 1}
    BY <2>1 DEF Attachments
  <2> DEFINE to == Fetched(r, n)
             t == Run(to.handler, to.n, to.stage + 1, to.text, to.marked, to.files)
  <2>4. /\ to.handler = r.handler /\ to.n = r.n /\ to.stage = r.stage
        /\ to.text \in {r.text, "plain"} /\ to.marked = r.marked /\ to.files = n
    <3>1. CASE r.handler = "discord" /\ message.files /\ r.text = "empty"
      <4>1. to = Content(r, "plain", r.marked, n)
        BY <3>1 DEF Fetched
      <4> HIDE DEF to
      <4> QED
        BY <4>1, ContentSame
    <3>2. CASE ~(r.handler = "discord" /\ message.files /\ r.text = "empty")
      <4>1. to = Content(r, r.text, r.marked, n)
        BY <3>2 DEF Fetched
      <4> HIDE DEF to
      <4> QED
        BY <4>1, ContentSame
    <3> QED
      BY <3>1, <3>2
  <2>5. underWay' = (underWay \ {r}) \cup {t}
    BY <2>1 DEF Advance
  <2>6. /\ t.handler = to.handler /\ t.n = to.n /\ t.stage = to.stage + 1 /\ t.text = to.text
        /\ t.marked = to.marked /\ t.files = to.files
    BY RunIs
  <2> HIDE DEF to, t
  <2>7. Gate(r) /\ Goes(r, t)
    BY <2>2, <2>3, <2>4, <2>6 DEF Gate, Goes
  <2> QED
    BY <2>1, <2>2, <2>4, <2>5, <2>6, <2>7 DEF Moves
<1>7. CASE Strip(r)
  <2> DEFINE to == IF StageOf(r) = "strip" \/ message.group THEN Stripped(r) ELSE r
  <2>1. PassOrDrop(r, TRUE, to) /\ StageOf(r) \in {"strip", "stripGroup"}
    BY <1>7 DEF Strip
  <2>2. Same(r, to) /\ (~to.marked => ~r.marked \/ (message.mention = "bot"
          /\ (r.handler = "line" => setup.known)))
    <3>1. CASE StageOf(r) = "strip" \/ message.group
      <4> DEFINE gone == message.mention = "bot" /\ (r.handler = "line" => setup.known)
      <4>1. to = Content(r, r.text, r.marked /\ ~gone, r.files)
        BY <3>1 DEF Stripped
      <4> HIDE DEF to
      <4>2. Same(r, to) /\ to.marked = (r.marked /\ ~gone)
        BY <4>1, ContentSame DEF Same
      <4> QED
        BY <4>2
    <3>2. CASE ~(StageOf(r) = "strip" \/ message.group)
      BY <3>2, SelfSame
    <3> QED
      BY <3>1, <3>2
  <2>3. Gate(r)
    BY <2>1 DEF Gate
  <2> HIDE DEF to
  <2> QED
    BY <2>1, <2>2, <2>3, PassMoves
<1>8. CASE Blank(r)
  <2>1. PassOrDrop(r, ~Wordless(r), r) /\ StageOf(r) = "blank"
    BY <1>8 DEF Blank
  <2>2. Gate(r)
    BY <2>1 DEF Gate
  <2>3. Wordless(r) => Fails(r)
    BY <2>1 DEF Fails, Wordless
  <2> QED
    BY <2>1, <2>2, <2>3, SelfSame, PassMoves
<1>9. CASE Fill(r)
  <2> DEFINE to == IF Wordless(r) THEN Filled(r) ELSE r
  <2>1. PassOrDrop(r, TRUE, to) /\ StageOf(r) = "fill"
    BY <1>9 DEF Fill
  <2>2. Same(r, to) /\ to.marked = r.marked
    <3>1. CASE Wordless(r)
      <4>1. to = Content(r, "plain", r.marked, r.files)
        BY <3>1 DEF Filled
      <4> HIDE DEF to
      <4> QED
        BY <4>1, ContentSame DEF Same
    <3>2. CASE ~Wordless(r)
      BY <3>2, SelfSame
    <3> QED
      BY <3>1, <3>2
  <2>3. Gate(r)
    BY <2>1 DEF Gate
  <2> HIDE DEF to
  <2> QED
    BY <2>1, <2>2, <2>3, PassMoves
<1>10. CASE Trigger(r)
  <2> DEFINE mentioned == Mentioned(r.handler, message)
             text == IF r.marked /\ ~mentioned THEN "plain" ELSE r.text
             to == IF mentioned /\ r.handler = "telegram" THEN Stripped(r)
                   ELSE IF ~mentioned /\ setup.trigger = "prefixes" THEN Filled(r) ELSE r
  <2>1. StageOf(r) = "trigger"
    BY <1>10 DEF Trigger
  <2>2. Same(r, to)
    <3>1. CASE mentioned /\ r.handler = "telegram"
      <4> DEFINE gone == message.mention = "bot" /\ (r.handler = "line" => setup.known)
      <4>1. to = Content(r, r.text, r.marked /\ ~gone, r.files)
        BY <3>1 DEF Stripped
      <4> HIDE DEF to
      <4> QED
        BY <4>1, ContentSame DEF Same
    <3>2. CASE ~(mentioned /\ r.handler = "telegram") /\ ~mentioned /\ setup.trigger = "prefixes"
      <4>1. to = Content(r, "plain", r.marked, r.files)
        BY <3>2 DEF Filled
      <4> HIDE DEF to
      <4> QED
        BY <4>1, ContentSame DEF Same
    <3>3. CASE ~(mentioned /\ r.handler = "telegram") /\ ~(~mentioned /\ setup.trigger = "prefixes")
      BY <3>3, SelfSame
    <3> QED
      BY <3>1, <3>2, <3>3
  <2>3. message.group => PassOrDrop(r, Responds(mentioned, text), to)
    BY <1>10 DEF Trigger
  <2>4. ~message.group => PassOrDrop(r, TRUE, r)
    BY <1>10 DEF Trigger
  <2>5. message.group /\ ~Responds(mentioned, text) => Fails(r)
    BY <2>1 DEF Fails
  <2>6. Responds(mentioned, text) \/ ~message.group => Gate(r)
    BY <2>1 DEF Gate
  <2> HIDE DEF to, mentioned, text
  <2>7. CASE message.group
    BY <2>1, <2>2, <2>3, <2>5, <2>6, <2>7, PassMoves
  <2>8. CASE ~message.group
    BY <2>1, <2>4, <2>6, <2>8, SelfSame, PassMoves
  <2> QED
    BY <2>7, <2>8
<1> QED
  BY <1>1, <1>2, <1>3, <1>4, <1>5, <1>6, <1>7, <1>8, <1>9, <1>10 DEF Look

\* What could not be published does not come back.
LEMMA LostStays == ASSUME NEW r, Step(r) PROVE lost \subseteq lost'
  BY DEF Step, HandleMessage, HandOver

LEMMA BehindNext ==
  ASSUME NEW h \in DOMAIN Stages, NEW k \in DOMAIN Stages[h]
  PROVE  Behind(h, k + 1) = Behind(h, k) \cup {Stages[h][k]}
<1>1. PICK len \in Nat : len > 0 /\ DOMAIN Stages[h] = 1..len
  BY Lengths DEF Numbered
<1>2. k \in Nat /\ k >= 1
  BY <1>1
<1>3. 1..(k + 1 - 1) = (1..(k - 1)) \cup {k}
  BY <1>2
<1> QED
  BY <1>3 DEF Behind

LEMMA TriggerSays ==
  ASSUME NEW h, NEW text \in {message.text, "plain"}, NEW marked,
         ~marked => Unmarked(h), h # "slackMention",
         Responds(Mentioned(h, message),
                  IF marked /\ ~Mentioned(h, message) THEN "plain" ELSE text)
  PROVE  Responds(Mentioned(h, message), Said(h))
<1> DEFINE mentioned == Mentioned(h, message)
<1> HIDE DEF mentioned
<1>1. CASE mentioned
  BY <1>1 DEF Responds, mentioned
<1>2. CASE ~mentioned
  <2>1. CASE marked
    <3>1. Responds(mentioned, "plain")
      BY <1>2, <2>1 DEF mentioned
    <3>2. setup.trigger # "mention_only" /\ setup.trigger # "prefixes"
      BY <1>2, <3>1 DEF Responds
    <3> QED
      BY <1>2, <3>2 DEF Responds, mentioned
  <2>2. CASE ~marked
    <3>1. Responds(mentioned, text)
      BY <1>2, <2>2 DEF mentioned
    <3>2. message.mention = "none" \/ (message.mention = "bot" /\ h = "slack")
      BY <1>2, <2>2 DEF Unmarked, mentioned
    <3>3. Said(h) = message.text
      BY <3>2 DEF Said
    <3>4. text = "prefixed" => Said(h) = "prefixed"
      BY <3>3
    <3> QED
      BY <1>2, <3>1, <3>4 DEF Responds, mentioned
  <2> QED
    BY <2>1, <2>2
<1> QED
  BY <1>1, <1>2

LEMMA Onward ==
  ASSUME InTyped, Chosen, NEW r, RunTyped(r), Checked(r), NEW t, Goes(r, t), Gate(r)
  PROVE  /\ RunTyped(t) /\ Checked(t)
         /\ \A s : Past(t, s) <=> Past(r, s) \/ s = StageOf(r)
<1> DEFINE h == r.handler
           s == StageOf(r)
<1>1. /\ h \in handlers /\ h \in DOMAIN Stages /\ r.stage \in DOMAIN Stages[h]
      /\ s = Stages[h][r.stage]
  BY DEF RunTyped, InTyped, StageOf
<1>2. Row(h, r.stage)
  BY <1>1, Table
<1>3. s # "handle"
  BY DEF Gate
<1>4. r.stage + 1 \in DOMAIN Stages[h]
  BY <1>1, <1>2, <1>3 DEF Row
<1>5. RunTyped(t)
  BY <1>4 DEF RunTyped, Goes
<1>6. Behind(t.handler, t.stage) = Behind(h, r.stage) \cup {s}
  BY <1>1, BehindNext DEF Goes
<1>7. \A x : Past(t, x) <=> Past(r, x) \/ x = s
  BY <1>6 DEF Past
<1> DEFINE a == Behind(h, r.stage)
           b == Behind(t.handler, t.stage)
<1>8. b = a \cup {s} /\ t.handler = h
  BY <1>6 DEF Goes
<1>9. s = "trigger" /\ message.group => Responds(Mentioned(h, message), Said(h))
  <2> SUFFICES ASSUME s = "trigger", message.group
               PROVE  Responds(Mentioned(h, message), Said(h))
    OBVIOUS
  <2>1. h # "slackMention" /\ "trigger" \notin a
    BY <1>1, <1>2 DEF Row, Untriggered
  <2>2. ~r.marked => Unmarked(h)
    BY <2>1 DEF Checked
  <2>3. r.text \in {message.text, "plain"}
    BY DEF RunTyped
  <2>4. Responds(Mentioned(h, message),
                 IF r.marked /\ ~Mentioned(h, message) THEN "plain" ELSE r.text)
    BY DEF Gate
  <2> QED
    BY <2>1, <2>2, <2>3, <2>4, TriggerSays
<1>10. "trigger" \notin b /\ ~t.marked => Unmarked(h)
  <2> SUFFICES ASSUME "trigger" \notin b, ~t.marked PROVE Unmarked(h)
    OBVIOUS
  <2>1. s # "trigger" /\ "trigger" \notin a
    BY <1>8
  <2>2. CASE ~r.marked
    BY <2>1, <2>2 DEF Checked
  <2>3. CASE s \in {"strip", "stripGroup"} /\ message.mention = "bot" /\ (h = "line" => setup.known)
    <3>1. h \in {"discord", "slack", "slackMention", "line"}
      BY <1>1, <1>2, <2>3 DEF Row, Echoing
    <3>2. h = "discord" => Mentioned(h, message)
      BY <2>3 DEF Mentioned
    <3>3. h = "line" => Mentioned(h, message)
      BY <2>3 DEF Mentioned, MentionedOnLine
    <3> QED
      BY <2>3, <3>1, <3>2, <3>3 DEF Unmarked
  <2> QED
    BY <2>1, <2>2, <2>3 DEF Goes
<1>11. t.files = 1 => "download" \in b
  BY <1>8 DEF Goes, Checked
<1>12. Checked(t)
  <2>1. "verify" \in b => message.genuine
    BY <1>8 DEF Checked, Gate
  <2>2. "self" \in b => ~message.own
    BY <1>8 DEF Checked, Gate
  <2>3. "allow" \in b => Allowed
    BY <1>8 DEF Checked, Gate
  <2>4. "trigger" \in b /\ message.group => Responds(Mentioned(h, message), Said(h))
    BY <1>8, <1>9 DEF Checked
  <2> QED
    BY <1>8, <1>10, <1>11, <2>1, <2>2, <2>3, <2>4 DEF Checked
<1> QED
  BY <1>5, <1>7, <1>12

-----------------------------------------------------------------------------
(* What a step of a run keeps                                              *)

\* What a step of a run leaves alone.
Setting == <<setup, message, handlers, events>>

LEMMA Still ==
  ASSUME UNCHANGED Setting, NEW q
  PROVE  /\ RunTyped(q)' <=> RunTyped(q)
         /\ Checked(q)' <=> Checked(q)
<1>1. setup' = setup /\ message' = message /\ handlers' = handlers /\ events' = events
  BY DEF Setting
<1>2. RunTyped(q)' <=> RunTyped(q)
  BY <1>1 DEF RunTyped
<1>3. Checked(q)' <=> Checked(q)
  BY <1>1 DEF Checked, Allowed, Responds, Mentioned, MentionedOnLine, MentionedOnTelegram,
              Said, Unmarked
<1> QED
  BY <1>2, <1>3

LEMMA StillHeard ==
  ASSUME UNCHANGED Setting, NEW h
  PROVE  /\ MustHear(h)' <=> MustHear(h)
         /\ Wanted(h)' <=> Wanted(h)
         /\ Allowed' <=> Allowed
<1>1. setup' = setup /\ message' = message
  BY DEF Setting
<1> QED
  BY <1>1 DEF MustHear, Wanted, Allowed, Responds, Mentioned, MentionedOnLine,
              MentionedOnTelegram, Said

\* A step takes its run away, and may put one in its place.
LEMMA Replaced ==
  ASSUME InInv, NEW r \in underWay, Step(r)
  PROVE  /\ UNCHANGED Setting
         /\ \/ underWay' = underWay \ {r}
            \/ \E t : /\ underWay' = (underWay \ {r}) \cup {t}
                     /\ t.handler = r.handler /\ t.n = r.n
                     /\ RunTyped(t) /\ Checked(t)
<1>1. UNCHANGED Setting
  BY DEF Step, Setting
<1>2. RunTyped(r) /\ Checked(r) /\ InTyped /\ Chosen
  BY DEF InInv, InTyped, AllChecked
<1>3. ASSUME NEW t, Moves(r, t)
      PROVE  /\ underWay' = (underWay \ {r}) \cup {t}
             /\ t.handler = r.handler /\ t.n = r.n
             /\ RunTyped(t) /\ Checked(t)
  <2>1. Goes(r, t) /\ Gate(r) /\ underWay' = (underWay \ {r}) \cup {t}
    BY <1>3 DEF Moves
  <2>2. RunTyped(t) /\ Checked(t)
    BY <1>2, <2>1, Onward
  <2> QED
    BY <2>1, <2>2 DEF Goes
<1>4. Drop(r) => underWay' = underWay \ {r}
  BY DEF Drop
<1>5. HandleMessage(r) => underWay' = underWay \ {r}
  BY DEF HandleMessage
<1> QED
  BY <1>1, <1>3, <1>4, <1>5, Outcome

LEMMA StepRuns ==
  ASSUME InInv, NEW r \in underWay, Step(r)
  PROVE  /\ IsFiniteSet(underWay)' /\ (\A q \in underWay : RunTyped(q))'
         /\ OneRun' /\ AllChecked'
<1>1. UNCHANGED Setting
  BY Replaced
<1>2. /\ IsFiniteSet(underWay) /\ \A q \in underWay : RunTyped(q) /\ Checked(q)
      /\ OneRun
  BY DEF InInv, InTyped, AllChecked
<1>3. IsFiniteSet(underWay \ {r})
  BY <1>2, FS_Difference
<1>4. CASE underWay' = underWay \ {r}
  <2>1. IsFiniteSet(underWay')
    BY <1>3, <1>4
  <2>2. \A q \in underWay' : RunTyped(q)' /\ Checked(q)'
    BY <1>1, <1>2, <1>4, Still
  <2>3. OneRun'
    BY <1>2, <1>4 DEF OneRun
  <2> QED
    BY <2>1, <2>2, <2>3 DEF AllChecked
<1>5. ASSUME NEW t, underWay' = (underWay \ {r}) \cup {t},
             t.handler = r.handler, t.n = r.n, RunTyped(t), Checked(t)
      PROVE  /\ IsFiniteSet(underWay)' /\ (\A q \in underWay : RunTyped(q))'
             /\ OneRun' /\ AllChecked'
  <2>1. IsFiniteSet(underWay')
    BY <1>3, <1>5, FS_AddElement
  <2>2. \A q \in underWay' : RunTyped(q)' /\ Checked(q)'
    BY <1>1, <1>2, <1>5, Still
  <2>3. OneRun'
    BY <1>2, <1>5 DEF OneRun
  <2> QED
    BY <2>1, <2>2, <2>3 DEF AllChecked
<1> QED
  BY <1>4, <1>5, Replaced

LEMMA StepTyped ==
  ASSUME InInv, NEW r \in underWay, Step(r)
  PROVE  InTyped' /\ Chosen'
<1>1. UNCHANGED Setting
  BY Replaced
<1>2. /\ setup' = setup /\ message' = message /\ handlers' = handlers /\ events' = events
      /\ forgotten' = forgotten
  BY <1>1 DEF Setting, Step
<1>3. InTyped /\ Chosen /\ RunTyped(r)
  BY DEF InInv, InTyped
<1>4. published' \in [handlers -> Nat] /\ downloads' \in Int
  <2>1. ASSUME NEW t, Moves(r, t) PROVE published' \in [handlers -> Nat] /\ downloads' \in Int
    <3>1. Goes(r, t) /\ published' = published
          /\ downloads' = IF StageOf(r) = "download" THEN downloads + t.files ELSE downloads
      BY <2>1 DEF Moves
    <3>2. t.files \in {0, 1}
      BY <1>3, <3>1 DEF Goes, RunTyped
    <3> QED
      BY <1>3, <3>1, <3>2 DEF InTyped
  <2>2. CASE Drop(r)
    BY <1>3, <2>2 DEF Drop, InTyped
  <2>3. CASE HandleMessage(r)
    <3>1. r.files \in {0, 1} /\ r.handler \in handlers
      BY <1>3 DEF RunTyped
    <3>2. published \in [handlers -> Nat] /\ downloads \in Int
      BY <1>3 DEF InTyped
    <3>3. CASE Allowed
      BY <2>3, <3>1, <3>2, <3>3 DEF HandleMessage, HandOver
    <3>4. CASE ~Allowed
      BY <2>3, <3>2, <3>4 DEF HandleMessage
    <3> QED
      BY <3>3, <3>4
  <2> QED
    BY <2>1, <2>2, <2>3, Outcome
<1>5. InTyped'
  BY <1>2, <1>3, <1>4, StepRuns DEF InTyped
<1>6. Chosen'
  <2>1. handlers # {}
    BY <1>3 DEF RunTyped
  <2> QED
    BY <1>2, <1>3, <2>1 DEF Chosen, Possible
<1> QED
  BY <1>5, <1>6

LEMMA StepWanted ==
  ASSUME InInv, NEW r \in underWay, Step(r)
  PROVE  OnlyWanted'
<1>1. UNCHANGED Setting /\ handlers' = handlers /\ message' = message
  BY Replaced DEF Setting
<1>2. InTyped /\ Chosen /\ RunTyped(r) /\ Checked(r) /\ OnlyWanted
  BY DEF InInv, InTyped, AllChecked
<1>3. published' = published => OnlyWanted'
  BY <1>1, <1>2, StillHeard DEF OnlyWanted
<1>4. ASSUME HandleMessage(r), published' # published PROVE OnlyWanted'
  <2> DEFINE h == r.handler
  <2>1. /\ h \in handlers /\ h \in DOMAIN Stages /\ r.stage \in DOMAIN Stages[h]
        /\ Stages[h][r.stage] = "handle"
    BY <1>2, <1>4 DEF RunTyped, InTyped, StageOf, HandleMessage
  <2>2. Row(h, r.stage)
    BY <2>1, Table
  <2>3. Allowed /\ published' = [published EXCEPT ![h] = @ + 1]
    BY <1>4 DEF HandleMessage, HandOver
  <2>4. \A g \in handlers : g # h => published'[g] = published[g]
    BY <1>2, <2>3 DEF InTyped
  <2>5. Possible(h, message)
    BY <1>2, <2>1 DEF Chosen
  <2>6. message.genuine
    BY <1>2, <2>1, <2>2, <2>5 DEF Checked, Row, Possible, Forgeable
  <2>7. message.own => h \in Mirroring
    BY <1>2, <2>1, <2>2, <2>5 DEF Checked, Row, Possible, Echoing, Asking
  <2>8. Wanted(h)
    <3> SUFFICES ASSUME message.group, h \notin {"slackMention", "whatsapp", "whatsappNative"}
                 PROVE  Responds(Mentioned(h, message), Said(h))
      BY DEF Wanted
    <3>1. h \notin Ungrouped
      BY <2>5 DEF Possible, Ungrouped
    <3>2. "trigger" \in Behind(h, r.stage)
      BY <2>1, <2>2, <3>1 DEF Row, Untriggered
    <3> QED
      BY <1>2, <3>2 DEF Checked
  <2> HIDE DEF h
  <2> QED
    BY <1>1, <1>2, <2>3, <2>4, <2>6, <2>7, <2>8, StillHeard DEF OnlyWanted
<1>5. HandleMessage(r) => OnlyWanted'
  BY <1>3, <1>4
<1>6. (\E t : Moves(r, t)) => published' = published
  BY DEF Moves
<1>7. Drop(r) => published' = published
  BY DEF Drop
<1> QED
  BY <1>3, <1>5, <1>6, <1>7, Outcome

LEMMA StageRow ==
  ASSUME InInv, NEW r \in underWay
  PROVE  /\ RunTyped(r) /\ Checked(r) /\ r.handler \in handlers
         /\ r.handler \in DOMAIN Stages /\ r.stage \in DOMAIN Stages[r.handler]
         /\ StageOf(r) = Stages[r.handler][r.stage] /\ Row(r.handler, r.stage)
<1>1. RunTyped(r) /\ Checked(r) /\ InTyped
  BY DEF InInv, InTyped, AllChecked
<1>2. /\ r.handler \in handlers /\ r.handler \in DOMAIN Stages
      /\ r.stage \in DOMAIN Stages[r.handler]
  BY <1>1 DEF RunTyped, InTyped
<1> QED
  BY <1>1, <1>2, Table DEF StageOf

LEMMA StepStrangers ==
  ASSUME InInv, NEW r \in underWay, Step(r)
  PROVE  NothingForStrangers'
<1>1. UNCHANGED Setting /\ handlers' = handlers
  BY Replaced DEF Setting
<1> SUFFICES ASSUME NEW h \in handlers, h \in {"telegram", "discord", "slack"}, ~Allowed
             PROVE  downloads' = 0 /\ ~acks'
  BY <1>1, StillHeard DEF NothingForStrangers
<1>2. downloads = 0 /\ ~acks
  BY DEF InInv, NothingForStrangers
<1>3. r.handler \in ListFirst
  BY StageRow DEF InInv, Chosen, ListFirst
<1>4. StageOf(r) \notin {"download", "ack"}
  BY <1>3, StageRow DEF Row, Checked
<1>5. ASSUME NEW t, Moves(r, t) PROVE downloads' = 0 /\ ~acks'
  BY <1>2, <1>4, <1>5 DEF Moves
<1>6. CASE Drop(r)
  BY <1>2, <1>6 DEF Drop
<1>7. CASE HandleMessage(r)
  BY <1>2, <1>7, StillHeard DEF HandleMessage
<1> QED
  BY <1>5, <1>6, <1>7, Outcome

\* What a run that stops short has not downloaded, or not where it matters.
LEMMA StepHandsOn ==
  ASSUME InInv, NEW r \in underWay, Step(r)
  PROVE  HandedOn'
<1>1. handlers' = handlers
  BY Replaced DEF Setting
<1> SUFFICES ASSUME \A h \in handlers : h \notin {"telegram", "line"}, lost' = {}
             PROVE  downloads' = Cardinality(Holding')
  BY <1>1 DEF HandedOn
<1>11. lost = {}
  BY LostStays
<1> DEFINE h == r.handler
           s == StageOf(r)
<1>2. /\ RunTyped(r) /\ Checked(r) /\ h \in handlers /\ s = Stages[h][r.stage]
      /\ Row(h, r.stage) /\ h \notin {"telegram", "line"}
  BY StageRow
<1>3. downloads = Cardinality(Holding) /\ IsFiniteSet(underWay) /\ r.files \in {0, 1}
  BY <1>2, <1>11 DEF InInv, HandedOn, InTyped, RunTyped
<1>4. IsFiniteSet(Holding) /\ Cardinality(Holding) \in Nat
  <2>1. Holding \subseteq underWay
    BY DEF Holding
  <2> QED
    BY <1>3, <2>1, FS_Subset, FS_CardinalityType
<1>5. \A q \in underWay : q.handler = h /\ q.n = r.n => q = r
  BY DEF InInv, OneRun
<1>6. r.files = 1 => Cardinality(Holding \ {r}) = Cardinality(Holding) - 1
  BY <1>4, FS_RemoveElement DEF Holding
<1>7. r.files = 0 => Holding \ {r} = Holding
  BY DEF Holding
<1>8. ASSUME NEW t, Moves(r, t) PROVE downloads' = Cardinality(Holding')
  <2>1. Goes(r, t) /\ underWay' = (underWay \ {r}) \cup {t}
        /\ downloads' = IF s = "download" THEN downloads + t.files ELSE downloads
    BY <1>8 DEF Moves
  <2>2. t.files \in {0, 1} /\ t.handler = h /\ t.n = r.n
    BY <1>3, <2>1 DEF Goes
  <2>3. t \notin Holding \ {r}
    BY <1>5, <2>2 DEF Holding
  <2>4. Holding' = (Holding \ {r}) \cup (IF t.files = 1 THEN {t} ELSE {})
    BY <2>1 DEF Holding
  <2>5. IsFiniteSet(Holding \ {r})
    BY <1>4, FS_Difference
  <2>6. t.files = 1 => Cardinality(Holding') = Cardinality(Holding \ {r}) + 1
    BY <2>3, <2>4, <2>5, FS_AddElement
  <2>7. t.files = 0 => Cardinality(Holding') = Cardinality(Holding \ {r})
    BY <2>4
  <2>8. CASE s = "download"
    <3>1. r.files = 0
      BY <1>2, <1>3, <2>8 DEF Row, Checked
    <3> QED
      BY <1>3, <1>4, <1>7, <2>1, <2>2, <2>6, <2>7, <2>8, <3>1
  <2>9. CASE s # "download"
    <3>1. t.files = r.files
      BY <2>1, <2>9 DEF Goes
    <3>2. downloads' = downloads
      BY <2>1, <2>9
    <3>3. Cardinality(Holding') = Cardinality(Holding)
      <4>1. CASE r.files = 0
        BY <1>7, <2>7, <3>1, <4>1
      <4>2. CASE r.files = 1
        <5>1. Cardinality(Holding') = Cardinality(Holding) - 1 + 1
          BY <1>6, <2>6, <3>1, <4>2
        <5> QED
          BY <1>4, <5>1
      <4> QED
        BY <1>3, <4>1, <4>2
    <3> QED
      BY <1>3, <3>2, <3>3
  <2> QED
    BY <2>8, <2>9
<1>9. CASE Drop(r) /\ Fails(r)
  <2>1. r.files = 0
    BY <1>2, <1>3, <1>9 DEF Fails, Row, Checked
  <2>2. Holding' = Holding
    BY <1>9, <2>1 DEF Holding, Drop
  <2> QED
    BY <1>3, <1>9, <2>2 DEF Drop
<1>10. CASE HandleMessage(r)
  <2>1. r.files = 1 => Allowed
    BY <1>2, <1>10 DEF HandleMessage, Row, Checked, Downloading, ListFirst
  <2>2. Holding' = Holding \ {r}
    BY <1>10 DEF Holding, HandleMessage
  <2>3. downloads' = downloads - r.files
    <3>1. CASE Allowed
      BY <1>10, <3>1 DEF HandleMessage, HandOver
    <3>2. CASE ~Allowed
      BY <1>3, <1>4, <1>10, <2>1, <3>2 DEF HandleMessage
    <3> QED
      BY <3>1, <3>2
  <2> QED
    BY <1>3, <1>4, <1>6, <1>7, <2>2, <2>3
<1> QED
  BY <1>8, <1>9, <1>10, Outcome

LEMMA PassedFinite == ASSUME InInv PROVE IsFiniteSet(Passed) /\ Cardinality(Passed) \in Nat
<1>1. Passed \subseteq underWay /\ IsFiniteSet(underWay)
  BY DEF InInv, InTyped, Passed
<1> QED
  BY <1>1, FS_Subset, FS_CardinalityType

LEMMA StepDeduplicated ==
  ASSUME InInv, NEW r \in underWay, Step(r)
  PROVE  Deduplicated'
<1>1. handlers' = handlers /\ events' = events /\ forgotten' = forgotten
  BY Replaced DEF Setting, Step
<1> DEFINE old == Cardinality(Passed)
           new == Cardinality(Passed')
<1> SUFFICES ASSUME NEW h \in handlers \cap Onces
             PROVE  /\ published'[h] + new <= forgotten + (IF seen' THEN 1 ELSE 0)
                    /\ seen' => events[h] > 0
  BY <1>1 DEF Deduplicated
<1>2. /\ published[h] + old <= forgotten + (IF seen THEN 1 ELSE 0)
      /\ published \in [handlers -> Nat] /\ events \in [handlers -> Nat] /\ forgotten \in Nat
      /\ seen => events[h] > 0
  BY DEF InInv, Deduplicated, InTyped
<1>3. /\ RunTyped(r) /\ Checked(r) /\ r.handler \in handlers
      /\ StageOf(r) = Stages[r.handler][r.stage] /\ Row(r.handler, r.stage)
  BY StageRow
<1>4. r.handler = h /\ events[h] > 0
  <2>1. r.handler = h
    BY <1>3 DEF InInv, Chosen, Onces
  <2> QED
    BY <1>2, <1>3, <2>1 DEF RunTyped
<1>5. /\ IsFiniteSet(Passed \ {r}) /\ IsFiniteSet(Passed) /\ old \in Nat
      /\ Cardinality(Passed \ {r}) = IF Past(r, "once") THEN old - 1 ELSE old
  <2>1. IsFiniteSet(Passed) /\ old \in Nat
    BY PassedFinite
  <2>2. r \in Passed <=> Past(r, "once")
    BY DEF Passed
  <2>3. r \in Passed => Cardinality(Passed \ {r}) = old - 1
    BY <2>1, FS_RemoveElement
  <2>4. r \notin Passed => Passed \ {r} = Passed
    OBVIOUS
  <2> QED
    BY <2>1, <2>2, <2>3, <2>4, FS_Difference
<1>6. ASSUME NEW t, Moves(r, t)
      PROVE  /\ published'[h] + new <= forgotten + (IF seen' THEN 1 ELSE 0)
             /\ seen' => events[h] > 0
  <2>1. /\ Goes(r, t) /\ Gate(r) /\ underWay' = (underWay \ {r}) \cup {t}
        /\ seen' <=> seen \/ StageOf(r) = "once"
        /\ published' = published
    BY <1>6 DEF Moves
  <2>2. Past(t, "once") <=> Past(r, "once") \/ StageOf(r) = "once"
    BY <1>3, <2>1, Onward DEF InInv
  <2>3. StageOf(r) = "once" => ~seen /\ ~Past(r, "once")
    BY <1>3, <2>1 DEF Gate, Row, Past
  <2>4. Passed' = (Passed \ {r}) \cup (IF Past(t, "once") THEN {t} ELSE {})
    BY <2>1 DEF Passed, Past
  <2>5. new <= Cardinality(Passed \ {r}) + (IF Past(t, "once") THEN 1 ELSE 0)
    <3>1. Cardinality(Passed \ {r}) \in Nat
      BY <1>5, FS_CardinalityType
    <3>2. CASE Past(t, "once")
      <4>1. Passed' = (Passed \ {r}) \cup {t}
        BY <2>4, <3>2
      <4>2. new = Cardinality(Passed \ {r}) \/ new = Cardinality(Passed \ {r}) + 1
        BY <1>5, <4>1, FS_AddElement
      <4> QED
        BY <3>1, <3>2, <4>2
    <3>3. CASE ~Past(t, "once")
      <4>1. Passed' = Passed \ {r}
        BY <2>4, <3>3
      <4>2. new = Cardinality(Passed \ {r})
        BY <4>1
      <4> QED
        BY <3>1, <3>3, <4>2
    <3> QED
      BY <3>2, <3>3
  <2>6. new \in Nat
    BY StepRuns, FS_Subset, FS_CardinalityType DEF Passed
  <2>7. published[h] \in Nat
    BY <1>2
  <2> HIDE DEF old, new
  <2>8. CASE StageOf(r) = "once"
    <3>1. new <= old + 1 /\ ~seen /\ seen'
      BY <1>5, <2>1, <2>2, <2>3, <2>5, <2>8
    <3> QED
      BY <1>2, <1>4, <1>5, <2>1, <2>6, <2>7, <3>1
  <2>9. CASE StageOf(r) # "once"
    <3>1. new <= old /\ (seen' <=> seen)
      BY <1>5, <2>1, <2>2, <2>5, <2>9
    <3> QED
      BY <1>2, <1>4, <1>5, <2>1, <2>6, <2>7, <3>1
  <2> QED
    BY <2>8, <2>9
<1>7. CASE Drop(r)
  <2>1. Passed' = Passed \ {r} /\ seen' = seen /\ published' = published
    BY <1>7 DEF Drop, Passed, Past
  <2>2. new = Cardinality(Passed \ {r})
    BY <2>1
  <2>3. published[h] \in Nat
    BY <1>2
  <2> HIDE DEF old, new
  <2> QED
    BY <1>2, <1>5, <2>1, <2>2, <2>3
<1>8. CASE HandleMessage(r)
  <2>1. Past(r, "once")
    BY <1>3, <1>4, <1>8 DEF HandleMessage, Row, Past
  <2>2. Passed' = Passed \ {r} /\ seen' = seen
    BY <1>8 DEF HandleMessage, Passed, Past
  <2>3. new = old - 1
    BY <1>5, <2>1, <2>2
  <2>4. published[h] \in Nat /\ published'[h] \in {published[h], published[h] + 1}
    BY <1>2, <1>4, <1>8 DEF HandleMessage, HandOver
  <2> HIDE DEF old, new
  <2> QED
    BY <1>2, <1>5, <2>2, <2>3, <2>4
<1> QED
  BY <1>6, <1>7, <1>8, Outcome

LEMMA StepHears ==
  ASSUME InInv, NEW r \in underWay, Step(r)
  PROVE  Hearing'
<1>1. UNCHANGED Setting /\ handlers' = handlers /\ events' = events
  BY Replaced DEF Setting
<1> SUFFICES ASSUME NEW h \in handlers, MustHear(h), events[h] > 0
             PROVE  \/ published'[h] > 0
                    \/ h \in lost'
                    \/ \E q \in underWay' :
                         q.handler = h /\ (h \in Onces /\ seen' => Past(q, "once"))
  BY <1>1, StillHeard DEF Hearing, Past
<1>2. /\ published \in [handlers -> Nat] /\ lost \subseteq lost'
      /\ \/ published[h] > 0
         \/ h \in lost
         \/ \E q \in underWay : q.handler = h /\ (h \in Onces /\ seen => Past(q, "once"))
  BY LostStays DEF InInv, Hearing, InTyped
<1>3. /\ RunTyped(r) /\ Checked(r) /\ r.handler \in handlers
      /\ StageOf(r) = Stages[r.handler][r.stage] /\ Row(r.handler, r.stage)
  BY StageRow
<1>4. h \in Onces => r.handler = h
  BY <1>3 DEF InInv, Chosen, Onces
<1>5. ASSUME NEW t, Moves(r, t)
      PROVE  \/ published'[h] > 0
             \/ h \in lost'
             \/ \E q \in underWay' :
                  q.handler = h /\ (h \in Onces /\ seen' => Past(q, "once"))
  <2>1. /\ Goes(r, t) /\ Gate(r) /\ underWay' = (underWay \ {r}) \cup {t}
        /\ seen' <=> seen \/ StageOf(r) = "once"
        /\ published' = published
    BY <1>5 DEF Moves
  <2>2. Past(t, "once") <=> Past(r, "once") \/ StageOf(r) = "once"
    BY <1>3, <2>1, Onward DEF InInv
  <2>3. t.handler = r.handler
    BY <2>1 DEF Goes
  <2>4. CASE StageOf(r) = "once"
    <3>1. r.handler \in Onces
      BY <1>3, <2>4 DEF Row
    <3>2. h = r.handler
      BY <1>3, <3>1 DEF InInv, Chosen, Onces
    <3> QED
      BY <2>1, <2>2, <2>3, <2>4, <3>2
  <2>5. CASE StageOf(r) # "once"
    BY <1>2, <2>1, <2>2, <2>3, <2>5
  <2> QED
    BY <2>4, <2>5
<1>6. CASE Drop(r) /\ Fails(r)
  <2>1. underWay' = underWay \ {r} /\ seen' = seen /\ published' = published
    BY <1>6 DEF Drop
  <2>2. CASE r.handler # h
    BY <1>2, <2>1, <2>2
  <2>3. CASE r.handler = h
    <3>1. r.text # "empty"
      BY <1>3 DEF RunTyped, MustHear
    <3>2. StageOf(r) = "once" /\ seen
      BY <1>3, <1>6, <2>3, <3>1 DEF Fails, MustHear, Responds
    <3>3. ~Past(r, "once") /\ h \in Onces
      BY <1>3, <2>3, <3>2 DEF Row, Past
    <3> QED
      BY <1>2, <2>1, <3>2, <3>3
  <2> QED
    BY <2>2, <2>3
<1>7. CASE HandleMessage(r)
  <2>1. underWay' = underWay \ {r} /\ seen' = seen
    BY <1>7 DEF HandleMessage
  <2>2. \/ published' = [published EXCEPT ![r.handler] = @ + 1]
        \/ lost' = lost \cup {r.handler} /\ published' = published
    BY <1>7 DEF HandleMessage, HandOver, MustHear
  <2>3. CASE r.handler = h
    BY <1>2, <2>2, <2>3
  <2>4. CASE r.handler # h
    <3>1. published'[h] = published[h]
      BY <1>2, <2>2, <2>4
    <3> QED
      BY <1>2, <2>1, <2>4, <3>1
  <2> QED
    BY <2>3, <2>4
<1> QED
  BY <1>5, <1>6, <1>7, Outcome

-----------------------------------------------------------------------------
(* The other steps                                                         *)

LEMMA InInitInv == InInit => InInv
<1> SUFFICES ASSUME InInit PROVE InInv
  OBVIOUS
<1>1. /\ handlers = {} /\ underWay = {} /\ events = <<>> /\ published = <<>>
      /\ ~seen /\ downloads = 0 /\ ~acks /\ setup.trigger = "none" /\ forgotten = 0
  BY DEF InInit
<1>2. IsFiniteSet(underWay) /\ Holding = {}
  BY <1>1, FS_EmptySet DEF Holding
<1>3. Cardinality(Holding) = 0
  BY <1>2, FS_EmptySet
<1>4. events \in [handlers -> Nat] /\ published \in [handlers -> Nat]
  BY <1>1
<1>5. InTyped
  BY <1>1, <1>2, <1>4 DEF InTyped
<1> QED
  BY <1>1, <1>3, <1>5 DEF InInv, Chosen, OneRun, AllChecked, OnlyWanted, NothingForStrangers,
     HandedOn, Deduplicated, Hearing

LEMMA SlackToo ==
  ASSUME NEW m, Possible("slack", m), m.group, m.mention = "bot"
  PROVE  Possible("slackMention", m)
  BY DEF Possible, Asking

LEMMA ArriveInv ==
  ASSUME InInv, handlers = {}, NEW h \in InboundAdapters, NEW m \in PlatformMessages,
         Arrive(h, m)
  PROVE  InInv'
<1>1. underWay = {} /\ ~seen /\ downloads = 0 /\ ~acks /\ forgotten \in Nat
  BY DEF InInv, InTyped, RunTyped, Chosen
<1>2. /\ UNCHANGED <<underWay, seen, downloads, acks, forgotten>>
      /\ handlers' = HandlersFor(h, m) /\ message' = m /\ Possible(h, m)
      /\ setup'.trigger \in {"none", "mention_only", "prefixes"}
      /\ events' = [x \in handlers' |-> 0] /\ published' = [x \in handlers' |-> 0]
  BY DEF Arrive
<1>3. underWay' = {} /\ Holding' = {} /\ Passed' = {} /\ IsFiniteSet(underWay')
  BY <1>1, <1>2, FS_EmptySet DEF Holding, Passed
<1>4. Cardinality(Holding') = 0 /\ Cardinality(Passed') = 0
  BY <1>3, FS_EmptySet
<1>5. handlers' = {h} \/ (h = "slack" /\ handlers' = {"slack", "slackMention"}
                            /\ m.group /\ m.mention = "bot")
  BY <1>2 DEF HandlersFor
<1>6. handlers' \subseteq DOMAIN Stages
  BY <1>5, Handlers, InboundAssumption DEF InboundAssumption
<1>7. InTyped'
  BY <1>1, <1>2, <1>3, <1>6 DEF InTyped
<1>8. Chosen'
  <2>1. \A g \in handlers' : Possible(g, m)
    BY <1>2, <1>5, SlackToo
  <2> QED
    BY <1>2, <1>5, <2>1 DEF Chosen
<1>9. \A g \in handlers' : events'[g] = 0 /\ published'[g] = 0
  BY <1>2
<1> QED
  BY <1>1, <1>2, <1>3, <1>4, <1>7, <1>8, <1>9 DEF InInv, OneRun, AllChecked, OnlyWanted,
     NothingForStrangers, HandedOn, Deduplicated, Hearing

LEMMA FirstBehind == \A h : Behind(h, 1) = {}
  BY DEF Behind

LEMMA DeliverInv ==
  ASSUME InInv, NEW h \in handlers, Deliver(h)
  PROVE  InInv'
<1> SUFFICES ASSUME NEW n, n = events[h] + 1, NEW t,
                    t = Run(h, n, 1, message.text, message.mention # "none", 0)
             PROVE  InInv'
  OBVIOUS
<1>1. /\ UNCHANGED <<setup, message, handlers, seen, downloads, acks, published, lost,
                      forgotten>>
      /\ events' = [events EXCEPT ![h] = n]
      /\ events \in [handlers -> Nat] /\ handlers \subseteq DOMAIN Stages
      /\ IsFiniteSet(underWay)
  BY DEF Deliver, InInv, InTyped
<1>2. events' \in [handlers -> Nat] /\ events'[h] = n /\ n \in Nat
      /\ \A g \in handlers : events'[g] >= events[g]
  BY <1>1
<1>3. underWay' = underWay \cup {t}
  BY <1>1, <1>2 DEF Deliver
<1>4. /\ t.handler = h /\ t.n = n /\ t.stage = 1 /\ t.text = message.text
      /\ t.marked = (message.mention # "none") /\ t.files = 0
  BY RunIs
<1>5. 1 \in DOMAIN Stages[h]
  BY <1>1, Lengths DEF Numbered
<1>6. RunTyped(t)'
  BY <1>1, <1>2, <1>4, <1>5 DEF RunTyped
<1>7. \A s : ~Past(t, s)
  BY <1>4, FirstBehind DEF Past
<1>8. Checked(t)
  <2>1. ~t.marked => Unmarked(t.handler)
    BY <1>4 DEF Unmarked
  <2>2. Behind(t.handler, t.stage) = {} /\ t.files # 1
    BY <1>4, FirstBehind
  <2> QED
    BY <2>1, <2>2 DEF Checked
<1>9. \A q \in underWay : RunTyped(q) /\ Checked(q)
  BY DEF InInv, InTyped, AllChecked
<1>10. \A q \in underWay : RunTyped(q)'
  <2> SUFFICES ASSUME NEW q \in underWay PROVE RunTyped(q)'
    OBVIOUS
  <2>1. q.n \in Nat /\ q.handler \in handlers /\ q.n <= events[q.handler]
    BY <1>9 DEF RunTyped
  <2>2. q.n <= events'[q.handler]
    BY <1>1, <1>2, <2>1
  <2> QED
    BY <1>1, <1>9, <2>2 DEF RunTyped
<1>11. \A q : Checked(q)' <=> Checked(q)
  BY <1>1 DEF Checked, Allowed, Responds, Mentioned, MentionedOnLine, MentionedOnTelegram,
              Said, Unmarked
<1>12. IsFiniteSet(underWay')
  BY <1>1, <1>3, FS_AddElement
<1>13. InTyped'
  BY <1>1, <1>2, <1>3, <1>6, <1>10, <1>12 DEF InTyped, InInv
<1>14. Chosen'
  BY <1>1 DEF Chosen, Possible, InInv
<1>15. OneRun'
  <2>1. \A q \in underWay : q.handler = h => q.n < n /\ q.n \in Nat
    BY <1>1, <1>9 DEF RunTyped
  <2> QED
    BY <1>2, <1>3, <1>4, <2>1 DEF OneRun, InInv
<1>16. AllChecked'
  BY <1>3, <1>8, <1>9, <1>11 DEF AllChecked
<1>17. /\ \A g : MustHear(g)' <=> MustHear(g)
       /\ \A g : Wanted(g)' <=> Wanted(g)
       /\ Allowed' <=> Allowed
  BY <1>1 DEF MustHear, Wanted, Allowed, Responds, Mentioned, MentionedOnLine,
              MentionedOnTelegram, Said
<1>18. OnlyWanted' /\ NothingForStrangers'
  BY <1>1, <1>17 DEF OnlyWanted, NothingForStrangers, InInv
<1>19. HandedOn'
  <2>1. Holding' = Holding
    BY <1>3, <1>4 DEF Holding
  <2> QED
    BY <1>1, <2>1 DEF HandedOn, InInv
<1>20. Deduplicated'
  <2>1. Passed' = Passed
    BY <1>3, <1>7 DEF Passed, Past
  <2> QED
    BY <1>1, <1>2, <2>1 DEF Deduplicated, InInv
<1>21. Hearing'
  <2> SUFFICES ASSUME NEW g \in handlers, MustHear(g), events'[g] > 0
               PROVE  \/ published[g] > 0
                      \/ g \in lost
                      \/ \E q \in underWay' :
                           q.handler = g /\ (g \in Onces /\ seen => Past(q, "once"))
    BY <1>1, <1>17 DEF Hearing, Past
  <2>1. CASE events[g] > 0
    BY <1>3, <2>1 DEF InInv, Hearing
  <2>2. CASE ~(events[g] > 0)
    <3>1. g = h
      BY <1>1, <2>2
    <3>2. ~(g \in Onces /\ seen)
      BY <2>2 DEF InInv, Deduplicated
    <3> QED
      BY <1>3, <1>4, <3>1, <3>2
  <2> QED
    BY <2>1, <2>2
<1> QED
  BY <1>13, <1>14, <1>15, <1>16, <1>18, <1>19, <1>20, <1>21 DEF InInv

LEMMA StutterInv == ASSUME InInv, UNCHANGED inVars PROVE InInv'
  BY DEF inVars, InInv, InTyped, RunTyped, Chosen, Possible, OneRun, AllChecked, Checked,
     Allowed, Responds, Mentioned, MentionedOnLine, MentionedOnTelegram, Said, Unmarked,
     OnlyWanted, Wanted, NothingForStrangers, HandedOn, Holding, Deduplicated, Passed, Past,
     Hearing, MustHear

\* No part of the invariant is about the shutdown itself.
LEMMA ShutdownInv == ASSUME InInv, Shutdown PROVE InInv'
  BY DEF Shutdown, InInv, InTyped, RunTyped, Chosen, Possible, OneRun, AllChecked, Checked,
     Allowed, Responds, Mentioned, MentionedOnLine, MentionedOnTelegram, Said, Unmarked,
     OnlyWanted, Wanted, NothingForStrangers, HandedOn, Holding, Deduplicated, Passed, Past,
     Hearing, MustHear

\* What the deduplicator forgets may come past it once more.
LEMMA ForgetInv == ASSUME InInv, Forget PROVE InInv'
<1>1. /\ UNCHANGED <<setup, message, handlers, events, underWay, downloads, acks, published,
                      lost>>
      /\ seen /\ ~seen' /\ forgotten' = forgotten + 1
  BY DEF Forget
<1>2. \A q : (RunTyped(q)' <=> RunTyped(q)) /\ (Checked(q)' <=> Checked(q))
  BY <1>1, Still DEF Setting
<1>3. InTyped' /\ AllChecked' /\ OneRun'
  BY <1>1, <1>2 DEF InInv, InTyped, AllChecked, OneRun
<1>4. Chosen'
  BY <1>1 DEF InInv, Chosen, Possible
<1>5. \A h : /\ MustHear(h)' <=> MustHear(h)
             /\ Wanted(h)' <=> Wanted(h)
             /\ Allowed' <=> Allowed
  BY <1>1, StillHeard DEF Setting
<1>6. OnlyWanted' /\ NothingForStrangers' /\ Hearing'
  BY <1>1, <1>5 DEF InInv, OnlyWanted, NothingForStrangers, Hearing, Past
<1>7. HandedOn'
  BY <1>1 DEF InInv, HandedOn, Holding
<1>8. Deduplicated'
  <2>1. Passed' = Passed /\ Cardinality(Passed) \in Nat
    BY <1>1, PassedFinite DEF Passed, Past
  <2> SUFFICES ASSUME NEW h \in handlers \cap Onces
               PROVE  published[h] + Cardinality(Passed) <= forgotten + 1
    BY <1>1, <2>1 DEF Deduplicated, InInv, InTyped
  <2> QED
    BY <1>1 DEF Deduplicated, InInv
<1> QED
  BY <1>3, <1>4, <1>6, <1>7, <1>8 DEF InInv

LEMMA InStepInv == ASSUME InInv, [InNext]_inVars PROVE InInv'
<1>1. CASE handlers = {} /\ \E h \in InboundAdapters : \E m \in PlatformMessages : Arrive(h, m)
  BY <1>1, ArriveInv
<1>2. CASE \E h \in handlers : Deliver(h)
  BY <1>2, DeliverInv
<1>3. ASSUME NEW r \in underWay, Step(r) PROVE InInv'
  BY <1>3, StepRuns, StepTyped, StepWanted, StepStrangers, StepHandsOn, StepDeduplicated,
     StepHears DEF InInv
<1>4. CASE UNCHANGED inVars
  BY <1>4, StutterInv
<1>5. CASE Forget \/ Shutdown
  BY <1>5, ForgetInv, ShutdownInv
<1> QED
  BY <1>1, <1>2, <1>3, <1>4, <1>5 DEF InNext

LEMMA InInvSound == InInv => InboundSound
<1> SUFFICES ASSUME InInv PROVE InboundSound
  OBVIOUS
<1>1. NoneLeftBehind
  <2> SUFFICES ASSUME \A h \in handlers : h \notin {"telegram", "line"}, underWay = {},
                      lost = {}
               PROVE  downloads = 0
    BY DEF NoneLeftBehind
  <2>1. Holding = {}
    BY DEF Holding
  <2> QED
    BY <2>1, FS_EmptySet DEF InInv, HandedOn
<1>2. PublishedOnce
  <2> SUFFICES ASSUME NEW h \in handlers, NEW n \in DOMAIN Stages[h], Stages[h][n] = "once"
               PROVE  published[h] <= 1 + forgotten
    BY DEF PublishedOnce
  <2>1. h \in Onces
    BY Table DEF InInv, InTyped, Row
  <2>2. published[h] + Cardinality(Passed) <= forgotten + (IF seen THEN 1 ELSE 0)
    BY <2>1 DEF InInv, Deduplicated
  <2>3. published[h] \in Nat /\ forgotten \in Nat /\ Cardinality(Passed) \in Nat
    BY PassedFinite DEF InInv, InTyped
  <2> QED
    BY <2>2, <2>3
<1>3. Heard
  BY DEF InInv, Hearing, Heard, MustHear
<1> QED
  BY <1>1, <1>2, <1>3 DEF InInv, InboundSound

\* For any handlers, however often a message is delivered and whenever the program shuts
\* down: nothing forged, of somebody not listed or not meant for the bot is published, nor
\* what the bot said itself (but on WhatsApp's native client); nothing is fetched or kept
\* for somebody not listed where the list comes first; what is fetched is handed on, unless
\* the publish failed; a deduplicated message is published once, and once more for each time
\* the deduplicator forgot it; and whoever has to be heard is, or met the shutdown.
THEOREM InboundSoundHolds == InSpec => []InboundSound
<1>1. InInv /\ [InNext]_inVars => InInv'
  BY InStepInv
<1> QED
  BY InInitInv, <1>1, InInvSound, PTL DEF InSpec

-----------------------------------------------------------------------------
(* A message on its way to a platform                                      *)

\* The adapters that go through the parts of a media message, and the others.
Sequential == {"telegram", "slack", "line", "wecomApp"}
AtOnce == {"discord", "onebot"}

\* The part a request is about, and which of the part's requests it is.
Turn(p) == ((p - 1) \div Each) + 1
Phase(p) == ((p - 1) % Each) + 1

\* What a request may show: the text, a file or a caption.
Items == [part : Nat, as : {"text", "file"}]

\* What division by three gives.
LEMMA Thirds ==
  ASSUME NEW p \in Nat
  PROVE  \E k \in Nat : \E c \in {0, 1, 2} : p = 3 * k + c /\ p \div 3 = k /\ p % 3 = c
  OBVIOUS

\* What division by one gives.
LEMMA Ones ==
  ASSUME NEW p \in Nat PROVE p \div 1 = p /\ p % 1 = 0
  OBVIOUS

\* Of an adapter that makes one request for a part, the request is the part.
LEMMA TurnsOfOne ==
  ASSUME NEW p \in Nat \ {0}, adapter # "wecomApp"
  PROVE  Each = 1 /\ Turn(p) = p /\ Phase(p) = 1
<1>1. Each = 1
  BY DEF Each
<1>2. p - 1 \in Nat
  OBVIOUS
<1> QED
  BY <1>1, <1>2, Ones DEF Turn, Phase

\* Of the WeCom app's, three requests are a part.
LEMMA TurnsOfThree ==
  ASSUME NEW p \in Nat \ {0}, adapter = "wecomApp"
  PROVE  /\ Each = 3 /\ Turn(p) \in Nat \ {0} /\ Phase(p) \in {1, 2, 3}
         /\ p = 3 * (Turn(p) - 1) + Phase(p)
<1>1. Each = 3
  BY DEF Each
<1>2. p - 1 \in Nat
  OBVIOUS
<1>3. PICK k \in Nat, c \in {0, 1, 2} :
        p - 1 = 3 * k + c /\ (p - 1) \div 3 = k /\ (p - 1) % 3 = c
  BY <1>2, Thirds
<1> QED
  BY <1>1, <1>3 DEF Turn, Phase

\* The same, from the part and the phase.
LEMMA TurnFrom ==
  ASSUME NEW i \in Nat \ {0}, NEW c \in {1, 2, 3}, adapter = "wecomApp"
  PROVE  Turn(3 * (i - 1) + c) = i /\ Phase(3 * (i - 1) + c) = c
<1> DEFINE p == 3 * (i - 1) + c
<1>1. p \in Nat \ {0}
  OBVIOUS
<1>2. /\ Turn(p) \in Nat \ {0} /\ Phase(p) \in {1, 2, 3}
      /\ p = 3 * (Turn(p) - 1) + Phase(p)
  BY <1>1, TurnsOfThree
<1> QED
  BY <1>2

\* After the third comes the next part.
LEMMA TurnNext ==
  ASSUME NEW i \in Nat \ {0}, adapter = "wecomApp"
  PROVE  Turn(3 * (i - 1) + 4) = i + 1 /\ Phase(3 * (i - 1) + 4) = 1
<1> DEFINE p == 3 * (i - 1) + 4
<1>1. p \in Nat \ {0}
  OBVIOUS
<1>2. /\ Turn(p) \in Nat \ {0} /\ Phase(p) \in {1, 2, 3}
      /\ p = 3 * (Turn(p) - 1) + Phase(p)
  BY <1>1, TurnsOfThree
<1> QED
  BY <1>2

\* A function on 1..k is a sequence of length k.
LEMMA LenIs ==
  ASSUME NEW k \in Nat, NEW S, NEW f \in [1..k -> S]
  PROVE  f \in Seq(S) /\ Len(f) = k
  OBVIOUS

\* A media message has parts.
LEMMA PartsLen ==
  ASSUME parts \in Seq(PartsOf), parts # <<>>
  PROVE  Len(parts) \in Nat \ {0} /\ DOMAIN parts = 1..Len(parts)
  OBVIOUS

\* The file of a part is there, gone or missing.
LEMMA PartTyped ==
  ASSUME parts \in Seq(PartsOf), NEW i \in DOMAIN parts
  PROVE  parts[i].ref \in {"ok", "gone", "missing"}
<1>1. parts[i] \in PartsOf
  OBVIOUS
<1> QED
  BY <1>1 DEF PartsOf

\* A text is asked for once, or once more after an error.
LEMMA TextAsk ==
  ASSUME parts = <<>>
  PROVE  /\ Len(Requests) \in {1, 2}
         /\ \A p \in 1..Len(Requests) :
              /\ Requests[p].shows = {Texting} /\ Requests[p].can = "yes"
              /\ p = Len(Requests) => Requests[p].then = 1 /\ Requests[p].else = 0
              /\ p # Len(Requests) => Requests[p].then = 2 /\ Requests[p].else = 1
<1>1. Requests = TextRequests
  BY DEF Requests
<1> DEFINE one == <<AskOnce({Texting}, "yes")>>
           two == <<AskFor({Texting}, "yes", 2, 1, 1), AskOnce({Texting}, "yes")>>
<1>2. Requests = two \/ Requests = one
  BY <1>1 DEF TextRequests, TelegramText, LineText, PlainText
<1>3. /\ Len(one) = 1 /\ one[1].shows = {Texting} /\ one[1].can = "yes"
      /\ one[1].then = 1 /\ one[1].else = 0
  BY DEF AskOnce, AskFor
<1>4. /\ Len(two) = 2 /\ two[1].shows = {Texting} /\ two[1].can = "yes"
      /\ two[1].then = 2 /\ two[1].else = 1
      /\ two[2].shows = {Texting} /\ two[2].can = "yes"
      /\ two[2].then = 1 /\ two[2].else = 0
  BY DEF AskOnce, AskFor
<1> HIDE DEF one, two
<1>5. CASE Requests = one
  <2>1. \A p \in 1..Len(Requests) : p = 1
    BY <1>3, <1>5
  <2> QED
    BY <1>3, <1>5, <2>1
<1>6. CASE Requests = two
  <2>1. Len(Requests) = 2
    BY <1>4, <1>6
  <2>2. \A p \in 1..Len(Requests) : p = 1 \/ p = 2
    BY <2>1
  <2> QED
    BY <1>4, <1>6, <2>2
<1> QED
  BY <1>2, <1>5, <1>6

\* All files that can be read are asked for at once.
LEMMA AtOnceAsk ==
  ASSUME parts \in Seq(PartsOf), parts # <<>>, adapter \in AtOnce
  PROVE  /\ Len(Requests) = 1
         /\ \E readable : "ok" \in readable /\
              LET some == {i \in DOMAIN parts : parts[i].ref \in readable} IN
              /\ Requests[1].shows = {File(i) : i \in some}
              /\ (Requests[1].can = "skip" <=> some = {})
         /\ Requests[1].then = 1 /\ Requests[1].else = 0 /\ Requests[1].over = 1
<1>1. PICK readable : "ok" \in readable /\ Requests = AllAtOnce(readable)
  BY DEF Requests, MediaRequests, AtOnce
<1> QED
  BY <1>1 DEF AllAtOnce, AskOnce, AskFor

\* The requests of the adapters that go through the parts.
LEMMA SequentialAsk ==
  ASSUME parts \in Seq(PartsOf), parts # <<>>, adapter \in Sequential
  PROVE  /\ Len(Requests) = Each * Len(parts)
         /\ \A p \in 1..(Each * Len(parts)) : Requests[p] = PartRequests(Turn(p))[Phase(p)]
<1>1. Requests = [p \in 1..(Each * Len(parts)) |-> PartRequests(Turn(p))[Phase(p)]]
  BY DEF Requests, MediaRequests, Sequential, Turn, Phase
<1>2. Each * Len(parts) \in Nat
  BY PartsLen DEF Each
<1> DEFINE f == [p \in 1..(Each * Len(parts)) |-> PartRequests(Turn(p))[Phase(p)]]
           S == {f[p] : p \in 1..(Each * Len(parts))}
<1>3. f \in [1..(Each * Len(parts)) -> S]
  OBVIOUS
<1>4. Len(f) = Each * Len(parts)
  BY <1>2, <1>3, LenIs
<1> QED
  BY <1>1, <1>4

\* The requests for a part of a media message.
LEMMA PlainPart ==
  ASSUME parts \in Seq(PartsOf), parts # <<>>, adapter \in Sequential \ {"wecomApp"},
         NEW p \in 1..Len(Requests)
  PROVE  /\ Turn(p) = p /\ p \in DOMAIN parts
         /\ Requests[p].then = 1 /\ Requests[p].else = 0 /\ Requests[p].over = 1
         /\ Requests[p].shows \in {{File(p)}, {Caption(p)}}
         /\ Requests[p].can # "skip" => Due(p) \subseteq Requests[p].shows
         /\ Requests[p].can = "skip" => Due(p) = {}
<1>1. /\ Each = 1 /\ Len(Requests) = Len(parts) /\ p \in DOMAIN parts
      /\ Turn(p) = p /\ Phase(p) = 1
  BY SequentialAsk, PartsLen, TurnsOfOne
<1>2. Requests[p] = PartRequests(p)[1]
  BY <1>1, SequentialAsk
<1>3. CASE adapter = "telegram"
  BY <1>1, <1>2, <1>3 DEF PartRequests, TelegramPart, AskOnce, AskFor, Due
<1>4. CASE adapter = "slack"
  <2>1. parts[p].ref \in {"ok", "gone", "missing"}
    BY <1>1, PartTyped
  <2> QED
    BY <1>1, <1>2, <1>4, <2>1 DEF PartRequests, SlackPart, AskOnce, AskFor, Due
<1>5. CASE adapter = "line"
  BY <1>1, <1>2, <1>5 DEF PartRequests, LinePart, AskOnce, AskFor, Due
<1> QED
  BY <1>3, <1>4, <1>5 DEF Sequential

\* The same for the WeCom app: an upload, the caption if it fails, the message.
LEMMA WeComPart ==
  ASSUME parts \in Seq(PartsOf), parts # <<>>, adapter = "wecomApp",
         NEW p \in 1..Len(Requests)
  PROVE  LET i == Turn(p)
             ask == Requests[p] IN
         /\ i \in DOMAIN parts /\ i \in Nat \ {0} /\ Phase(p) \in {1, 2, 3}
         /\ Phase(p) = 1 => /\ ask.shows = {} /\ ask.then = 2 /\ ask.else = 1 /\ ask.over = 3
                            /\ ask.can = "skip" => parts[i].ref # "ok"
         /\ Phase(p) = 2 => /\ ask.shows = {Caption(i)}
                            /\ ask.then = 2 /\ ask.else = 2 /\ ask.over = 2
         /\ Phase(p) = 3 => /\ ask.shows \in {{File(i)}, {Caption(i)}} /\ ask.can = "yes"
                            /\ ask.then = 1 /\ ask.else = 0 /\ ask.over = 1
                            /\ Due(i) \subseteq ask.shows
<1>1. /\ Each = 3 /\ Len(Requests) = 3 * Len(parts) /\ Len(parts) \in Nat
      /\ DOMAIN parts = 1..Len(parts) /\ p \in Nat \ {0}
  BY SequentialAsk, PartsLen, TurnsOfThree DEF Sequential
<1>2. /\ Turn(p) \in Nat \ {0} /\ Phase(p) \in {1, 2, 3} /\ p = 3 * (Turn(p) - 1) + Phase(p)
  BY <1>1, TurnsOfThree
<1>3. Turn(p) \in DOMAIN parts
  BY <1>1, <1>2
<1>4. Requests[p] = WeComAppPart(Turn(p))[Phase(p)]
  BY <1>1, SequentialAsk DEF Sequential, PartRequests
<1>5. parts[Turn(p)].ref \in {"ok", "gone", "missing"}
  BY <1>3, PartTyped
<1>6. CASE Phase(p) = 1
  BY <1>2, <1>3, <1>4, <1>5, <1>6 DEF WeComAppPart, AskFor, AskOnce
<1>7. CASE Phase(p) = 2
  BY <1>2, <1>3, <1>4, <1>7 DEF WeComAppPart, AskFor, AskOnce
<1>8. CASE Phase(p) = 3
  BY <1>2, <1>3, <1>4, <1>8 DEF WeComAppPart, AskFor, AskOnce, Due
<1> QED
  BY <1>2, <1>6, <1>7, <1>8

-----------------------------------------------------------------------------
(* What the rest of an attempt may still show                              *)

\* The item may still be shown by the request p or one after it.
Ahead(p, item) ==
  IF parts = <<>> THEN p <= Len(TextRequests)
  ELSE IF adapter \in AtOnce THEN p = 1
  ELSE item.part >= Turn(p)

\* An attempt goes on from request p to q.
Leads(p, q) ==
  LET ask == Requests[p] IN
  \/ ask.can # "skip" /\ q = p + ask.then
  \/ ask.can # "skip" /\ ask.else # 0 /\ q = p + ask.else
  \/ ask.can = "skip" /\ q = p + ask.over

\* Only some adapters send media.
MediaKinds == parts # <<>> => adapter \in Sequential \cup AtOnce

\* Where a media message that is sent part by part goes on.
LEMMA TurnLeads ==
  ASSUME parts \in Seq(PartsOf), parts # <<>>, adapter \in Sequential,
         NEW p \in 1..Len(Requests), NEW q, Leads(p, q)
  PROVE  /\ q \in Nat \ {0, 1} /\ Turn(p) \in DOMAIN parts /\ Turn(p) \in Nat
         /\ Turn(q) \in {Turn(p), Turn(p) + 1}
         /\ \A item \in Requests[p].shows :
              item \in Items /\ item.part = Turn(p) /\ Turn(q) = Turn(p) + 1
         /\ adapter = "wecomApp" /\ Phase(q) = 2 =>
              /\ Requests[p].can # "skip" /\ q = p + Requests[p].else
              /\ Requests[p].then # Requests[p].else
         /\ adapter = "wecomApp" \/ Requests[p].else = 0
         /\ Turn(q) = Turn(p) + 1 =>
              \/ Requests[p].can # "skip" /\ Due(Turn(p)) \subseteq Requests[p].shows
              \/ Requests[p].can = "skip" /\ Due(Turn(p)) = {}
              \/ adapter = "wecomApp" /\ Phase(p) = 2
<1>1. p \in Nat \ {0}
  OBVIOUS
<1>2. CASE adapter # "wecomApp"
  <2>1. /\ Turn(p) = p /\ p \in DOMAIN parts
        /\ Requests[p].then = 1 /\ Requests[p].else = 0 /\ Requests[p].over = 1
        /\ Requests[p].shows \in {{File(p)}, {Caption(p)}}
        /\ Requests[p].can # "skip" => Due(p) \subseteq Requests[p].shows
        /\ Requests[p].can = "skip" => Due(p) = {}
    BY <1>2, PlainPart
  <2>2. q = p + 1
    BY <2>1 DEF Leads
  <2>3. Turn(q) = p + 1
    BY <1>1, <1>2, <2>2, TurnsOfOne
  <2>4. \A item \in {File(p), Caption(p)} : item \in Items /\ item.part = p
    BY <1>1 DEF File, Caption, Items
  <2> QED
    BY <1>1, <1>2, <2>1, <2>2, <2>3, <2>4
<1>3. CASE adapter = "wecomApp"
  <2> DEFINE i == Turn(p)
             ask == Requests[p]
  <2>1. /\ i \in DOMAIN parts /\ i \in Nat \ {0} /\ Phase(p) \in {1, 2, 3}
        /\ Phase(p) = 1 => /\ ask.shows = {} /\ ask.then = 2 /\ ask.else = 1 /\ ask.over = 3
                           /\ ask.can = "skip" => parts[i].ref # "ok"
        /\ Phase(p) = 2 => /\ ask.shows = {Caption(i)}
                           /\ ask.then = 2 /\ ask.else = 2 /\ ask.over = 2
        /\ Phase(p) = 3 => /\ ask.shows \in {{File(i)}, {Caption(i)}} /\ ask.can = "yes"
                           /\ ask.then = 1 /\ ask.else = 0 /\ ask.over = 1
                           /\ Due(i) \subseteq ask.shows
    BY <1>3, WeComPart
  <2>2. p = 3 * (i - 1) + Phase(p)
    BY <1>1, <1>3, TurnsOfThree
  <2>3. \A item \in {File(i), Caption(i)} : item \in Items /\ item.part = i
    BY <2>1 DEF File, Caption, Items
  <2>4. /\ Turn(3 * (i - 1) + 2) = i /\ Phase(3 * (i - 1) + 2) = 2
        /\ Turn(3 * (i - 1) + 3) = i /\ Phase(3 * (i - 1) + 3) = 3
        /\ Turn(3 * (i - 1) + 4) = i + 1 /\ Phase(3 * (i - 1) + 4) = 1
    <3>1. i \in Nat \ {0} /\ i + 1 \in Nat \ {0}
      BY <2>1
    <3> HIDE DEF i
    <3>2. Turn(3 * (i - 1) + 2) = i /\ Phase(3 * (i - 1) + 2) = 2
      BY <1>3, <3>1, TurnFrom
    <3>3. Turn(3 * (i - 1) + 3) = i /\ Phase(3 * (i - 1) + 3) = 3
      BY <1>3, <3>1, TurnFrom
    <3>4. Turn(3 * (i - 1) + 4) = i + 1 /\ Phase(3 * (i - 1) + 4) = 1
      BY <1>3, <3>1, TurnNext
    <3> QED
      BY <3>2, <3>3, <3>4
  <2> HIDE DEF i, ask
  <2>5. CASE Phase(p) = 1
    <3>1. p = 3 * (i - 1) + 1
      BY <2>2, <2>5
    <3>2. \/ q = p + 2 
          \/ q = p + 1 /\ ask.can # "skip"
          \/ ask.can = "skip" /\ q = p + 3
      BY <2>1, <2>5 DEF Leads, ask
    <3>3. CASE q = p + 2
      <4>1. q = 3 * (i - 1) + 3
        BY <2>1, <3>1, <3>3
      <4>2. Turn(q) = i /\ Phase(q) = 3
        BY <2>4, <4>1
      <4>3. ask.shows = {} /\ q \in Nat \ {0, 1} /\ i # i + 1
        BY <1>1, <2>1, <2>5, <3>3
      <4> QED
        BY <1>3, <2>1, <4>2, <4>3 DEF i, ask
    <3>4. CASE q = p + 1 /\ ask.can # "skip"
      <4>1. q = 3 * (i - 1) + 2
        BY <2>1, <3>1, <3>4
      <4>2. Turn(q) = i /\ Phase(q) = 2
        BY <2>4, <4>1
      <4>3. ask.else = 1 /\ ask.then = 2 /\ ask.shows = {} /\ q \in Nat \ {0, 1} /\ i # i + 1
        BY <1>1, <2>1, <2>5, <3>4
      <4> QED
        BY <1>3, <2>1, <3>4, <4>2, <4>3 DEF i, ask
    <3>5. CASE ask.can = "skip" /\ q = p + 3
      <4>1. q = 3 * (i - 1) + 4
        BY <2>1, <3>1, <3>5
      <4>2. Turn(q) = i + 1 /\ Phase(q) = 1
        BY <2>4, <4>1
      <4>3. Due(i) = {}
        BY <1>3, <2>1, <2>5, <3>5 DEF Due
      <4> QED
        BY <1>1, <1>3, <2>1, <2>5, <3>5, <4>2, <4>3 DEF i, ask
    <3> QED
      BY <3>2, <3>3, <3>4, <3>5
  <2>6. CASE Phase(p) = 2
    <3>1. q = p + 2
      BY <2>1, <2>6 DEF Leads, ask
    <3>2. Turn(q) = i + 1 /\ Phase(q) = 1
      <4>1. q = 3 * (i - 1) + 4
        BY <2>1, <2>2, <2>6, <3>1
      <4> QED
        BY <2>4, <4>1
    <3> QED
      BY <1>1, <1>3, <2>1, <2>3, <2>6, <3>1, <3>2 DEF i, ask
  <2>7. CASE Phase(p) = 3
    <3>1. q = p + 1
      BY <2>1, <2>7 DEF Leads, ask
    <3>2. Turn(q) = i + 1 /\ Phase(q) = 1
      <4>1. q = 3 * (i - 1) + 4
        BY <2>1, <2>2, <2>7, <3>1
      <4> QED
        BY <2>4, <4>1
    <3> QED
      BY <1>1, <1>3, <2>1, <2>3, <2>7, <3>1, <3>2 DEF i, ask
  <2> QED
    BY <2>1, <2>5, <2>6, <2>7
<1> QED
  BY <1>2, <1>3

\* A request shows what was ahead of it, and a good answer leaves it behind.
LEMMA AskAhead ==
  ASSUME parts \in Seq(PartsOf), MediaKinds, NEW p \in 1..Len(Requests),
         NEW q, Leads(p, q)
  PROVE  /\ q \in Nat \ {0, 1} /\ Requests[p].shows \in SUBSET Items
         /\ \A item \in Requests[p].shows : Ahead(p, item)
         /\ \A item \in Items : Ahead(q, item) => Ahead(p, item)
         /\ Requests[p].can # "skip" /\ q = p + Requests[p].then =>
              \A item \in Requests[p].shows : ~Ahead(q, item)
<1>1. CASE parts = <<>>
  <2>1. /\ Len(Requests) \in {1, 2} /\ Requests = TextRequests
        /\ Requests[p].shows = {Texting} /\ Requests[p].can = "yes"
        /\ p = Len(Requests) => Requests[p].then = 1 /\ Requests[p].else = 0
        /\ p # Len(Requests) => Requests[p].then = 2 /\ Requests[p].else = 1
    BY <1>1, TextAsk DEF Requests
  <2>2. Texting \in Items
    BY DEF Texting, Items
  <2> DEFINE len == Len(Requests)
             ask == Requests[p]
  <2>3. len \in {1, 2} /\ p \in 1..len
    BY <2>1
  <2>4. \/ q = p + ask.then
        \/ ask.else # 0 /\ q = p + ask.else
    BY <2>1 DEF Leads
  <2>5. /\ p = len => ask.then = 1 /\ ask.else = 0
        /\ p # len => ask.then = 2 /\ ask.else = 1
    BY <2>1
  <2> HIDE DEF len, ask
  <2>6. p = len \/ (p = 1 /\ len = 2)
    BY <2>3
  <2>7. p \in {1, 2} /\ q \in {2, 3} /\ q > p /\ p <= len
    BY <2>3, <2>4, <2>5, <2>6
  <2>8. q = p + ask.then => q = len + 1
    BY <2>3, <2>5, <2>6
  <2> USE DEF len, ask
  <2> QED
    BY <1>1, <2>1, <2>2, <2>7, <2>8 DEF Ahead
<1>2. CASE parts # <<>> /\ adapter \in AtOnce
  <2>1. /\ Len(Requests) = 1
        /\ Requests[1].then = 1 /\ Requests[1].else = 0 /\ Requests[1].over = 1
    BY <1>2, AtOnceAsk
  <2>2. p = 1
    BY <2>1
  <2>3. p = 1 /\ q = 2
    BY <2>1, <2>2 DEF Leads
  <2>4. PICK some \in SUBSET DOMAIN parts : Requests[p].shows = {File(i) : i \in some}
    BY <1>2, <2>3, AtOnceAsk
  <2>5. \A i \in DOMAIN parts : File(i) \in Items
    BY <1>2, PartsLen DEF File, Items
  <2> QED
    BY <1>2, <2>3, <2>4, <2>5 DEF Ahead
<1>3. CASE parts # <<>> /\ adapter \in Sequential
  <2>1. adapter \notin AtOnce
    BY <1>3 DEF Sequential, AtOnce
  <2>2. /\ q \in Nat \ {0, 1} /\ Turn(p) \in Nat
        /\ Turn(q) \in {Turn(p), Turn(p) + 1}
        /\ \A item \in Requests[p].shows :
              item \in Items /\ item.part = Turn(p) /\ Turn(q) = Turn(p) + 1
    BY <1>3, TurnLeads
  <2>3. \A item \in Items : item.part \in Nat
    BY DEF Items
  <2> QED
    BY <1>3, <2>1, <2>2, <2>3 DEF Ahead
<1> QED
  BY <1>1, <1>2, <1>3 DEF MediaKinds

-----------------------------------------------------------------------------
(* The invariant                                                           *)

OutTyped ==
  /\ parts \in Seq(PartsOf) /\ MediaKinds /\ pos \in Nat \ {0} /\ errors \in Nat
  /\ tries \in Nat /\ refused \in Nat
  /\ shown \in Seq(SUBSET Items) /\ IsFiniteSet(givenUp)
  /\ \A l \in givenUp : l[2] \in SUBSET Items
  /\ used \in Seq(Nat) /\ holding \in 0..Len(used) /\ reply.id \in 0..Len(used)
  /\ step \in Ended \cup {"idle", "begin", "asking", "wait"}
  /\ adapter # "discord" => givenUp = {}

\* A reply token that is in the map, or taken and not yet tried, is unused.
Tokens ==
  /\ TokenOnce
  /\ reply.id # 0 => used[reply.id] = 0 /\ reply.id # holding
  /\ step = "asking" /\ pos = 1 /\ holding # 0 => used[holding] = 0

\* An error that is not retried ends the message.
Refusal ==
  refused > 0 => step = "failed" /\ (adapter # "discord" => Len(shown) = refused - 1)

\* Requests given up that may yet show the item.
Pending(item) == Cardinality({l \in givenUp : item \in l[2]})

\* The item may be shown without another error.
Open(item) == step \in {"begin", "wait"} \/ (step = "asking" /\ Ahead(pos, item))

\* An item has been shown, or may yet be by a request given up, once for each error,
\* and once more when no request for it is ahead.
Counted ==
  \A item \in Items :
    Times(item) + Pending(item) <= errors + (IF Open(item) THEN 0 ELSE 1)

\* At first the parts come one after the other.
Ordered ==
  tries = 0 =>
    /\ step # "wait" /\ InOrder
    /\ step = "begin" => shown = <<>> /\ givenUp = {}
    /\ parts = <<>> =>
         /\ \A n \in DOMAIN shown : \A a \in shown[n] : a.part = 0
         /\ \A l \in givenUp : \A a \in l[2] : a.part = 0
    /\ parts # <<>> /\ adapter \in AtOnce =>
         /\ step = "asking" /\ pos = 1 => shown = <<>> /\ givenUp = {}
         /\ Len(shown) <= 1
         /\ shown # <<>> => givenUp = {}
         /\ \A k, l \in givenUp : k = l
    /\ parts # <<>> /\ adapter \in Sequential /\ step = "asking" =>
         \A n \in DOMAIN shown : \A a \in shown[n] : a.part < Turn(pos)

Visible(item) == \E n \in DOMAIN shown : item \in shown[n]

\* What is done of an attempt is visible.
Done ==
  step = "asking" =>
    /\ parts = <<>> /\ pos > Len(TextRequests) => Visible(Texting)
    /\ parts # <<>> /\ adapter \in AtOnce /\ pos # 1 =>
         \A i \in DOMAIN parts : parts[i].ref = "ok" => Visible(File(i))
    /\ parts # <<>> /\ adapter \in Sequential =>
         /\ \A i \in DOMAIN parts : i < Turn(pos) => \A item \in Due(i) : Visible(item)
         /\ adapter = "wecomApp" /\ Phase(pos) = 2 => errors > 0

\* A message reported as sent is visible.
AllVisible ==
  step = "ok" =>
    /\ parts = <<>> => Visible(Texting)
    /\ parts # <<>> => \A i \in DOMAIN parts : \A item \in Due(i) : Visible(item)

OutInv == OutTyped /\ Tokens /\ Refusal /\ Counted /\ Ordered /\ Done /\ AllVisible

\* What is visible has been shown some number of times.
LEMMA VisibleTimes ==
  ASSUME shown \in Seq(SUBSET Items), NEW item
  PROVE  Times(item) > 0 <=> Visible(item)
<1> DEFINE N == {n \in DOMAIN shown : item \in shown[n]}
<1>1. IsFiniteSet(DOMAIN shown)
  BY FS_Interval
<1>2. IsFiniteSet(N) /\ Cardinality(N) \in Nat
  BY <1>1, FS_Subset, FS_CardinalityType
<1>3. Cardinality(N) = 0 <=> N = {}
  BY <1>2, FS_EmptySet
<1> QED
  BY <1>2, <1>3 DEF Times, Visible

\* What one more request shows.
LEMMA TimesAppend ==
  ASSUME shown \in Seq(SUBSET Items), NEW x, x \in SUBSET Items, shown' = Append(shown, x),
         NEW item
  PROVE  /\ Times(item) \in Nat
         /\ Times(item)' = Times(item) + (IF item \in x THEN 1 ELSE 0)
         /\ Visible(item)' <=> Visible(item) \/ item \in x
<1> DEFINE N == {n \in DOMAIN shown : item \in shown[n]}
           k == Len(shown) + 1
<1>1. /\ Len(shown) \in Nat /\ DOMAIN shown = 1..Len(shown) /\ DOMAIN shown' = 1..k
      /\ \A n \in 1..Len(shown) : shown'[n] = shown[n]
      /\ shown'[k] = x
  OBVIOUS
<1> DEFINE D == DOMAIN shown
<1>2. IsFiniteSet(D)
  BY <1>1, FS_Interval
<1>3. N \subseteq D
  OBVIOUS
<1>4. IsFiniteSet(N) /\ Cardinality(N) \in Nat
  BY <1>2, <1>3, FS_Subset, FS_CardinalityType
<1>5. N' = N \cup (IF item \in x THEN {k} ELSE {})
  <2>1. \A n : n \in 1..k <=> n \in 1..Len(shown) \/ n = k
    BY <1>1
  <2> QED
    BY <1>1, <2>1
<1>6. k \notin N
  BY <1>1
<1>7. Cardinality(N \cup {k}) = Cardinality(N) + 1
  <2> HIDE DEF N, k
  <2> QED
    BY <1>4, <1>6, FS_AddElement
<1>8. item \in x => Cardinality(N') = Cardinality(N) + 1
  BY <1>5, <1>7
<1>9. item \notin x => N' = N
  BY <1>5
<1>10. Visible(item) <=> N # {}
  BY DEF Visible
<1>11. Visible(item)' <=> N' # {}
  BY DEF Visible
<1> HIDE DEF k
<1>12. N' = {} <=> N = {} /\ item \notin x
  BY <1>5
<1>13. Times(item) = Cardinality(N) /\ Times(item)' = Cardinality(N')
  BY DEF Times
<1> HIDE DEF N
<1> QED
  BY <1>4, <1>8, <1>9, <1>10, <1>11, <1>12, <1>13

\* A request is given up.
LEMMA PendingMore ==
  ASSUME IsFiniteSet(givenUp), NEW l, givenUp' = givenUp \cup {l}, NEW item
  PROVE  /\ Pending(item) \in Nat /\ Pending(item)' \in Nat
         /\ Pending(item)' <= Pending(item) + 1
         /\ item \notin l[2] => Pending(item)' = Pending(item)
<1> DEFINE L == {g \in givenUp : item \in g[2]}
<1>1. IsFiniteSet(L) /\ Cardinality(L) \in Nat
  BY FS_Subset, FS_CardinalityType
<1>2. L' = L \cup (IF item \in l[2] THEN {l} ELSE {})
  OBVIOUS
<1>3. /\ IsFiniteSet(L \cup {l})
      /\ Cardinality(L \cup {l}) \in {Cardinality(L), Cardinality(L) + 1}
  BY <1>1, FS_AddElement
<1>4. Pending(item) = Cardinality(L) /\ Pending(item)' = Cardinality(L')
  BY DEF Pending
<1>5. item \notin l[2] => L' = L
  BY <1>2
<1>6. item \in l[2] => L' = L \cup {l}
  BY <1>2
<1> HIDE DEF L
<1> QED
  BY <1>1, <1>3, <1>4, <1>5, <1>6

\* A request that was given up lands.
LEMMA PendingLess ==
  ASSUME IsFiniteSet(givenUp), NEW l \in givenUp, givenUp' = givenUp \ {l}, NEW item
  PROVE  /\ Pending(item) \in Nat
         /\ Pending(item)' = Pending(item) - (IF item \in l[2] THEN 1 ELSE 0)
<1> DEFINE L == {g \in givenUp : item \in g[2]}
<1>1. IsFiniteSet(L) /\ Cardinality(L) \in Nat
  BY FS_Subset, FS_CardinalityType
<1>2. L' = L \ {l}
  OBVIOUS
<1>3. item \in l[2] => l \in L /\ Cardinality(L \ {l}) = Cardinality(L) - 1
  BY <1>1, FS_RemoveElement
<1>4. Pending(item) = Cardinality(L) /\ Pending(item)' = Cardinality(L')
  BY DEF Pending
<1>5. item \notin l[2] => L' = L
  BY <1>2
<1> HIDE DEF L
<1> QED
  BY <1>1, <1>2, <1>3, <1>4, <1>5

\* The requests given up can be counted.
LEMMA PendingNat == ASSUME IsFiniteSet(givenUp), NEW item PROVE Pending(item) \in Nat
  BY FS_Subset, FS_CardinalityType DEF Pending

\* And so can the requests that show something.
LEMMA TimesNat == ASSUME shown \in Seq(SUBSET Items), NEW item PROVE Times(item) \in Nat
<1>1. IsFiniteSet(DOMAIN shown)
  BY FS_Interval
<1> QED
  BY <1>1, FS_Subset, FS_CardinalityType DEF Times

-----------------------------------------------------------------------------
(* Steps that show nothing                                                 *)

\* What is ahead depends on the message only.
LEMMA SameMessage ==
  ASSUME UNCHANGED <<adapter, parts, holding>>, NEW p, NEW q
  PROVE  /\ Ahead(p, q)' <=> Ahead(p, q)
         /\ Turn(p)' = Turn(p) /\ Phase(p)' = Phase(p)
         /\ Len(TextRequests)' = Len(TextRequests)
  BY DEF Ahead, Turn, Phase, Each, TextRequests, TelegramText, LineText, PlainText

\* What is visible depends on what is shown only.
LEMMA SameShown ==
  ASSUME UNCHANGED <<shown, givenUp>>, NEW item
  PROVE  Times(item)' = Times(item) /\ Pending(item)' = Pending(item)
         /\ (Visible(item)' <=> Visible(item))
  BY DEF Times, Pending, Visible

\* What is due depends on the parts and the errors.
LEMMA SameDue ==
  ASSUME UNCHANGED <<adapter, parts, errors>>, NEW i
  PROVE  Due(i)' = Due(i)
  BY DEF Due, Caption, File

\* It holds at first.
LEMMA OutInitInv == OutInit => OutInv
<1> SUFFICES ASSUME OutInit PROVE OutInv
  OBVIOUS
<1>1. /\ adapter = "none" /\ parts = <<>> /\ reply.id = 0 /\ holding = 0 /\ used = <<>>
      /\ step = "idle" /\ tries = 0 /\ pos = 1 /\ errors = 0
      /\ shown = <<>> /\ givenUp = {} /\ refused = 0
  BY DEF OutInit
<1>2. IsFiniteSet(givenUp)
  BY <1>1, FS_EmptySet
<1>3. OutTyped
  BY <1>1, <1>2 DEF OutTyped, MediaKinds
<1>4. \A item : Times(item) = 0 /\ Pending(item) = 0
  <2> TAKE item
  <2>1. {n \in DOMAIN shown : item \in shown[n]} = {} /\ {l \in givenUp : item \in l[2]} = {}
    BY <1>1
  <2> QED
    BY <2>1, FS_EmptySet DEF Times, Pending
<1>5. Counted
  BY <1>1, <1>4 DEF Counted
<1> QED
  BY <1>1, <1>3, <1>5 DEF OutInv, Tokens, TokenOnce, Refusal, Ordered, InOrder, Done, AllVisible

\* Steps that leave the message and what is shown of it alone.
LEMMA StillVisible ==
  ASSUME OutInv, UNCHANGED <<adapter, parts, holding, shown, givenUp, errors, tries, pos,
                             refused, step>>
  PROVE  Refusal' /\ Counted' /\ Ordered' /\ Done' /\ AllVisible'
<1>1. Refusal'
  BY DEF OutInv, Refusal
<1>2. Counted'
  <2>1. \A item : Open(item)' <=> Open(item)
    BY SameMessage DEF Open
  <2> QED
    BY <2>1, SameShown DEF Counted, OutInv
<1>3. Ordered'
  BY SameMessage DEF OutInv, Ordered, InOrder
<1>4. Done'
  <2>1. UNCHANGED <<Turn(pos), Phase(pos), Len(TextRequests)>>
    BY SameMessage
  <2> QED
    BY <2>1, SameShown, SameDue DEF OutInv, Done
<1>5. AllVisible'
  BY SameShown, SameDue DEF OutInv, AllVisible
<1> QED
  BY <1>1, <1>2, <1>3, <1>4, <1>5

\* LINE: a message with a new reply token.
LEMMA MessageComesInv == ASSUME OutInv, MessageComes PROVE OutInv'
<1>1. /\ reply' = [id |-> Len(used) + 1, fresh |-> TRUE] /\ used' = Append(used, 0)
      /\ UNCHANGED <<adapter, parts, holding, step, tries, pos, errors, shown, givenUp,
                     refused>>
  BY DEF MessageComes
<1>2. reply'.id = Len(used) + 1
  BY <1>1
<1>3. OutTyped
  BY DEF OutInv
<1>4. OutTyped'
  BY <1>1, <1>2, <1>3 DEF OutTyped, MediaKinds
<1>5. Tokens'
  BY <1>1, <1>2, <1>3 DEF OutTyped, OutInv, Tokens, TokenOnce
<1> QED
  BY <1>1, <1>4, <1>5, StillVisible DEF OutInv

\* The token grows too old.
LEMMA TokenAgesInv == ASSUME OutInv, TokenAges PROVE OutInv'
<1>1. /\ reply' = [id |-> reply.id, fresh |-> FALSE]
      /\ UNCHANGED <<used, adapter, parts, holding, step, tries, pos, errors, shown, givenUp,
                     refused>>
  BY DEF TokenAges
<1>2. reply'.id = reply.id
  BY <1>1
<1>3. OutTyped'
  BY <1>1, <1>2 DEF OutTyped, OutInv, MediaKinds
<1>4. Tokens'
  BY <1>1, <1>2 DEF OutInv, Tokens, TokenOnce
<1> QED
  BY <1>1, <1>3, <1>4, StillVisible DEF OutInv

\* The worker's delay.
LEMMA WaitInv == ASSUME OutInv, Wait PROVE OutInv'
<1>1. /\ step = "wait" /\ step' \in {"begin", "dropped"}
      /\ UNCHANGED <<adapter, parts, reply, holding, used, tries, pos,
                     errors, shown, givenUp, refused, sent>>
  BY DEF Wait
<1>2. OutTyped'
  BY <1>1 DEF OutTyped, OutInv, MediaKinds, Ended
<1>3. Tokens' /\ Refusal'
  BY <1>1 DEF OutInv, Tokens, TokenOnce, Refusal
<1>4. Counted'
  <2>1. \A item \in Items : Open(item)
    BY <1>1 DEF Open
  <2>2. errors + 0 = errors
    BY DEF OutInv, OutTyped
  <2>3. \A item \in Items : Times(item) + Pending(item) <= errors
    BY <2>1, <2>2 DEF OutInv, Counted
  <2>4. ASSUME NEW item \in Items
        PROVE  Times(item)' + Pending(item)' <= errors' + (IF Open(item)' THEN 0 ELSE 1)
    <3>1. Times(item) \in Nat /\ Pending(item) \in Nat /\ errors \in Nat
      BY TimesNat, PendingNat DEF OutInv, OutTyped
    <3>2. Times(item)' = Times(item) /\ Pending(item)' = Pending(item) /\ errors' = errors
      BY <1>1, SameShown
    <3> QED
      BY <2>3, <3>1, <3>2
  <2> QED
    BY <2>4 DEF Counted
<1>5. Ordered' /\ Done' /\ AllVisible'
  BY <1>1 DEF OutInv, Ordered, Done, AllVisible
<1> QED
  BY <1>2, <1>3, <1>4, <1>5 DEF OutInv

\* An attempt that is through all requests.
LEMMA FinishInv == ASSUME OutInv, Finish PROVE OutInv'
<1>1. /\ step = "asking" /\ step' = "ok" /\ pos > Len(Requests)
      /\ UNCHANGED <<adapter, parts, reply, holding, used, tries, pos,
                     errors, shown, givenUp, refused, sent>>
  BY DEF Finish
<1>2. OutTyped /\ MediaKinds
  BY DEF OutInv, OutTyped
<1>3. OutTyped'
  BY <1>1 DEF OutTyped, OutInv, MediaKinds, Ended
<1>4. Tokens' /\ Refusal'
  BY <1>1 DEF OutInv, Tokens, TokenOnce, Refusal
<1>5. Counted'
  <2>1. ASSUME NEW item \in Items
        PROVE  Times(item)' + Pending(item)' <= errors' + (IF Open(item)' THEN 0 ELSE 1)
    <3>1. Times(item) \in Nat /\ Pending(item) \in Nat /\ errors \in Nat
      BY TimesNat, PendingNat DEF OutInv, OutTyped
    <3>2. Times(item)' = Times(item) /\ Pending(item)' = Pending(item) /\ errors' = errors
      BY <1>1, SameShown
    <3>3. Times(item) + Pending(item) <= errors + (IF Open(item) THEN 0 ELSE 1)
      BY DEF OutInv, Counted
    <3>4. ~Open(item)'
      BY <1>1 DEF Open
    <3> QED
      BY <3>1, <3>2, <3>3, <3>4
  <2> QED
    BY <2>1 DEF Counted
<1>6. Ordered' /\ Done'
  BY <1>1 DEF OutInv, Ordered, InOrder, Done
<1>7. parts = <<>> => Visible(Texting)
  BY <1>1 DEF OutInv, Done, Requests
<1>8. parts # <<>> => \A i \in DOMAIN parts : \A item \in Due(i) : Visible(item)
  <2> SUFFICES ASSUME parts # <<>>, NEW i \in DOMAIN parts, NEW item \in Due(i)
               PROVE  Visible(item)
    OBVIOUS
  <2>1. CASE adapter \in AtOnce
    <3>1. Len(Requests) = 1
      BY <1>2, <2>1, AtOnceAsk DEF OutTyped
    <3>2. pos # 1
      BY <1>1, <3>1
    <3>3. item = File(i) /\ parts[i].ref = "ok"
      BY <2>1 DEF Due, AtOnce
    <3> QED
      BY <1>1, <2>1, <3>2, <3>3 DEF OutInv, Done
  <2>2. CASE adapter \in Sequential
    <3>1. Len(Requests) = Each * Len(parts) /\ Len(parts) \in Nat \ {0} /\ i \in 1..Len(parts)
      BY <1>2, <2>2, SequentialAsk, PartsLen DEF OutTyped
    <3>2. pos \in Nat \ {0} /\ pos > Each * Len(parts)
      BY <1>2, <1>1, <3>1 DEF OutTyped
    <3>3. i < Turn(pos)
      <4>1. CASE adapter = "wecomApp"
        <5>1. /\ Each = 3 /\ Turn(pos) \in Nat \ {0} /\ Phase(pos) \in {1, 2, 3}
              /\ pos = 3 * (Turn(pos) - 1) + Phase(pos)
          BY <3>2, <4>1, TurnsOfThree
        <5> QED
          BY <3>1, <3>2, <5>1
      <4>2. CASE adapter # "wecomApp"
        <5>1. Each = 1 /\ Turn(pos) = pos
          BY <3>2, <4>2, TurnsOfOne
        <5> QED
          BY <3>1, <3>2, <5>1
      <4> QED
        BY <4>1, <4>2
    <3> QED
      BY <1>1, <2>2, <3>3 DEF OutInv, Done
  <2> QED
    BY <1>2, <2>1, <2>2 DEF MediaKinds
<1>9. AllVisible'
  BY <1>1, <1>7, <1>8, SameShown, SameDue DEF AllVisible
<1> QED
  BY <1>3, <1>4, <1>5, <1>6, <1>9 DEF OutInv

\* The requests of a message are finitely many.
LEMMA RequestsLen ==
  ASSUME parts \in Seq(PartsOf), MediaKinds
  PROVE  Len(Requests) \in Nat
<1>1. CASE parts = <<>>
  BY <1>1, TextAsk
<1>2. CASE parts # <<>> /\ adapter \in AtOnce
  BY <1>2, AtOnceAsk
<1>3. CASE parts # <<>> /\ adapter \in Sequential
  <2>1. Each \in Nat /\ Len(parts) \in Nat
    BY DEF Each
  <2>2. Len(Requests) = Each * Len(parts)
    BY <1>3, SequentialAsk
  <2> QED
    BY <2>1, <2>2
<1> QED
  BY <1>1, <1>2, <1>3 DEF MediaKinds

\* A request is left out.
LEMMA LeaveOutInv == ASSUME OutInv, LeaveOut PROVE OutInv'
<1>1. OutTyped /\ MediaKinds
  BY DEF OutInv, OutTyped
<1>2. /\ step = "asking" /\ pos <= Len(Requests) /\ Requests[pos].can = "skip"
      /\ UNCHANGED <<adapter, parts, reply, holding, used, step, tries,
                     errors, shown, givenUp, refused, sent>>
  BY DEF LeaveOut
<1> SUFFICES ASSUME NEW p, p = pos, NEW q, q = pos' PROVE OutInv'
  OBVIOUS
<1>3. p \in 1..Len(Requests) /\ q = p + Requests[p].over
  <2>1. pos' = pos + Requests[pos].over
    BY DEF LeaveOut
  <2> QED
    BY <1>1, <1>2, <2>1, RequestsLen DEF OutTyped
<1>4. Leads(p, q)
  BY <1>2, <1>3 DEF Leads
<1>5. /\ q \in Nat \ {0, 1}
      /\ \A item \in Items : Ahead(q, item) => Ahead(p, item)
  BY <1>1, <1>3, <1>4, AskAhead DEF OutTyped
<1>6. OutTyped'
  BY <1>1, <1>2, <1>3, <1>5 DEF OutTyped, MediaKinds
<1>7. Tokens' /\ Refusal'
  BY <1>2, <1>3, <1>5 DEF OutInv, Tokens, TokenOnce, Refusal
<1>8. Counted'
  <2>1. ASSUME NEW item \in Items
        PROVE  Times(item)' + Pending(item)' <= errors' + (IF Open(item)' THEN 0 ELSE 1)
    <3>1. Times(item) \in Nat /\ Pending(item) \in Nat /\ errors \in Nat
      BY TimesNat, PendingNat DEF OutInv, OutTyped
    <3>2. Times(item)' = Times(item) /\ Pending(item)' = Pending(item) /\ errors' = errors
      BY <1>2, SameShown
    <3>3. Times(item) + Pending(item) <= errors + (IF Open(item) THEN 0 ELSE 1)
      BY DEF OutInv, Counted
    <3>4. Ahead(q, item)' <=> Ahead(q, item)
      BY <1>2, SameMessage
    <3>5. Open(item)' => Open(item)
      BY <1>2, <1>3, <1>5, <3>4 DEF Open
    <3> QED
      BY <3>1, <3>2, <3>3, <3>5
  <2> QED
    BY <2>1 DEF Counted
<1>9. CASE parts = <<>>
  <2>1. FALSE
    BY <1>2, <1>3, <1>9, TextAsk
  <2> QED
    BY <2>1
<1>10. CASE parts # <<>> /\ adapter \in AtOnce
  <2>1. adapter \notin Sequential
    BY <1>10 DEF AtOnce, Sequential
  <2>2. Ordered'
    BY <1>2, <1>3, <1>5, <1>10, <2>1 DEF OutInv, Ordered, InOrder
  <2>3. p = 1
    <3>1. Len(Requests) = 1
      BY <1>1, <1>10, AtOnceAsk DEF OutTyped
    <3> QED
      BY <1>3, <3>1
  <2>4. \A i \in DOMAIN parts : parts[i].ref # "ok"
    <3>1. PICK readable : "ok" \in readable /\
            (Requests[1].can = "skip" <=> {i \in DOMAIN parts : parts[i].ref \in readable} = {})
      BY <1>1, <1>10, AtOnceAsk DEF OutTyped
    <3> QED
      BY <1>2, <1>3, <2>3, <3>1
  <2>5. Done' /\ AllVisible'
    BY <1>2, <1>10, <2>1, <2>4 DEF OutInv, Done, AllVisible
  <2> QED
    BY <1>6, <1>7, <1>8, <2>2, <2>5 DEF OutInv
<1>11. CASE parts # <<>> /\ adapter \in Sequential
  <2>1. adapter \notin AtOnce
    BY <1>11 DEF AtOnce, Sequential
  <2>2. /\ Turn(p) \in Nat /\ Turn(q) \in {Turn(p), Turn(p) + 1} /\ Turn(p) \in DOMAIN parts
        /\ adapter = "wecomApp" => Phase(q) # 2
        /\ Turn(q) = Turn(p) + 1 =>
             Due(Turn(p)) = {} \/ (adapter = "wecomApp" /\ Phase(p) = 2)
    BY <1>1, <1>2, <1>3, <1>4, <1>11, TurnLeads DEF OutTyped
  <2>3. Turn(q)' = Turn(q) /\ Phase(q)' = Phase(q)
    BY <1>2, SameMessage
  <2>4. Turn(pos)' = Turn(q) /\ Phase(pos)' = Phase(q)
    BY <1>3, <2>3 DEF Turn, Phase
  <2>5. Ordered'
    <3>1. \A n \in DOMAIN shown : \A a \in shown[n] : a.part \in Nat
      BY <1>1 DEF OutTyped, Items
    <3> QED
      BY <1>2, <1>3, <1>11, <2>1, <2>2, <2>4, <3>1 DEF OutInv, Ordered, InOrder
  <2>6. \A i \in DOMAIN parts : i < Turn(q) => \A item \in Due(i) : Visible(item)
    <3> SUFFICES ASSUME NEW i \in DOMAIN parts, i < Turn(q), NEW item \in Due(i)
                 PROVE  Visible(item)
      OBVIOUS
    <3>1. CASE i < Turn(p)
      BY <1>2, <1>3, <1>11, <3>1 DEF OutInv, Done
    <3>2. CASE ~(i < Turn(p))
      <4>1. i = Turn(p) /\ Turn(q) = Turn(p) + 1
        BY <1>1, <1>11, <2>2, <3>2, PartsLen DEF OutTyped
      <4>2. adapter = "wecomApp" /\ Phase(p) = 2
        BY <2>2, <4>1
      <4>3. errors > 0
        BY <1>2, <1>3, <1>11, <4>2 DEF OutInv, Done
      <4> QED
        BY <4>2, <4>3 DEF Due
    <3> QED
      BY <3>1, <3>2
  <2>7. Done' /\ AllVisible'
    BY <1>2, <1>11, <2>1, <2>2, <2>4, <2>6, SameShown, SameDue DEF Done, AllVisible
  <2> QED
    BY <1>6, <1>7, <1>8, <2>5, <2>7 DEF OutInv
<1> QED
  BY <1>1, <1>9, <1>10, <1>11 DEF MediaKinds

-----------------------------------------------------------------------------
(* Steps from outside                                                      *)

\* A request that was given up comes through.
LEMMA LandInv == ASSUME OutInv, Land PROVE OutInv'
<1>1. /\ UNCHANGED <<adapter, parts, reply, holding, used, step, tries, pos, errors, refused>>
      /\ \E l \in givenUp : shown' = Append(shown, l[2]) /\ givenUp' = givenUp \ {l}
  BY DEF Land
<1>2. PICK l \in givenUp : shown' = Append(shown, l[2]) /\ givenUp' = givenUp \ {l}
  BY <1>1
<1>3. OutTyped /\ shown \in Seq(SUBSET Items) /\ IsFiniteSet(givenUp)
  BY DEF OutInv, OutTyped
<1> SUFFICES ASSUME NEW x, x = l[2] PROVE OutInv'
  OBVIOUS
<1>4. x \in SUBSET Items /\ shown' = Append(shown, x) /\ adapter = "discord"
  BY <1>2, <1>3 DEF OutTyped
<1>5. OutTyped'
  <2>1. IsFiniteSet(givenUp')
    BY <1>2, <1>3, FS_Difference
  <2>2. shown' \in Seq(SUBSET Items)
    BY <1>3, <1>4
  <2> QED
    BY <1>1, <1>2, <1>3, <2>1, <2>2 DEF OutTyped, MediaKinds
<1>6. Tokens' /\ Refusal'
  BY <1>1, <1>4 DEF OutInv, Tokens, TokenOnce, Refusal
<1>7. Counted'
  <2>1. ASSUME NEW item \in Items
        PROVE  Times(item)' + Pending(item)' <= errors' + (IF Open(item)' THEN 0 ELSE 1)
    <3>1. Times(item)' = Times(item) + (IF item \in x THEN 1 ELSE 0) /\ Times(item) \in Nat
      BY <1>3, <1>4, TimesAppend
    <3>2. /\ Pending(item)' = Pending(item) - (IF item \in x THEN 1 ELSE 0)
          /\ Pending(item) \in Nat
      BY <1>2, <1>3, PendingLess
    <3>3. Times(item) + Pending(item) <= errors + (IF Open(item) THEN 0 ELSE 1)
      BY DEF OutInv, Counted
    <3>4. Ahead(pos, item)' <=> Ahead(pos, item)
      BY <1>1, SameMessage
        DEF Ahead, Turn, Each, TextRequests, TelegramText, LineText, PlainText
    <3>5. Open(item)' <=> Open(item)
      BY <1>1, <3>4 DEF Open
    <3>6. errors' = errors /\ errors \in Nat
      BY <1>1, <1>3 DEF OutTyped
    <3> QED
      BY <3>1, <3>2, <3>3, <3>5, <3>6
  <2> QED
    BY <2>1 DEF Counted
<1>8. \A item : Visible(item) => Visible(item)'
  BY <1>3, <1>4, TimesAppend
<1>9. Ordered'
  <2> SUFFICES ASSUME tries = 0 PROVE Ordered'
    BY <1>1 DEF Ordered
  <2>1. /\ Len(shown) \in Nat /\ DOMAIN shown' = 1..(Len(shown) + 1)
        /\ \A n \in 1..Len(shown) : shown'[n] = shown[n]
        /\ shown'[Len(shown) + 1] = x /\ Len(shown') = Len(shown) + 1
    BY <1>3, <1>4
  <2>2. step # "wait" /\ step # "begin"
    BY <1>2 DEF OutInv, Ordered
  <2>3. CASE parts = <<>>
    <3>1. \A n \in DOMAIN shown' : \A a \in shown'[n] : a.part = 0
      BY <1>2, <2>1, <2>3 DEF OutInv, Ordered
    <3>2. InOrder'
      BY <3>1 DEF InOrder
    <3> QED
      BY <1>1, <1>2, <2>2, <2>3, <3>1, <3>2 DEF OutInv, Ordered
  <2>4. CASE parts # <<>>
    <3>1. adapter \in AtOnce /\ adapter \notin Sequential
      BY <1>4 DEF AtOnce, Sequential
    <3>2. shown = <<>> /\ givenUp' = {} /\ ~(step = "asking" /\ pos = 1)
      BY <1>2, <2>4, <3>1 DEF OutInv, Ordered
    <3>3. Len(shown') = 1 /\ DOMAIN shown' = {1}
      BY <2>1, <3>2
    <3>4. InOrder'
      BY <3>3 DEF InOrder
    <3> QED
      BY <1>1, <2>2, <2>4, <3>1, <3>2, <3>3, <3>4 DEF Ordered
  <2> QED
    BY <2>3, <2>4
<1>10. Done' /\ AllVisible'
  <2>1. /\ Turn(pos)' = Turn(pos) /\ Phase(pos)' = Phase(pos)
        /\ Len(TextRequests)' = Len(TextRequests) /\ \A i : Due(i)' = Due(i)
    BY <1>1 DEF Turn, Phase, Each, TextRequests, TelegramText, LineText, PlainText, Due,
                File, Caption
  <2> QED
    BY <1>1, <1>8, <2>1 DEF OutInv, Done, AllVisible
<1> QED
  BY <1>5, <1>6, <1>7, <1>9, <1>10 DEF OutInv

\* A file expires.
LEMMA ExpireInv == ASSUME OutInv, NEW i \in 1..MaxParts, Expire(i) PROVE OutInv'
<1>1. /\ step \notin Ended /\ i \in DOMAIN parts /\ adapter # "line"
      /\ UNCHANGED <<adapter, reply, holding, used, step, tries, pos, errors, shown, givenUp,
                     refused>>
  BY DEF Expire
<1>2. PICK state \in {"missing", "gone"} :
        parts' = [parts EXCEPT ![i] = PartAs(state, parts[i].image, parts[i].caption)]
  BY DEF Expire
<1>3. OutTyped
  BY DEF OutInv
<1>4. PartAs(state, parts[i].image, parts[i].caption) \in PartsOf
  <2>1. parts[i] \in PartsOf
    BY <1>1, <1>3 DEF OutTyped
  <2>2. parts[i].image \in BOOLEAN /\ parts[i].caption \in BOOLEAN
    BY <2>1, Zenon DEF PartsOf
  <2> QED
    BY <2>2 DEF PartAs, PartsOf
<1>5. /\ parts' \in Seq(PartsOf) /\ Len(parts') = Len(parts) /\ DOMAIN parts' = DOMAIN parts
      /\ parts # <<>> /\ parts' # <<>>
      /\ \A k \in DOMAIN parts : k # i => parts'[k] = parts[k]
      /\ parts'[i].ref # "ok" /\ parts'[i].image = parts[i].image
  BY <1>1, <1>2, <1>3, <1>4 DEF OutTyped, PartAs
<1>6. OutTyped'
  BY <1>1, <1>3, <1>5 DEF OutTyped, MediaKinds
<1>7. Tokens' /\ Refusal'
  BY <1>1 DEF OutInv, Tokens, TokenOnce, Refusal
<1>8. Turn(pos)' = Turn(pos) /\ Phase(pos)' = Phase(pos)
  BY <1>1 DEF Turn, Phase, Each
<1>9. Counted'
  <2>1. \A item : Ahead(pos, item)' <=> Ahead(pos, item)
    BY <1>1, <1>5, <1>8 DEF Ahead
  <2>2. \A item : Open(item)' <=> Open(item)
    BY <1>1, <2>1 DEF Open
  <2> QED
    BY <1>1, <2>2, SameShown DEF Counted, OutInv
<1>10. Ordered'
  BY <1>1, <1>5, <1>8 DEF OutInv, Ordered, InOrder
<1>11. \A k \in DOMAIN parts : Due(k)' \subseteq Due(k)
  <2> SUFFICES ASSUME NEW k \in DOMAIN parts PROVE Due(k)' \subseteq Due(k)
    OBVIOUS
  <2>1. CASE k = i
    BY <1>1, <1>5, <2>1 DEF Due, File, Caption
  <2>2. CASE k # i
    BY <1>1, <1>5, <2>2 DEF Due, File, Caption
  <2> QED
    BY <2>1, <2>2
<1>12. Done'
  <2>1. \A k \in DOMAIN parts : parts'[k].ref = "ok" => parts[k].ref = "ok"
    BY <1>5
  <2>2. \A k : File(k)' = File(k)
    BY DEF File
  <2> QED
    BY <1>1, <1>5, <1>8, <1>11, <2>1, <2>2, SameShown DEF OutInv, Done
<1>13. AllVisible'
  BY <1>1 DEF AllVisible, Ended
<1> QED
  BY <1>6, <1>7, <1>9, <1>10, <1>12, <1>13 DEF OutInv

-----------------------------------------------------------------------------
(* The worker                                                              *)

\* The next message.
LEMMA TakeInv ==
  ASSUME OutInv, NEW a, NEW ps, Take(a, ps), step \in Ended \cup {"idle"},
         ps \in Seq(PartsOf)
  PROVE  OutInv'
<1>1. /\ ps # <<>> => a \in WithMedia
      /\ adapter' = a /\ parts' = ps /\ step' = "begin"
      /\ tries' = 0 /\ errors' = 0 /\ shown' = <<>> /\ givenUp' = {} /\ refused' = 0
      /\ UNCHANGED <<reply, holding, used, pos>>
  BY DEF Take
<1>2. IsFiniteSet(givenUp')
  BY <1>1, FS_EmptySet
<1>3. OutTyped'
  BY <1>1, <1>2 DEF OutInv, OutTyped, MediaKinds, WithMedia, Sequential, AtOnce
<1>4. Tokens' /\ Refusal'
  BY <1>1 DEF OutInv, Tokens, TokenOnce, Refusal
<1>5. \A item : Times(item)' = 0 /\ Pending(item)' = 0
  <2> TAKE item
  <2>1. {n \in DOMAIN shown : item \in shown[n]}' = {} /\ {l \in givenUp : item \in l[2]}' = {}
    BY <1>1
  <2> QED
    BY <2>1, FS_EmptySet DEF Times, Pending
<1>6. Counted'
  BY <1>1, <1>5 DEF Counted
<1> QED
  BY <1>1, <1>3, <1>4, <1>6 DEF OutInv, Ordered, InOrder, Done, AllVisible

\* The adapter is called.
LEMMA CallAdapterInv ==
  ASSUME OutInv, NEW isRunning, NEW hasToken, CallAdapter(isRunning, hasToken)
  PROVE  OutInv'
<1>1. /\ step = "begin"
      /\ UNCHANGED <<adapter, parts, used, errors, givenUp, sent>> /\ shown' = shown
  BY DEF CallAdapter
<1>2. OutTyped /\ refused = 0
  BY <1>1 DEF OutInv, OutTyped, Refusal
<1>3. \A item \in Items : Times(item) + Pending(item) <= errors
  <2>1. \A item \in Items : Open(item)
    BY <1>1 DEF Open
  <2>2. errors + 0 = errors
    BY <1>2 DEF OutTyped
  <2> QED
    BY <2>1, <2>2 DEF OutInv, Counted
<1>4. Counted'
  <2>1. ASSUME NEW item \in Items
        PROVE  Times(item)' + Pending(item)' <= errors' + (IF Open(item)' THEN 0 ELSE 1)
    <3>1. Times(item) \in Nat /\ Pending(item) \in Nat /\ errors \in Nat
      BY TimesNat, PendingNat DEF OutInv, OutTyped
    <3>2. Times(item)' = Times(item) /\ Pending(item)' = Pending(item) /\ errors' = errors
      BY <1>1, SameShown
    <3> QED
      BY <1>3, <3>1, <3>2
  <2> QED
    BY <2>1 DEF Counted
<1>5. CASE ~isRunning \/ ~hasToken
  <2>1. PICK class : WorkerHears(class) /\ UNCHANGED <<pos, reply, holding>>
    BY <1>5 DEF CallAdapter
  <2>2. \/ /\ step' = "failed" /\ tries' = tries
           /\ refused' \in {refused, Len(shown') + 1}
        \/ step' = "wait" /\ tries' = tries + 1 /\ refused' = refused
    BY <2>1 DEF WorkerHears
  <2>3. OutTyped'
    BY <1>1, <1>2, <2>1, <2>2 DEF OutTyped, MediaKinds, Ended
  <2>4. Tokens' /\ Refusal'
    BY <1>1, <1>2, <2>1, <2>2 DEF OutInv, OutTyped, Tokens, TokenOnce, Refusal
  <2>5. Ordered'
    <3>1. tries' = 0 => tries = 0 /\ step' = "failed"
      BY <1>2, <2>2 DEF OutTyped
    <3> QED
      BY <1>1, <2>2, <3>1 DEF OutInv, Ordered, InOrder
  <2>6. Done' /\ AllVisible'
    BY <2>2 DEF Done, AllVisible
  <2> QED
    BY <1>4, <2>3, <2>4, <2>5, <2>6 DEF OutInv
<1>6. CASE isRunning /\ hasToken
  <2>1. /\ step' = "asking" /\ pos' = 1 /\ tries' = tries /\ refused' = refused
        /\ \/ /\ holding' = IF reply.fresh THEN reply.id ELSE 0
              /\ reply' = [id |-> 0, fresh |-> FALSE]
           \/ holding' = 0 /\ reply' = reply
    BY <1>6 DEF CallAdapter
  <2>2. /\ holding' \in {reply.id, 0} /\ (reply'.id = 0 \/ (reply' = reply /\ holding' = 0))
    BY <2>1
  <2>3. OutTyped'
    BY <1>1, <1>2, <2>1, <2>2 DEF OutTyped, MediaKinds, Ended
  <2>4. Tokens' /\ Refusal'
    BY <1>1, <1>2, <2>1, <2>2 DEF OutInv, OutTyped, Tokens, TokenOnce, Refusal
  <2>5. Turn(pos)' = 1 /\ Phase(pos)' = 1
    <3>1. Each' = Each /\ Each \in {1, 3}
      BY <1>1 DEF Each
    <3>2. (1 - 1) \div 1 = 0 /\ (1 - 1) \div 3 = 0 /\ (1 - 1) % 1 = 0 /\ (1 - 1) % 3 = 0
      OBVIOUS
    <3> QED
      BY <2>1, <3>1, <3>2 DEF Turn, Phase
  <2>6. tries = 0 => shown = <<>> /\ givenUp = {}
    BY <1>1 DEF OutInv, Ordered
  <2>7. Ordered'
    BY <1>1, <2>1, <2>6 DEF Ordered, InOrder
  <2>8. parts = <<>> => Len(TextRequests)' >= 1
    <3> SUFFICES ASSUME parts = <<>> PROVE Len(TextRequests)' \in {1, 2}
      OBVIOUS
    <3> QED
      BY DEF TextRequests, TelegramText, LineText, PlainText, AskFor, AskOnce
  <2>9. \A i \in DOMAIN parts : ~(i < 1)
    BY <1>2 DEF OutTyped
  <2>10. Done' /\ AllVisible'
    BY <1>1, <1>2, <2>1, <2>5, <2>8, <2>9 DEF Done, AllVisible
  <2> QED
    BY <1>4, <2>3, <2>4, <2>7, <2>10 DEF OutInv
<1> QED
  BY <1>5, <1>6

-----------------------------------------------------------------------------
(* A request                                                               *)

\* Where the worker is after a request.
GoesOn(ask, q, outcome) ==
  \/ /\ outcome = "ok" /\ q = pos + ask.then
     /\ step' = "asking" /\ tries' = tries /\ refused' = refused
  \/ /\ outcome # "ok" /\ ask.else # 0 /\ q = pos + ask.else
     /\ step' = "asking" /\ tries' = tries /\ refused' = refused
  \/ /\ outcome # "ok" /\ ask.else = 0 /\ q = pos
     /\ \/ step' = "failed" /\ tries' = tries /\ refused' \in {refused, Len(shown') + 1}
        \/ step' = "wait" /\ tries' = tries + 1 /\ refused' = refused

\* A request is answered.
LEMMA RequestInv ==
  ASSUME OutInv, NEW outcome \in Answers(adapter), Request(outcome)
  PROVE  OutInv'
<1>1. /\ step = "asking" /\ pos <= Len(Requests) /\ Requests[pos].can # "skip"
      /\ shown' = IF outcome \in {"ok", "lost"} THEN Append(shown, Requests[pos].shows)
                  ELSE shown
      /\ givenUp' = IF outcome = "late" THEN givenUp \cup {<<tries, Requests[pos].shows>>}
                    ELSE givenUp
      /\ used' = IF holding # 0 /\ pos = 1 THEN [used EXCEPT ![holding] = used[holding] + 1]
                 ELSE used
      /\ errors' = IF outcome = "ok" THEN errors ELSE errors + 1
      /\ UNCHANGED <<adapter, parts, reply, holding>>
  BY DEF Request
<1>2. OutTyped /\ MediaKinds /\ refused = 0
  BY <1>1 DEF OutInv, OutTyped, Refusal
<1>3. GoesOn(Requests[pos], pos', outcome)
  <2>1. CASE outcome = "ok"
    BY <1>1, <2>1 DEF Request, GoesOn
  <2>2. CASE outcome # "ok" /\ Requests[pos].else # 0
    BY <1>1, <2>2 DEF Request, GoesOn
  <2>3. CASE outcome # "ok" /\ Requests[pos].else = 0
    <3>1. PICK class : WorkerHears(class) /\ UNCHANGED pos
      BY <2>3 DEF Request
    <3> QED
      BY <2>3, <3>1 DEF WorkerHears, GoesOn
  <2> QED
    BY <2>1, <2>2, <2>3
<1> SUFFICES ASSUME NEW p, p = pos, NEW q, q = pos', NEW ask, ask = Requests[p] PROVE OutInv'
  OBVIOUS
<1>4. p \in 1..Len(Requests)
  BY <1>1, <1>2, RequestsLen DEF OutTyped
<1>5. Leads(p, p + ask.then) /\ (ask.else # 0 => Leads(p, p + ask.else))
  BY <1>1 DEF Leads
<1>6. /\ ask.shows \in SUBSET Items
      /\ \A item \in ask.shows : Ahead(p, item) /\ ~Ahead(p + ask.then, item)
      /\ \A item \in Items : Ahead(p + ask.then, item) => Ahead(p, item)
      /\ p + ask.then \in Nat \ {0, 1}
      /\ ask.else # 0 => p + ask.else \in Nat \ {0, 1}
  BY <1>1, <1>2, <1>4, <1>5, AskAhead DEF OutTyped
<1>7. /\ shown' = IF outcome \in {"ok", "lost"} THEN Append(shown, ask.shows) ELSE shown
      /\ givenUp' = IF outcome = "late" THEN givenUp \cup {<<tries, ask.shows>>} ELSE givenUp
  BY <1>1
<1>8. outcome = "late" => adapter = "discord"
  BY DEF Answers
<1>9. GoesOn(ask, q, outcome) /\ step' \in {"asking", "failed", "wait"}
  BY <1>3 DEF GoesOn
<1>10. \A item : Times(item) \in Nat /\ Pending(item) \in Nat
  BY <1>2, TimesNat, PendingNat DEF OutTyped
<1>11. ASSUME NEW item
       PROVE  /\ Times(item)' + Pending(item)' <=
                   Times(item) + Pending(item) + (IF item \in ask.shows THEN 1 ELSE 0)
              /\ Times(item)' \in Nat /\ Pending(item)' \in Nat
              /\ Visible(item) => Visible(item)'
              /\ outcome = "ok" /\ item \in ask.shows => Visible(item)'
  <2>1. CASE outcome \in {"ok", "lost"}
    <3>1. shown' = Append(shown, ask.shows) /\ givenUp' = givenUp /\ shown \in Seq(SUBSET Items)
      BY <1>2, <1>7, <2>1 DEF OutTyped
    <3>2. /\ Times(item)' = Times(item) + (IF item \in ask.shows THEN 1 ELSE 0)
          /\ Visible(item)' <=> Visible(item) \/ item \in ask.shows
      BY <1>6, <3>1, TimesAppend
    <3>3. Pending(item)' = Pending(item)
      BY <3>1 DEF Pending
    <3> QED
      BY <1>10, <3>2, <3>3
  <2>2. CASE outcome = "late"
    <3>1. shown' = shown /\ givenUp' = givenUp \cup {<<tries, ask.shows>>}
      BY <1>7, <2>2
    <3>2. /\ Pending(item)' \in Nat /\ Pending(item)' <= Pending(item) + 1
          /\ item \notin ask.shows => Pending(item)' = Pending(item)
      <4> SUFFICES ASSUME NEW l, l = <<tries, ask.shows>>
                   PROVE  /\ Pending(item)' \in Nat /\ Pending(item)' <= Pending(item) + 1
                          /\ item \notin ask.shows => Pending(item)' = Pending(item)
        OBVIOUS
      <4>1. l[2] = ask.shows
        OBVIOUS
      <4> QED
        BY <1>2, <3>1, <4>1, PendingMore DEF OutTyped
    <3>3. Times(item)' = Times(item) /\ (Visible(item)' <=> Visible(item))
      BY <3>1 DEF Times, Visible
    <3> QED
      BY <1>10, <2>2, <3>2, <3>3
  <2>3. CASE outcome \notin {"ok", "lost", "late"}
    <3>1. UNCHANGED <<shown, givenUp>>
      BY <1>7, <2>3
    <3> QED
      BY <1>10, <2>3, <3>1, SameShown
  <2> QED
    BY <2>1, <2>2, <2>3
<1>12. OutTyped'
  <2>1. shown' \in Seq(SUBSET Items)
    BY <1>2, <1>6, <1>7 DEF OutTyped
  <2>2. IsFiniteSet(givenUp') /\ \A l \in givenUp' : l[2] \in SUBSET Items
    <3>1. IsFiniteSet(givenUp) /\ \A l \in givenUp : l[2] \in SUBSET Items
      BY <1>2 DEF OutTyped
    <3>2. CASE outcome = "late"
      <4> SUFFICES ASSUME NEW g, g = <<tries, ask.shows>>
                   PROVE  IsFiniteSet(givenUp') /\ \A l \in givenUp' : l[2] \in SUBSET Items
        OBVIOUS
      <4>1. g[2] = ask.shows /\ givenUp' = givenUp \cup {g}
        BY <1>7, <3>2
      <4> QED
        BY <1>6, <3>1, <4>1, FS_AddElement
    <3>3. CASE outcome # "late"
      BY <1>7, <3>1, <3>3
    <3> QED
      BY <3>2, <3>3
  <2>3. q \in Nat \ {0}
    BY <1>2, <1>6, <1>9 DEF OutTyped, GoesOn
  <2>4. used' \in Seq(Nat) /\ Len(used') = Len(used)
    <3>1. used \in Seq(Nat) /\ holding \in 0..Len(used)
      BY <1>2 DEF OutTyped
    <3>2. CASE holding # 0 /\ p = 1
      <4>1. holding \in 1..Len(used) /\ used[holding] + 1 \in Nat
        BY <3>1, <3>2
      <4> QED
        BY <1>1, <3>1, <3>2, <4>1
    <3>3. CASE ~(holding # 0 /\ p = 1)
      BY <1>1, <3>1, <3>3
    <3> QED
      BY <3>2, <3>3
  <2>5. tries' \in Nat /\ refused' \in Nat
    BY <1>2, <1>9, <2>1 DEF OutTyped, GoesOn
  <2> QED
    <3>1. adapter' # "discord" => givenUp' = {}
      BY <1>1, <1>2, <1>7, <1>8 DEF OutTyped
    <3>2. MediaKinds' /\ parts' \in Seq(PartsOf) /\ errors' \in Nat
      BY <1>1, <1>2 DEF OutTyped, MediaKinds
    <3>3. holding' \in 0..Len(used') /\ reply'.id \in 0..Len(used')
      BY <1>1, <1>2, <2>4 DEF OutTyped
    <3>4. pos' \in Nat \ {0}
      BY <2>3
    <3> QED
      BY <1>9, <2>1, <2>2, <2>4, <2>5, <3>1, <3>2, <3>3, <3>4 DEF OutTyped, Ended
<1>13. Tokens'
  <2>1. step' = "asking" => q # 1
    BY <1>6, <1>9 DEF GoesOn
  <2>2. /\ DOMAIN used' = DOMAIN used
        /\ \A id \in DOMAIN used :
             used'[id] = IF id = holding /\ p = 1 THEN used[id] + 1 ELSE used[id]
    <3>1. used \in Seq(Nat)
      BY <1>2 DEF OutTyped
    <3>2. \A id \in DOMAIN used : id # 0
      BY <3>1
    <3>3. CASE holding # 0 /\ p = 1
      BY <1>1, <3>3
    <3>4. CASE ~(holding # 0 /\ p = 1)
      BY <1>1, <3>2, <3>4
    <3> QED
      BY <3>3, <3>4
  <2>3. used \in Seq(Nat) /\ reply.id \in 0..Len(used) /\ holding \in 0..Len(used)
    BY <1>2 DEF OutTyped
  <2>4. TokenOnce'
    BY <1>1, <2>2, <2>3 DEF OutInv, Tokens, TokenOnce
  <2> QED
    BY <1>1, <2>1, <2>2, <2>3, <2>4 DEF OutInv, Tokens
<1>14. Refusal'
  <2>1. Len(shown') \in Nat
    BY <1>12 DEF OutTyped
  <2> QED
    BY <1>1, <1>2, <1>9, <2>1 DEF Refusal, GoesOn
<1>15. Counted'
  <2> SUFFICES ASSUME NEW item \in Items
               PROVE  Times(item)' + Pending(item)' <= errors' + (IF Open(item)' THEN 0 ELSE 1)
    BY DEF Counted
  <2>1. errors \in Nat
    BY <1>2 DEF OutTyped
  <2>2. Times(item) + Pending(item) <= errors + (IF Open(item) THEN 0 ELSE 1)
    BY DEF OutInv, Counted
  <2>3. Open(item) <=> Ahead(p, item)
    BY <1>1 DEF Open
  <2>4. item \in ask.shows => Open(item)
    BY <1>6, <2>3
  <2>5. CASE outcome = "ok"
    <3>1. errors' = errors /\ step' = "asking" /\ q = p + ask.then
      BY <1>1, <1>9, <2>5 DEF GoesOn
    <3>2. Ahead(q, item)' <=> Ahead(q, item)
      BY <1>1, SameMessage
    <3>3. Open(item)' <=> Ahead(p + ask.then, item)
      BY <3>1, <3>2 DEF Open
    <3>4. item \in ask.shows => ~Open(item)'
      BY <1>6, <3>3
    <3>5. Open(item)' => Open(item)
      BY <1>6, <2>3, <3>3
    <3> QED
      BY <1>10, <1>11, <2>1, <2>2, <2>4, <3>1, <3>4, <3>5
  <2>6. CASE outcome # "ok"
    <3>1. errors' = errors + 1
      BY <1>1, <2>6
    <3> QED
      BY <1>10, <1>11, <2>1, <2>2, <2>4, <3>1
  <2> QED
    BY <2>5, <2>6
<1>16. AllVisible'
  BY <1>9 DEF AllVisible
<1>17. \A i : Due(i)' \subseteq Due(i) /\ (adapter = "wecomApp" /\ errors' > 0 => Due(i)' = {})
  <2>1. errors \in Nat /\ errors' \in Nat /\ errors' >= errors
    BY <1>1, <1>2 DEF OutTyped
  <2> SUFFICES ASSUME NEW i
               PROVE  Due(i)' \subseteq Due(i)
                      /\ (adapter = "wecomApp" /\ errors' > 0 => Due(i)' = {})
    OBVIOUS
  <2>2. CASE adapter = "line"
    BY <1>1, <2>2 DEF Due, File, Caption
  <2>3. CASE adapter = "wecomApp"
    BY <1>1, <2>1, <2>3 DEF Due, File, Caption
  <2>4. CASE adapter \notin {"line", "wecomApp"}
    BY <1>1, <2>4 DEF Due, File, Caption
  <2> QED
    BY <2>2, <2>3, <2>4
<1>18. /\ Turn(pos)' = Turn(q) /\ Phase(pos)' = Phase(q)
       /\ Len(TextRequests)' = Len(TextRequests)
  <2>1. Turn(q)' = Turn(q) /\ Phase(q)' = Phase(q) /\ Len(TextRequests)' = Len(TextRequests)
    BY <1>1, SameMessage
  <2> QED
    BY <2>1 DEF Turn, Phase
<1>19. tries' = 0 => tries = 0 /\ step' \in {"asking", "failed"}
  BY <1>2, <1>9 DEF OutTyped, GoesOn
<1>20. step' = "asking" =>
         \/ outcome = "ok" /\ q = p + ask.then
         \/ outcome # "ok" /\ ask.else # 0 /\ q = p + ask.else
  BY <1>9 DEF GoesOn
<1>21. /\ shown \in Seq(SUBSET Items) /\ Len(shown) \in Nat /\ DOMAIN shown = 1..Len(shown)
       /\ \/ shown' = shown /\ DOMAIN shown' = DOMAIN shown
          \/ /\ DOMAIN shown' = 1..(Len(shown) + 1) /\ Len(shown') = Len(shown) + 1
             /\ givenUp' = givenUp
             /\ shown'[Len(shown) + 1] = ask.shows
             /\ \A n \in DOMAIN shown : shown'[n] = shown[n]
  BY <1>2, <1>7 DEF OutTyped
<1>22. CASE parts = <<>>
  <2>1. /\ Requests = TextRequests /\ Len(Requests) \in {1, 2}
        /\ ask.shows = {Texting}
        /\ p = Len(Requests) => ask.then = 1 /\ ask.else = 0
        /\ p # Len(Requests) => ask.then = 2 /\ ask.else = 1
    BY <1>4, <1>22, TextAsk DEF Requests
  <2>2. Ordered'
    <3> SUFFICES ASSUME tries = 0, step' \in {"asking", "failed"} PROVE Ordered'
      BY <1>19 DEF Ordered
    <3>1. Texting.part = 0
      BY DEF Texting
    <3>2. /\ \A n \in DOMAIN shown : \A a \in shown[n] : a.part = 0
          /\ \A l \in givenUp : \A a \in l[2] : a.part = 0
      BY <1>22 DEF OutInv, Ordered
    <3>3. \A n \in DOMAIN shown' : \A a \in shown'[n] : a.part = 0
      BY <1>21, <2>1, <3>1, <3>2
    <3>4. \A l \in givenUp' : \A a \in l[2] : a.part = 0
      BY <1>7, <2>1, <3>1, <3>2
    <3>5. InOrder'
      BY <3>3 DEF InOrder
    <3> QED
      BY <1>1, <1>22, <3>3, <3>4, <3>5 DEF Ordered
  <2>3. Done'
    <3> SUFFICES ASSUME step' = "asking", q > Len(TextRequests) PROVE Visible(Texting)'
      BY <1>1, <1>18, <1>22 DEF Done
    <3>1. CASE outcome = "ok"
      BY <1>11, <2>1, <3>1
    <3>2. CASE outcome # "ok"
      <4>1. ask.else # 0 /\ q = p + ask.else
        BY <1>20, <3>2
      <4>2. p # Len(Requests) /\ q = p + 1
        BY <2>1, <4>1
      <4> QED
        BY <1>4, <2>1, <4>2
    <3> QED
      BY <3>1, <3>2
  <2> QED
    BY <1>12, <1>13, <1>14, <1>15, <1>16, <2>2, <2>3 DEF OutInv
<1>23. CASE parts # <<>> /\ adapter \in AtOnce
  <2>1. /\ Len(Requests) = 1 /\ Requests[1].then = 1 /\ Requests[1].else = 0
        /\ adapter \notin Sequential
    BY <1>2, <1>23, AtOnceAsk DEF OutTyped, AtOnce, Sequential
  <2>2. p = 1
    BY <1>4, <2>1
  <2>3. ask = Requests[1] /\ ask.then = 1 /\ ask.else = 0
    BY <2>1, <2>2
  <2>4. Ordered'
    <3> SUFFICES ASSUME tries = 0, step' \in {"asking", "failed"} PROVE Ordered'
      BY <1>19 DEF Ordered
    <3>1. shown = <<>> /\ givenUp = {} /\ Len(shown) = 0
      BY <1>1, <1>23, <2>2 DEF OutInv, Ordered
    <3>2. step' = "asking" => q # 1
      BY <1>6, <1>20
    <3>3. Len(shown') <= 1 /\ (shown' # <<>> => givenUp' = {}) /\ \A k, l \in givenUp' : k = l
      BY <1>7, <1>21, <3>1
    <3>4. \A m, n \in DOMAIN shown' : ~(m < n)
      BY <1>21, <3>1
    <3>5. InOrder'
      BY <3>4 DEF InOrder
    <3> QED
      BY <1>1, <1>23, <2>1, <3>2, <3>3, <3>5 DEF Ordered
  <2>5. Done'
    <3> SUFFICES ASSUME step' = "asking", NEW i \in DOMAIN parts, parts[i].ref = "ok"
                 PROVE  Visible(File(i))'
      BY <1>1, <1>23, <2>1 DEF Done, File
    <3>1. outcome = "ok"
      BY <1>20, <2>3
    <3>2. File(i) \in ask.shows
      <4>1. PICK readable : "ok" \in readable /\
              Requests[1].shows =
                {File(k) : k \in {j \in DOMAIN parts : parts[j].ref \in readable}}
        BY <1>2, <1>23, AtOnceAsk DEF OutTyped
      <4> QED
        BY <2>3, <4>1
    <3> QED
      BY <1>11, <3>1, <3>2
  <2> QED
    BY <1>12, <1>13, <1>14, <1>15, <1>16, <2>4, <2>5 DEF OutInv
<1>24. CASE parts # <<>> /\ adapter \in Sequential
  <2>1. adapter \notin AtOnce /\ parts \in Seq(PartsOf)
    BY <1>2, <1>24 DEF AtOnce, Sequential, OutTyped
  <2>2. /\ Turn(p) \in Nat /\ Turn(p) \in DOMAIN parts
        /\ \A item \in ask.shows : item.part = Turn(p)
        /\ adapter = "wecomApp" \/ ask.else = 0
    BY <1>4, <1>5, <1>24, <2>1, TurnLeads
  <2>3. step' = "asking" =>
          /\ Turn(q) \in {Turn(p), Turn(p) + 1}
          /\ \A item \in ask.shows : Turn(q) = Turn(p) + 1
          /\ adapter = "wecomApp" /\ Phase(q) = 2 =>
               q = p + ask.else /\ ask.then # ask.else
          /\ Turn(q) = Turn(p) + 1 =>
               Due(Turn(p)) \subseteq ask.shows \/ (adapter = "wecomApp" /\ Phase(p) = 2)
    <3> SUFFICES ASSUME step' = "asking", Leads(p, q)
                 PROVE  /\ Turn(q) \in {Turn(p), Turn(p) + 1}
                        /\ \A item \in ask.shows : Turn(q) = Turn(p) + 1
                        /\ adapter = "wecomApp" /\ Phase(q) = 2 =>
                             q = p + ask.else /\ ask.then # ask.else
                        /\ Turn(q) = Turn(p) + 1 =>
                             \/ Due(Turn(p)) \subseteq ask.shows
                             \/ adapter = "wecomApp" /\ Phase(p) = 2
      BY <1>5, <1>20
    <3> QED
      BY <1>1, <1>4, <1>24, <2>1, TurnLeads
  <2>4. Ordered'
    <3> SUFFICES ASSUME tries = 0, step' \in {"asking", "failed"} PROVE Ordered'
      BY <1>19 DEF Ordered
    <3>1. /\ InOrder
          /\ \A n \in DOMAIN shown : \A a \in shown[n] : a.part < Turn(p) /\ a.part \in Nat
      BY <1>1, <1>2, <1>24 DEF OutInv, Ordered, OutTyped, Items
    <3>2. InOrder'
      <4> SUFFICES ASSUME NEW m \in DOMAIN shown', NEW n \in DOMAIN shown', m < n,
                          NEW a \in shown'[m], NEW b \in shown'[n]
                   PROVE  a.part <= b.part
        BY DEF InOrder
      <4>1. CASE n \in DOMAIN shown
        <5>1. m \in DOMAIN shown
          BY <1>21, <4>1
        <5> QED
          BY <1>21, <3>1, <4>1, <5>1 DEF InOrder
      <4>2. CASE n \notin DOMAIN shown
        <5>1. /\ n = Len(shown) + 1 /\ shown'[n] = ask.shows
              /\ shown'[m] = shown[m] /\ m \in DOMAIN shown
          BY <1>21, <4>2
        <5> QED
          BY <2>2, <3>1, <5>1
      <4> QED
        BY <4>1, <4>2
    <3>3. step' = "asking" => \A n \in DOMAIN shown' : \A a \in shown'[n] : a.part < Turn(q)
      BY <1>21, <2>2, <2>3, <3>1
    <3> QED
      BY <1>1, <1>18, <1>24, <2>1, <3>2, <3>3 DEF Ordered
  <2>5. Done'
    <3> SUFFICES ASSUME step' = "asking" PROVE Done'
      BY DEF Done
    <3>1. errors \in Nat /\ (outcome # "ok" => errors' > 0)
      BY <1>1, <1>2 DEF OutTyped
    <3>2. ASSUME NEW i \in DOMAIN parts, i < Turn(q), NEW item \in Due(i)' PROVE Visible(item)'
      <4>1. item \in Due(i)
        BY <1>17, <3>2
      <4>2. CASE i < Turn(p)
        BY <1>1, <1>11, <1>24, <4>1, <4>2 DEF OutInv, Done
      <4>3. CASE ~(i < Turn(p))
        <5>1. i = Turn(p) /\ Turn(q) = Turn(p) + 1
          BY <2>1, <2>2, <2>3, <1>24, <3>2, <4>3, PartsLen
        <5>2. outcome = "ok"
          BY <1>17, <1>20, <2>2, <3>1, <3>2
        <5>3. ~(adapter = "wecomApp" /\ Phase(p) = 2)
          <6>1. adapter = "wecomApp" /\ Phase(p) = 2 => errors > 0
            BY <1>1, <1>24 DEF OutInv, Done
          <6> QED
            BY <1>1, <1>17, <3>2, <5>2, <6>1
        <5> QED
          BY <1>11, <2>3, <4>1, <5>1, <5>2, <5>3
      <4> QED
        BY <4>2, <4>3
    <3>3. adapter = "wecomApp" /\ Phase(q) = 2 => errors' > 0
      <4>1. adapter = "wecomApp" /\ Phase(q) = 2 => q = p + ask.else /\ ask.then # ask.else
        BY <2>3
      <4>2. ask.then \in Nat /\ ask.else \in Nat /\ p \in Nat
        BY <1>4, <1>24, <2>1, PlainPart, WeComPart DEF Sequential
      <4>3. adapter = "wecomApp" /\ Phase(q) = 2 => outcome # "ok"
        BY <1>20, <4>1, <4>2
      <4> QED
        BY <3>1, <4>3
    <3> QED
      BY <1>1, <1>18, <1>24, <2>1, <3>2, <3>3 DEF Done
  <2> QED
    BY <1>12, <1>13, <1>14, <1>15, <1>16, <2>4, <2>5 DEF OutInv
<1> QED
  BY <1>2, <1>22, <1>23, <1>24 DEF MediaKinds

-----------------------------------------------------------------------------
(* The theorem                                                             *)

\* Nothing happens.
LEMMA OutStutter == ASSUME OutInv, UNCHANGED outVars PROVE OutInv'
<1>1. UNCHANGED <<adapter, parts, reply, holding, used, step, tries, pos, errors, shown,
                  givenUp, refused>>
  BY DEF outVars
<1>2. OutTyped' /\ Tokens'
  BY <1>1 DEF OutInv, OutTyped, MediaKinds, Tokens, TokenOnce
<1> QED
  BY <1>1, <1>2, StillVisible DEF OutInv

\* Every step preserves the invariant.
LEMMA OutStepInv == OutInv /\ [OutNext]_outVars => OutInv'
<1> SUFFICES ASSUME OutInv, [OutNext]_outVars PROVE OutInv'
  OBVIOUS
<1>1. CASE step \in Ended \cup {"idle"} /\ TakeAny
  <2>1. PICK a, ps : Take(a, ps) /\ ps \in Seq(PartsOf)
    <3>1. CASE \E a \in OutboundAdapters, n \in 0..MaxParts : \E ps \in [1..n -> PartsOf] :
                 Take(a, ps)
      <4>1. PICK a \in OutboundAdapters, n \in 0..MaxParts : \E ps \in [1..n -> PartsOf] :
              Take(a, ps)
        BY <3>1
      <4>2. PICK ps \in [1..n -> PartsOf] : Take(a, ps)
        BY <4>1
      <4>3. n \in Nat
        BY OutboundAssumption
      <4>4. ps \in Seq(PartsOf)
        BY <4>3, LenIs
      <4> QED
        BY <4>2, <4>4
    <3>2. CASE Take("line", <<>>)
      <4>1. <<>> \in Seq(PartsOf)
        OBVIOUS
      <4> QED
        BY <3>2, <4>1
    <3> QED
      BY <1>1, <3>1, <3>2 DEF TakeAny
  <2> QED
    BY <1>1, <2>1, TakeInv
<1>2. CASE \E isRunning, hasToken \in BOOLEAN : CallAdapter(isRunning, hasToken)
  BY <1>2, CallAdapterInv
<1>3. CASE LeaveOut \/ Finish \/ Wait
  BY <1>3, LeaveOutInv, FinishInv, WaitInv
<1>4. CASE \E outcome \in Answers(adapter) : Request(outcome)
  BY <1>4, RequestInv
<1>5. CASE Land \/ MessageComes \/ TokenAges
  BY <1>5, LandInv, MessageComesInv, TokenAgesInv
<1>6. CASE \E i \in 1..MaxParts : Expire(i)
  BY <1>6, ExpireInv
<1>7. CASE UNCHANGED outVars
  BY <1>7, OutStutter
<1> QED
  BY <1>1, <1>2, <1>3, <1>4, <1>5, <1>6, <1>7 DEF OutNext

\* The invariant has what is to be shown.
LEMMA OutInvSound == OutInv => OutboundSound
<1> SUFFICES ASSUME OutInv PROVE OutboundSound
  OBVIOUS
<1>1. /\ shown \in Seq(SUBSET Items) /\ errors \in Nat
  BY DEF OutInv, OutTyped
<1>2. ShownWhenReported
  <2> SUFFICES ASSUME step = "ok",
                      NEW item \in IF parts = <<>> THEN {Texting}
                                   ELSE UNION {Due(i) : i \in DOMAIN parts}
               PROVE  Times(item) > 0
    BY DEF ShownWhenReported
  <2>1. Visible(item)
    <3>1. CASE parts = <<>>
      BY <3>1 DEF OutInv, AllVisible
    <3>2. CASE parts # <<>>
      BY <3>2 DEF OutInv, AllVisible
    <3> QED
      BY <3>1, <3>2
  <2> QED
    BY <1>1, <2>1, VisibleTimes
<1>3. RepeatsFollowErrors
  <2> SUFFICES ASSUME NEW n \in DOMAIN shown, NEW item \in shown[n]
               PROVE  Times(item) <= 1 + errors
    BY DEF RepeatsFollowErrors
  <2>1. item \in Items
    BY <1>1
  <2>2. Times(item) \in Nat /\ Pending(item) \in Nat
    BY TimesNat, PendingNat DEF OutInv, OutTyped
  <2>3. Times(item) + Pending(item) <= errors + (IF Open(item) THEN 0 ELSE 1)
    BY <2>1 DEF OutInv, Counted
  <2> QED
    BY <1>1, <2>2, <2>3
<1>4. InOrder
  BY DEF OutInv, Ordered, InOrder
<1>5. NothingAfterRefusal
  BY DEF OutInv, Refusal, NothingAfterRefusal
<1>6. TokenOnce
  BY DEF OutInv, Tokens
<1> QED
  BY <1>2, <1>3, <1>4, <1>5, <1>6 DEF OutboundSound

\* What becomes of one message on its way to a platform, for any number of parts and
\* retries, whatever answers are lost or late and whatever expires (Send and SendMedia
\* under sendWithRetry): it is shown when reported as sent, repeated only after errors,
\* in order at first, never after a refusal, and a reply token is used once.
THEOREM OutboundSoundHolds == OutSpec => []OutboundSound
<1>1. OutInit => OutInv
  BY OutInitInv
<1>2. OutInv /\ [OutNext]_outVars => OutInv'
  BY OutStepInv
<1>3. OutInv => OutboundSound
  BY OutInvSound
<1> QED
  BY <1>1, <1>2, <1>3, PTL DEF OutSpec

=============================================================================
