-------------------------- MODULE IndicatorsProofs --------------------------
(***************************************************************************)
(* What is proved of the indicators, for any set of messages, chats and    *)
(* capabilities: module Indicators is type correct, and IndicatorsAccounted*)
(* is an invariant of it.                                                  *)
(*                                                                         *)
(* Three facts about the protocol make the property inductive.  A handler  *)
(* has passed the step of a kind before its message can be in the map of   *)
(* that kind, or in the janitor's hands; it is done before its message can *)
(* be in a queue or with the worker; and the worker has ended the typing   *)
(* indicator when it comes to the reaction, and both when it comes to the  *)
(* placeholder.                                                            *)
(***************************************************************************)
EXTENDS Indicators, TLAPS

Ended == {"typing", "reaction"}

\* The steps of a handler that lie behind the one of kind k.
Past(k) == IF k = "typing" THEN {"reaction", "placeholder", "publish", "done"}
           ELSE IF k = "reaction" THEN {"placeholder", "publish", "done"}
           ELSE {"publish", "done"}

\* Message m shows no indicator of kind k but a displaced one.
Over(k, m) == m \in shown[k] => m \in lost[k]

WorkerHoldsMessage ==
  /\ worker.pc # "idle" => worker.msg \in Inbound
  /\ janitor # NoRead => janitor.kind \in Kinds /\ janitor.msg \in Inbound

TypeInv == TypeOK /\ WorkerHoldsMessage

RecordedIsPast ==
  /\ \A k \in Kinds, c \in Chats :
       entry[k][c] # Nothing => handler[entry[k][c]] \in Past(k)
  /\ janitor # NoRead => handler[janitor.msg] \in Past(janitor.kind)

QueuedIsDone ==
  /\ \A i \in 1..Len(inbox) : handler[inbox[i]] = "done"
  /\ \A i \in 1..Len(outbox) : handler[outbox[i]] = "done"
  /\ worker.pc # "idle" => handler[worker.msg] = "done"
  /\ \A m \in answered : handler[m] = "done"

WorkerEnds ==
  /\ worker.pc \in {"reaction", "placeholder"} => Over("typing", worker.msg)
  /\ worker.pc = "placeholder" => Over("reaction", worker.msg)

AnsweredIsOver == \A k \in Ended, m \in answered : Over(k, m)

LostIsDisplaced ==
  \A k \in Ended : \A m \in lost[k] :
    \E n \in Inbound \ {m} : ChatOf[n] = ChatOf[m] /\ handler[n] \in Past(k)

IndicatorsInv ==
  /\ TypeInv
  /\ RecordedIsPast
  /\ QueuedIsDone
  /\ WorkerEnds
  /\ AnsweredIsOver
  /\ ShownIsReachable
  /\ LostIsDisplaced

-----------------------------------------------------------------------------
(* Lemmas                                                                  *)

\* The handlers of the messages only go forward, and stay past what they have
\* passed: what every action does to handler.
LEMMA HandlersGoForward ==
  ASSUME TypeOK, Next
  PROVE  \A m \in Inbound, k \in Kinds :
           /\ handler[m] \in Past(k) => handler'[m] \in Past(k)
           /\ handler[m] = "done" => handler'[m] = "done"
<1>1. ASSUME NEW n \in Inbound, Handle(n)
      PROVE  /\ \E s \in Kinds \cup {"publish", "done"} :
                  handler' = [handler EXCEPT ![n] = s]
             /\ \/ handler[n] = "new"
                \/ \E k \in Kinds : handler[n] = k /\ handler'[n] = NextStep[k]
                \/ handler[n] = "publish" /\ handler'[n] = "done"
  <2>1. CASE HandleAllowed(n)
    BY <2>1 DEF HandleAllowed, TypeOK, Kinds
  <2>2. CASE HandleRefused(n)
    BY <2>2 DEF HandleRefused, TypeOK, Kinds
  <2>3. ASSUME NEW k \in Kinds, HandleIndicate(n, k) \/ HandleSkip(n, k)
        PROVE  /\ handler[n] = k
               /\ handler' = [handler EXCEPT ![n] = NextStep[k]]
               /\ handler'[n] = NextStep[k]
               /\ NextStep[k] \in Kinds \cup {"publish", "done"}
    BY <2>3 DEF HandleIndicate, HandleSkip, TypeOK, Kinds, NextStep
  <2>4. CASE HandlePublish(n)
    BY <2>4 DEF HandlePublish, TypeOK, Kinds
  <2>5. CASE HandlePublishFails(n)
    BY <2>5 DEF HandlePublishFails, TypeOK, Kinds
  <2>6. CASE \E k \in Kinds : HandleIndicate(n, k) \/ HandleSkip(n, k)
    <3>1. PICK k \in Kinds : HandleIndicate(n, k) \/ HandleSkip(n, k)
      BY <2>6
    <3>2. /\ handler[n] = k
          /\ handler' = [handler EXCEPT ![n] = NextStep[k]]
          /\ handler'[n] = NextStep[k]
          /\ NextStep[k] \in Kinds \cup {"publish", "done"}
      BY <3>1, <2>3
    <3>4. \E j \in Kinds : handler[n] = j /\ handler'[n] = NextStep[j]
      <4> WITNESS k \in Kinds
      <4> QED BY <3>2
    <3> QED BY <3>2, <3>4
  <2> QED BY <1>1, <2>1, <2>2, <2>4, <2>5, <2>6 DEF Handle
<1>2. ASSUME NEW n \in Inbound, Handle(n), NEW m \in Inbound, NEW k \in Kinds
      PROVE  /\ handler[m] \in Past(k) => handler'[m] \in Past(k)
             /\ handler[m] = "done" => handler'[m] = "done"
  <2>1. CASE m # n
    BY <1>1, <1>2, <2>1 DEF TypeOK
  <2>2. CASE m = n
    BY <1>1, <1>2, <2>2 DEF TypeOK, Past, Kinds, NextStep
  <2> QED BY <2>1, <2>2
<1>3. ASSUME ~ \E n \in Inbound : Handle(n)
      PROVE  handler' = handler
  BY <1>3 DEF Next, Agent, AgentRound, Worker, WorkerTake, PreSendEnd, PreSendEdit,
              PreSendSend, Janitor, JanitorRead, JanitorDelete, Age
<1> QED BY <1>2, <1>3

\* A message of a queue is an element of its tail or its head.
LEMMA TailElements ==
  ASSUME NEW S, NEW q \in Seq(S), q # <<>>, NEW i \in 1..Len(Tail(q))
  PROVE  i + 1 \in 1..Len(q) /\ Tail(q)[i] = q[i + 1]
  OBVIOUS

\* An element of what an agent round appends is an old one or the message it
\* replies to.
LEMMA AppendedElements ==
  ASSUME NEW S, NEW q \in Seq(S), NEW x \in S, NEW n \in Nat,
         NEW r, r = q \o [i \in 1..n |-> x]
  PROVE  /\ r \in Seq(S)
         /\ \A i \in 1..Len(r) : r[i] = x \/ (i \in 1..Len(q) /\ r[i] = q[i])
<1>0. Len(q) \in Nat
  OBVIOUS
<1>1. PICK t \in Seq(S) : Len(t) = n /\ r = q \o t /\ \A i \in 1..n : t[i] = x
  <2> DEFINE t == [i \in 1..n |-> x]
  <2>1. t \in Seq(S)
    OBVIOUS
  <2>2. Len(t) = n
    OBVIOUS
  <2> WITNESS t \in Seq(S)
  <2> QED BY <2>2
<1>2. r \in Seq(S) /\ Len(r) = Len(q) + n
  BY <1>1
<1>3. \A i \in 1..Len(q) + n : r[i] = IF i <= Len(q) THEN q[i] ELSE t[i - Len(q)]
  BY <1>1
<1>4. ASSUME NEW i \in 1..Len(q) + n
      PROVE  r[i] = x \/ (i \in 1..Len(q) /\ r[i] = q[i])
  <2>1. CASE i <= Len(q)
    <3>1. i \in 1..Len(q)
      BY <2>1, <1>0
    <3> QED BY <2>1, <3>1, <1>3
  <2>2. CASE ~ i <= Len(q)
    <3>1. i - Len(q) \in 1..n
      BY <2>2, <1>0
    <3>2. r[i] = t[i - Len(q)]
      BY <2>2, <1>3
    <3>3. t[i - Len(q)] = x
      <4> DEFINE d == i - Len(q)
      <4>1. d \in 1..n
        BY <3>1
      <4> HIDE DEF d
      <4>2. t[d] = x
        BY <4>1, <1>1
      <4> QED BY <4>2 DEF d
    <3> QED BY <3>2, <3>3
  <2> QED BY <2>1, <2>2
<1> QED BY <1>2, <1>4

-----------------------------------------------------------------------------
(* Type correctness                                                        *)

\* Every action keeps the types.
LEMMA TypeStep ==
  ASSUME TypeInv, [Next]_vars
  PROVE  TypeInv'
<1> USE IndicatorAssumption
<1> USE DEF TypeInv, TypeOK, WorkerHoldsMessage, Kinds, Nothing, NoRead
<1>0. CASE UNCHANGED vars
  BY <1>0 DEF vars
<1>1. ASSUME NEW m \in Inbound, HandleAllowed(m) PROVE TypeInv'
  BY <1>1 DEF HandleAllowed
<1>2. ASSUME NEW m \in Inbound, HandleRefused(m) PROVE TypeInv'
  BY <1>2 DEF HandleRefused
<1>3. ASSUME NEW m \in Inbound, NEW k \in Kinds, HandleIndicate(m, k) PROVE TypeInv'
  <2>1. ChatOf[m] \in Chats
    BY DEF Chats
  <2>2. handler' \in [Inbound -> Kinds \cup {"new", "publish", "done"}]
    BY <1>3 DEF HandleIndicate, NextStep
  <2>3. /\ entry' \in [Kinds -> [Chats -> Inbound \cup {Nothing}]]
        /\ \A j \in Kinds, c \in Chats :
             entry'[j][c] = IF j = k /\ c = ChatOf[m] THEN m ELSE entry[j][c]
    BY <1>3, <2>1 DEF HandleIndicate
  <2>4. shown' \in [Kinds -> SUBSET Inbound]
    BY <1>3 DEF HandleIndicate
  <2>5. entry[k][ChatOf[m]] \in Inbound \cup {Nothing}
    BY <2>1
  <2>6. lost' \in [Kinds -> SUBSET Inbound]
    BY <1>3, <2>5 DEF HandleIndicate
  <2>7. \A j \in Kinds, c \in Chats : entry'[j][c] # Nothing => ChatOf[entry'[j][c]] = c
    BY <2>3
  <2> QED BY <1>3, <2>2, <2>3, <2>4, <2>6, <2>7 DEF HandleIndicate
<1>4. ASSUME NEW m \in Inbound, NEW k \in Kinds, HandleSkip(m, k) PROVE TypeInv'
  BY <1>4 DEF HandleSkip, NextStep
<1>5. ASSUME NEW m \in Inbound, HandlePublish(m) PROVE TypeInv'
  BY <1>5 DEF HandlePublish
<1>6. ASSUME NEW m \in Inbound, HandlePublishFails(m) PROVE TypeInv'
  BY <1>6 DEF HandlePublishFails
<1>7. ASSUME NEW n \in 0..MaxReplies, AgentRound(n) PROVE TypeInv'
  <2>1. inbox' \in Seq(Inbound) /\ Head(inbox) \in Inbound
    BY <1>7 DEF AgentRound
  <2>2. outbox' \in Seq(Inbound)
    BY <1>7, <2>1, AppendedElements DEF AgentRound
  <2> QED BY <1>7, <2>1, <2>2 DEF AgentRound
<1>8. CASE WorkerTake
  BY <1>8 DEF WorkerTake
<1>9. ASSUME NEW k \in Kinds, PreSendEnd(k) PROVE TypeInv'
  <2>1. worker.msg \in Inbound /\ ChatOf[worker.msg] \in Chats
    BY <1>9 DEF PreSendEnd, Chats
  <2>2. shown' \in [Kinds -> SUBSET Inbound]
    BY <1>9 DEF PreSendEnd
  <2>3. /\ entry' \in [Kinds -> [Chats -> Inbound \cup {Nothing}]]
        /\ \A j \in Kinds, c \in Chats : entry'[j][c] \in {entry[j][c], Nothing}
    BY <1>9, <2>1 DEF PreSendEnd
  <2>4. worker' \in [pc : Kinds \cup {"idle"}, msg : Inbound \cup {Nothing}]
        /\ worker'.msg = worker.msg
    <3>1. NextStep[k] \in Kinds
      BY <1>9 DEF PreSendEnd, NextStep
    <3>2. worker' = [worker EXCEPT !.pc = NextStep[k]]
      BY <1>9 DEF PreSendEnd
    <3> QED BY <3>1, <3>2
  <2> QED BY <1>9, <2>1, <2>2, <2>3, <2>4 DEF PreSendEnd
<1>10. CASE PreSendEdit
  <2>1. worker.msg \in Inbound /\ ChatOf[worker.msg] \in Chats
    BY <1>10 DEF PreSendEdit, Chats
  <2>2. shown' \in [Kinds -> SUBSET Inbound]
    BY <1>10 DEF PreSendEdit
  <2>3. /\ entry' \in [Kinds -> [Chats -> Inbound \cup {Nothing}]]
        /\ \A j \in Kinds, c \in Chats : entry'[j][c] \in {entry[j][c], Nothing}
    BY <1>10, <2>1 DEF PreSendEdit
  <2>5. /\ worker' = [pc |-> "idle", msg |-> Nothing]
        /\ answered' \subseteq Inbound
        /\ worker' \in [pc : Kinds \cup {"idle"}, msg : Inbound \cup {Nothing}]
    BY <1>10, <2>1 DEF PreSendEdit
  <2> QED BY <1>10, <2>2, <2>3, <2>5 DEF PreSendEdit
<1>11. CASE PreSendSend
  <2>1. worker.msg \in Inbound /\ ChatOf[worker.msg] \in Chats
    BY <1>11 DEF PreSendSend, Chats
  <2>2. entry["placeholder"][ChatOf[worker.msg]] \in Inbound \cup {Nothing}
    BY <2>1
  <2>3. lost' \in [Kinds -> SUBSET Inbound]
    BY <1>11, <2>2 DEF PreSendSend
  <2>4. /\ entry' \in [Kinds -> [Chats -> Inbound \cup {Nothing}]]
        /\ \A j \in Kinds, c \in Chats : entry'[j][c] \in {entry[j][c], Nothing}
    BY <1>11, <2>1 DEF PreSendSend
  <2>5. /\ worker' = [pc |-> "idle", msg |-> Nothing]
        /\ answered' \subseteq Inbound
        /\ worker' \in [pc : Kinds \cup {"idle"}, msg : Inbound \cup {Nothing}]
    BY <1>11, <2>1 DEF PreSendSend
  <2> QED BY <1>11, <2>3, <2>4, <2>5 DEF PreSendSend
<1>12. ASSUME NEW k \in Kinds, NEW c \in Chats, JanitorRead(k, c) PROVE TypeInv'
  BY <1>12 DEF JanitorRead
<1>13. CASE JanitorDelete
  <2>1. /\ janitor.kind \in Kinds
        /\ janitor.msg \in Inbound
        /\ ChatOf[janitor.msg] \in Chats
    BY <1>13 DEF JanitorDelete, Chats
  <2>2. entry[janitor.kind][ChatOf[janitor.msg]] \in Inbound \cup {Nothing}
    BY <2>1
  <2>3. lost' \in [Kinds -> SUBSET Inbound] /\ shown' \in [Kinds -> SUBSET Inbound]
    BY <1>13, <2>1, <2>2 DEF JanitorDelete
  <2>4. /\ entry' \in [Kinds -> [Chats -> Inbound \cup {Nothing}]]
        /\ \A j \in Kinds, c \in Chats : entry'[j][c] \in {entry[j][c], Nothing}
    BY <1>13, <2>1 DEF JanitorDelete
  <2> QED BY <1>13, <2>3, <2>4 DEF JanitorDelete
<1>14. ASSUME NEW k \in Kinds, NEW c \in Chats, Age(k, c) PROVE TypeInv'
  <2>1. entry[k][c] \in Inbound
    BY <1>14 DEF Age
  <2>2. expired' \in [Kinds -> SUBSET Inbound]
    BY <1>14, <2>1 DEF Age
  <2> QED BY <1>14, <2>2 DEF Age
<1> QED
  BY <1>0, <1>1, <1>2, <1>3, <1>4, <1>5, <1>6, <1>7, <1>8, <1>9, <1>10, <1>11, <1>12,
     <1>13, <1>14 DEF Next, Handle, Agent, Worker, Janitor

\* Every variable of the indicators keeps its type, and an entry of the map of
\* a chat is that of a message of the chat.
THEOREM TypeCorrect == Spec => []TypeOK
<1>1. Init => TypeInv
  BY IndicatorAssumption
  DEF Init, TypeInv, TypeOK, WorkerHoldsMessage, Kinds, Nothing, NoRead
<1>2. TypeInv /\ [Next]_vars => TypeInv'
  BY TypeStep
<1>3. TypeInv => TypeOK
  BY DEF TypeInv
<1> QED BY <1>1, <1>2, <1>3, PTL DEF Spec

-----------------------------------------------------------------------------
(* IndicatorsAccounted                                                     *)

\* Only a handler puts an entry into a map; every other step removes it or
\* leaves it.
LEMMA EntriesComeFromHandlers ==
  ASSUME TypeInv, Next, NEW k \in Kinds, NEW c \in Chats,
         entry'[k][c] # entry[k][c], entry'[k][c] # Nothing
  PROVE  \E m \in Inbound, j \in Kinds : HandleIndicate(m, j)
<1> USE DEF TypeInv, TypeOK, WorkerHoldsMessage
<1> SUFFICES ASSUME ~ \E m \in Inbound, j \in Kinds : HandleIndicate(m, j)
             PROVE  entry'[k][c] \in {entry[k][c], Nothing}
  OBVIOUS
<1>1. ASSUME NEW j \in Kinds, PreSendEnd(j) PROVE entry'[k][c] \in {entry[k][c], Nothing}
  BY <1>1 DEF PreSendEnd
<1>2. CASE PreSendEdit
  BY <1>2 DEF PreSendEdit
<1>3. CASE PreSendSend
  BY <1>3 DEF PreSendSend
<1>4. CASE JanitorDelete
  BY <1>4 DEF JanitorDelete
<1>5. CASE entry' = entry
  BY <1>5
<1>6. ASSUME \/ \E m \in Inbound :
                  \/ HandleAllowed(m) \/ HandleRefused(m) \/ HandlePublish(m)
                  \/ HandlePublishFails(m) \/ \E j \in Kinds : HandleSkip(m, j)
             \/ Agent \/ WorkerTake
             \/ \E j \in Kinds, d \in Chats : Age(j, d) \/ JanitorRead(j, d)
      PROVE  entry' = entry
  BY <1>6 DEF HandleAllowed, HandleRefused, HandlePublish, HandlePublishFails, HandleSkip,
              Agent, AgentRound, WorkerTake, Age, JanitorRead
<1> QED BY <1>1, <1>2, <1>3, <1>4, <1>5, <1>6 DEF Next, Handle, Worker, Janitor

\* Whose entry is in a map, or was read by the janitor, has a handler past the
\* step of the map's kind.
LEMMA RecordedStep ==
  ASSUME IndicatorsInv, TypeInv', [Next]_vars
  PROVE  RecordedIsPast'
<1> USE IndicatorAssumption
<1>1. CASE UNCHANGED vars
  BY <1>1 DEF vars, IndicatorsInv, RecordedIsPast, NoRead
<1>2. CASE Next
  <2>0. \A m \in Inbound, k \in Kinds : handler[m] \in Past(k) => handler'[m] \in Past(k)
    BY <1>2, HandlersGoForward DEF IndicatorsInv, TypeInv
  <2>1. ASSUME NEW k \in Kinds, NEW c \in Chats, entry'[k][c] # Nothing
        PROVE  handler'[entry'[k][c]] \in Past(k)
    <3>0. entry'[k][c] \in Inbound
      BY <2>1 DEF TypeInv, TypeOK, Nothing
    <3>1. CASE entry'[k][c] = entry[k][c]
      BY <3>0, <3>1, <2>0, <2>1 DEF IndicatorsInv, RecordedIsPast
    <3>2. CASE entry'[k][c] # entry[k][c]
      <4>1. PICK m \in Inbound, j \in Kinds : HandleIndicate(m, j)
        BY <1>2, <2>1, <3>2, EntriesComeFromHandlers DEF IndicatorsInv
      <4>2. entry'[k][c] = m /\ j = k
        BY <4>1, <3>2 DEF HandleIndicate, IndicatorsInv, TypeInv, TypeOK
      <4>3. handler'[m] = NextStep[k]
        BY <4>1, <4>2 DEF HandleIndicate, IndicatorsInv, TypeInv, TypeOK
      <4> QED BY <4>2, <4>3 DEF NextStep, Past, Kinds
    <3> QED BY <3>1, <3>2
  <2>2. ASSUME janitor' # NoRead
        PROVE  handler'[janitor'.msg] \in Past(janitor'.kind)
    <3>1. CASE janitor' = janitor
      BY <3>1, <2>2, <2>0 DEF IndicatorsInv, TypeInv, WorkerHoldsMessage, RecordedIsPast
    <3>2. CASE janitor' # janitor
      <4>1. PICK k \in Kinds, c \in Chats : JanitorRead(k, c)
        BY <1>2, <2>2, <3>2
        DEF Next, Handle, HandleAllowed, HandleRefused, HandleIndicate, HandleSkip,
            HandlePublish, HandlePublishFails, Agent, AgentRound, Worker, WorkerTake,
            PreSendEnd, PreSendEdit, PreSendSend, Janitor, JanitorDelete, Age
      <4>2. /\ janitor'.kind = k
            /\ janitor'.msg = entry[k][c]
            /\ entry[k][c] \in Inbound
            /\ handler' = handler
        BY <4>1 DEF JanitorRead, IndicatorsInv, TypeInv, TypeOK
      <4> QED BY <4>2 DEF IndicatorsInv, RecordedIsPast, Nothing
    <3> QED BY <3>1, <3>2
  <2> QED BY <2>1, <2>2 DEF RecordedIsPast
<1> QED BY <1>1, <1>2

\* The handler of a message in a queue, with the worker or answered is done.
LEMMA QueuedStep ==
  ASSUME IndicatorsInv, [Next]_vars
  PROVE  QueuedIsDone'
<1> USE DEF IndicatorsInv, TypeInv, TypeOK, WorkerHoldsMessage, QueuedIsDone
<1>0. CASE UNCHANGED vars
  BY <1>0 DEF vars
<1> SUFFICES ASSUME Next PROVE QueuedIsDone'
  BY <1>0
<1>1. \A m \in Inbound : handler[m] = "done" => handler'[m] = "done"
  BY HandlersGoForward DEF Kinds
<1>2. CASE UNCHANGED <<inbox, outbox, worker, answered>>
  <2>1. \A i \in 1..Len(inbox) : inbox[i] \in Inbound
    OBVIOUS
  <2>2. \A i \in 1..Len(outbox) : outbox[i] \in Inbound
    OBVIOUS
  <2> QED BY <1>1, <1>2, <2>1, <2>2
<1>3. ASSUME NEW m \in Inbound, HandlePublish(m) PROVE QueuedIsDone'
  <2>1. /\ inbox' = Append(inbox, m)
        /\ handler'[m] = "done"
        /\ UNCHANGED <<outbox, worker, answered>>
    BY <1>3 DEF HandlePublish
  <2>2. \A i \in 1..Len(inbox') : inbox'[i] \in Inbound /\ handler'[inbox'[i]] = "done"
    BY <2>1, <1>1
  <2>3. \A i \in 1..Len(outbox) : outbox[i] \in Inbound
    OBVIOUS
  <2> QED BY <2>1, <2>2, <2>3, <1>1
<1>4. ASSUME NEW n \in 0..MaxReplies, AgentRound(n) PROVE QueuedIsDone'
  <2> USE IndicatorAssumption
  <2>1. /\ inbox # <<>>
        /\ inbox' = Tail(inbox)
        /\ outbox' = outbox \o [i \in 1..n |-> Head(inbox)]
        /\ UNCHANGED <<handler, worker, answered>>
    BY <1>4 DEF AgentRound
  <2>2. Head(inbox) \in Inbound /\ handler[Head(inbox)] = "done"
    BY <2>1
  <2>3. \A i \in 1..Len(inbox') : handler[inbox'[i]] = "done"
    BY <2>1, TailElements
  <2>4. \A i \in 1..Len(outbox') :
          \/ outbox'[i] = Head(inbox)
          \/ i \in 1..Len(outbox) /\ outbox'[i] = outbox[i]
    <3>1. n \in Nat
      OBVIOUS
    <3>2. outbox \in Seq(Inbound)
      OBVIOUS
    <3> DEFINE r == outbox \o [i \in 1..n |-> Head(inbox)]
    <3>3. \A i \in 1..Len(r) : r[i] = Head(inbox) \/ (i \in 1..Len(outbox) /\ r[i] = outbox[i])
      <4> QED BY <2>2, <3>1, <3>2, AppendedElements
    <3> QED BY <2>1, <3>3
  <2>5. \A i \in 1..Len(outbox') : handler[outbox'[i]] = "done"
    BY <2>2, <2>4
  <2> QED BY <2>1, <2>3, <2>5
<1>5. CASE WorkerTake
  <2>1. /\ outbox # <<>>
        /\ outbox' = Tail(outbox)
        /\ worker'.msg = Head(outbox)
        /\ UNCHANGED <<handler, inbox, answered>>
    BY <1>5 DEF WorkerTake
  <2>2. handler[Head(outbox)] = "done"
    BY <2>1
  <2>3. \A i \in 1..Len(outbox') : handler[outbox'[i]] = "done"
    BY <2>1, TailElements
  <2> QED BY <2>1, <2>2, <2>3
<1>6. ASSUME NEW k \in Kinds, PreSendEnd(k) PROVE QueuedIsDone'
  BY <1>6 DEF PreSendEnd, NextStep
<1>7. CASE PreSendEdit
  BY <1>7 DEF PreSendEdit
<1>8. CASE PreSendSend
  BY <1>8 DEF PreSendSend
<1>9. ASSUME \/ \E m \in Inbound :
                  \/ HandleAllowed(m) \/ HandleRefused(m) \/ HandlePublishFails(m)
                  \/ \E k \in Kinds : HandleIndicate(m, k) \/ HandleSkip(m, k)
             \/ \E k \in Kinds, c \in Chats : Age(k, c) \/ JanitorRead(k, c)
             \/ JanitorDelete
      PROVE  UNCHANGED <<inbox, outbox, worker, answered>>
  BY <1>9 DEF HandleAllowed, HandleRefused, HandlePublishFails, HandleIndicate, HandleSkip,
              Age, JanitorRead, JanitorDelete
<1> QED
  BY <1>2, <1>3, <1>4, <1>5, <1>6, <1>7, <1>8, <1>9 DEF Next, Handle, Agent, Worker, Janitor

\* No step shows the indicators of a message whose handler is done, and none
\* forgets that one was lost.
LEMMA OverStays ==
  ASSUME IndicatorsInv, Next, NEW k \in Ended, NEW m \in Inbound,
         handler[m] = "done", Over(k, m)
  PROVE  Over(k, m)'
<1> USE DEF IndicatorsInv, TypeInv, TypeOK, WorkerHoldsMessage, Ended, Kinds, Over
<1>1. ASSUME NEW n \in Inbound, NEW j \in Kinds, HandleIndicate(n, j) PROVE Over(k, m)'
  <2>1. n # m \/ j # k
    BY <1>1 DEF HandleIndicate
  <2> QED BY <1>1, <2>1 DEF HandleIndicate
<1>2. ASSUME NEW j \in Kinds, PreSendEnd(j) PROVE Over(k, m)'
  BY <1>2 DEF PreSendEnd
<1>3. CASE PreSendEdit
  BY <1>3 DEF PreSendEdit
<1>4. CASE PreSendSend
  BY <1>4 DEF PreSendSend
<1>5. CASE JanitorDelete
  BY <1>5 DEF JanitorDelete
<1>6. ASSUME \/ \E n \in Inbound :
                  \/ HandleAllowed(n) \/ HandleRefused(n) \/ HandlePublish(n)
                  \/ HandlePublishFails(n) \/ \E j \in Kinds : HandleSkip(n, j)
             \/ Agent \/ WorkerTake
             \/ \E j \in Kinds, c \in Chats : Age(j, c) \/ JanitorRead(j, c)
      PROVE  UNCHANGED <<shown, lost>>
  BY <1>6 DEF HandleAllowed, HandleRefused, HandlePublish, HandlePublishFails, HandleSkip,
              Agent, AgentRound, WorkerTake, Age, JanitorRead
<1>7. UNCHANGED <<shown, lost>> => Over(k, m)'
  OBVIOUS
<1> QED BY <1>1, <1>2, <1>3, <1>4, <1>5, <1>6, <1>7 DEF Next, Handle, Worker, Janitor

\* Only the worker answers, and only when it has ended both kinds.
LEMMA AnsweredStep ==
  ASSUME IndicatorsInv, [Next]_vars
  PROVE  AnsweredIsOver'
<1>0. CASE UNCHANGED vars
  BY <1>0 DEF vars, IndicatorsInv, AnsweredIsOver, Over
<1>1. CASE Next
  <2> SUFFICES ASSUME NEW k \in Ended, NEW m \in answered' PROVE Over(k, m)'
    BY DEF AnsweredIsOver
  <2>1. CASE m \in answered
    BY <1>1, <2>1, OverStays
    DEF IndicatorsInv, TypeInv, TypeOK, QueuedIsDone, AnsweredIsOver
  <2>2. CASE m \notin answered
    <3>1. PreSendEdit \/ PreSendSend
      BY <1>1, <2>2
      DEF Next, Handle, HandleAllowed, HandleRefused, HandleIndicate, HandleSkip,
          HandlePublish, HandlePublishFails, Agent, AgentRound, Worker, WorkerTake,
          PreSendEnd, Janitor, JanitorRead, JanitorDelete, Age
    <3>2. m = worker.msg /\ worker.pc = "placeholder"
      BY <3>1, <2>2 DEF PreSendEdit, PreSendSend
    <3>3. m \in Inbound /\ handler[m] = "done" /\ Over(k, m)
      BY <3>2 DEF IndicatorsInv, TypeInv, WorkerHoldsMessage, QueuedIsDone, WorkerEnds, Ended
    <3> QED BY <1>1, <3>3, OverStays
  <2> QED BY <2>1, <2>2
<1> QED BY <1>0, <1>1


\* The worker ends the reachable indicator of its chat, which is its message's own
\* if that one still shows.
LEMMA WorkerStep ==
  ASSUME IndicatorsInv, TypeInv', [Next]_vars
  PROVE  WorkerEnds'
<1>0. CASE UNCHANGED vars
  BY <1>0 DEF vars, IndicatorsInv, WorkerEnds, Over
<1> SUFFICES ASSUME Next PROVE WorkerEnds'
  BY <1>0
<1>1. PICK m : m = worker.msg
  OBVIOUS
<1>2. worker.pc # "idle" => m \in Inbound /\ handler[m] = "done"
  BY <1>1 DEF IndicatorsInv, TypeInv, WorkerHoldsMessage, QueuedIsDone
<1>3. \A k \in Ended : worker.pc # "idle" /\ Over(k, m) => Over(k, m)'
  BY <1>2, OverStays
<1>4. CASE worker' = worker
  BY <1>1, <1>3, <1>4 DEF IndicatorsInv, WorkerEnds, Ended, Over
<1>5. CASE WorkerTake \/ PreSendEdit \/ PreSendSend
  <2>1. worker'.pc \in {"typing", "idle"}
    BY <1>5 DEF WorkerTake, PreSendEdit, PreSendSend
  <2> QED BY <2>1 DEF WorkerEnds
<1>6. ASSUME NEW k \in Kinds, PreSendEnd(k) PROVE WorkerEnds'
  <2>1. /\ k \in Ended
        /\ worker.pc = k
        /\ worker'.pc = NextStep[k]
        /\ worker'.msg = m
    BY <1>1, <1>6 DEF PreSendEnd, Ended, IndicatorsInv, TypeInv, TypeOK
  <2>2. m \in Inbound
    BY <1>2, <2>1 DEF Ended
  <2>3. Over(k, m)'
    <3>1. /\ shown' = [shown EXCEPT ![k] = @ \ {entry[k][ChatOf[m]]}]
          /\ lost' = lost
      BY <1>1, <1>6 DEF PreSendEnd
    <3>2. shown'[k] = shown[k] \ {entry[k][ChatOf[m]]}
      BY <3>1 DEF IndicatorsInv, TypeInv, TypeOK
    <3>3. m \in shown[k] => m \in lost[k] \/ entry[k][ChatOf[m]] = m
      BY <2>1 DEF IndicatorsInv, ShownIsReachable, Ended
    <3> QED BY <3>1, <3>2, <3>3 DEF Over
  <2>4. CASE k = "typing"
    BY <2>1, <2>3, <2>4 DEF WorkerEnds, Over, NextStep
  <2>5. CASE k = "reaction"
    <3>1. Over("typing", m)
      BY <1>1, <2>1, <2>5 DEF IndicatorsInv, WorkerEnds, Over
    <3>2. Over("typing", m)'
      BY <1>3, <2>1, <2>5, <3>1 DEF Ended
    <3> QED BY <2>1, <2>3, <2>5, <3>2 DEF WorkerEnds, Over, NextStep
  <2> QED BY <2>1, <2>4, <2>5 DEF Ended
<1>7. ASSUME \/ \E n \in Inbound : Handle(n)
             \/ Agent \/ Janitor
             \/ \E k \in Kinds, c \in Chats : Age(k, c)
      PROVE  worker' = worker
  BY <1>7 DEF Handle, HandleAllowed, HandleRefused, HandleIndicate, HandleSkip,
              HandlePublish, HandlePublishFails, Agent, AgentRound, Janitor, JanitorRead,
              JanitorDelete, Age
<1> QED BY <1>4, <1>5, <1>6, <1>7 DEF Next, Worker

\* What takes an entry away ends its indicator or counts it as lost.
LEMMA ShownStep ==
  ASSUME IndicatorsInv, [Next]_vars
  PROVE  ShownIsReachable'
<1> USE DEF IndicatorsInv, TypeInv, TypeOK, WorkerHoldsMessage, ShownIsReachable, Kinds
<1>0. CASE UNCHANGED vars
  BY <1>0 DEF vars
<1>1. ASSUME NEW n \in Inbound, NEW j \in Kinds, HandleIndicate(n, j)
      PROVE  ShownIsReachable'
  <2> SUFFICES ASSUME NEW k \in {"typing", "reaction"}, NEW m \in shown'[k]
               PROVE  entry'[k][ChatOf[m]] = m \/ m \in lost'[k]
    OBVIOUS
  <2>0. ChatOf[n] \in Chats
    BY DEF Chats
  <2>1. CASE j = k
    <3>1. /\ shown'[k] = shown[k] \cup {n}
          /\ entry'[k] = [entry[k] EXCEPT ![ChatOf[n]] = n]
          /\ lost'[k] = lost[k] \cup ({entry[k][ChatOf[n]]} \ {Nothing})
      BY <1>1, <2>1 DEF HandleIndicate
    <3>2. CASE m = n
      BY <3>1, <3>2, <2>0
    <3>3. CASE m # n
      <4>1. m \in Inbound /\ m # Nothing /\ ChatOf[m] \in Chats
        BY <3>1, <3>3, IndicatorAssumption DEF Chats, Nothing
      <4>2. entry[k][ChatOf[m]] = m \/ m \in lost[k]
        BY <3>1, <3>3
      <4>3. CASE ChatOf[m] = ChatOf[n]
        BY <3>1, <4>1, <4>2, <4>3
      <4>4. CASE ChatOf[m] # ChatOf[n]
        BY <3>1, <4>1, <4>2, <4>4
      <4> QED BY <4>3, <4>4
    <3> QED BY <3>2, <3>3
  <2>2. CASE j # k
    BY <1>1, <2>2 DEF HandleIndicate
  <2> QED BY <2>1, <2>2
<1>2. ASSUME NEW j \in Kinds, PreSendEnd(j) PROVE ShownIsReachable'
  BY <1>2, IndicatorAssumption DEF PreSendEnd, Chats, Nothing
<1>3. CASE PreSendEdit
  BY <1>3 DEF PreSendEdit
<1>4. CASE PreSendSend
  BY <1>4 DEF PreSendSend
<1>5. CASE JanitorDelete
  <2> SUFFICES ASSUME NEW k \in {"typing", "reaction"}, NEW m \in shown'[k]
               PROVE  entry'[k][ChatOf[m]] = m \/ m \in lost'[k]
    OBVIOUS
  <2> DEFINE there == entry[janitor.kind][ChatOf[janitor.msg]]
  <2>0. /\ shown'[k] \subseteq shown[k]
        /\ lost[k] \subseteq lost'[k]
        /\ ChatOf[janitor.msg] \in Chats
        /\ m \in Inbound /\ m # Nothing
    <3>1. janitor.kind \in Kinds /\ ChatOf[janitor.msg] \in Chats
      BY <1>5 DEF JanitorDelete, Chats
    <3>2. shown'[k] \subseteq shown[k] /\ lost[k] \subseteq lost'[k]
      BY <1>5, <3>1 DEF JanitorDelete
    <3> QED BY <3>1, <3>2, IndicatorAssumption DEF Nothing
  <2>1. entry[k][ChatOf[m]] = m \/ m \in lost[k]
    BY <2>0
  <2>2. CASE janitor.kind = k /\ m = there
    <3>1. m # janitor.msg
      BY <1>5, <2>0, <2>2 DEF JanitorDelete
    <3>2. m \in lost'[k]
      BY <1>5, <2>0, <2>2, <3>1 DEF JanitorDelete
    <3> QED BY <3>2
  <2>3. CASE ~ (janitor.kind = k /\ m = there)
    <3>1. entry[k][ChatOf[m]] = m => entry'[k][ChatOf[m]] = m
      BY <1>5, <2>3 DEF JanitorDelete
    <3> QED BY <2>0, <2>1, <3>1
  <2> QED BY <2>2, <2>3
<1>6. ASSUME \/ \E n \in Inbound :
                  \/ HandleAllowed(n) \/ HandleRefused(n) \/ HandlePublish(n)
                  \/ HandlePublishFails(n) \/ \E j \in Kinds : HandleSkip(n, j)
             \/ Agent \/ WorkerTake
             \/ \E j \in Kinds, c \in Chats : Age(j, c) \/ JanitorRead(j, c)
      PROVE  UNCHANGED <<shown, entry, lost>>
  BY <1>6 DEF HandleAllowed, HandleRefused, HandlePublish, HandlePublishFails, HandleSkip,
              Agent, AgentRound, WorkerTake, Age, JanitorRead
<1>7. UNCHANGED <<shown, entry, lost>> => ShownIsReachable'
  OBVIOUS
<1> QED BY <1>0, <1>1, <1>2, <1>3, <1>4, <1>5, <1>6, <1>7 DEF Next, Handle, Worker, Janitor

\* What displaces an entry is the handler of another message of the chat, or the
\* janitor on behalf of one.
LEMMA LostStep ==
  ASSUME IndicatorsInv, [Next]_vars
  PROVE  LostIsDisplaced'
<1> USE IndicatorAssumption
<1>0. CASE UNCHANGED vars
  BY <1>0 DEF vars, IndicatorsInv, LostIsDisplaced
<1> SUFFICES ASSUME Next, NEW k \in Ended, NEW m \in lost'[k]
             PROVE  \E n \in Inbound \ {m} : ChatOf[n] = ChatOf[m] /\ handler'[n] \in Past(k)
  BY <1>0 DEF LostIsDisplaced
<1>1. \A n \in Inbound : handler[n] \in Past(k) => handler'[n] \in Past(k)
  BY HandlersGoForward DEF IndicatorsInv, TypeInv, Ended, Kinds
<1>2. CASE m \in lost[k]
  BY <1>1, <1>2 DEF IndicatorsInv, LostIsDisplaced
<1>3. CASE m \notin lost[k]
  <2> USE DEF IndicatorsInv, TypeInv, TypeOK, WorkerHoldsMessage, Ended, Kinds
  <2>1. ASSUME NEW n \in Inbound, NEW j \in Kinds, HandleIndicate(n, j)
        PROVE  ChatOf[n] = ChatOf[m] /\ n # m /\ handler'[n] \in Past(k)
    <3>1. j = k /\ m = entry[k][ChatOf[n]] /\ m # Nothing
      BY <1>3, <2>1 DEF HandleIndicate
    <3>2. ChatOf[n] \in Chats
      BY DEF Chats
    <3>3. ChatOf[m] = ChatOf[n] /\ handler[m] \in Past(k)
      BY <3>1, <3>2 DEF RecordedIsPast
    <3>4. handler[n] = k /\ handler'[n] = NextStep[k]
      BY <2>1, <3>1 DEF HandleIndicate
    <3>5. k \notin Past(k) /\ NextStep[k] \in Past(k)
      BY DEF Past, NextStep
    <3> QED BY <3>3, <3>4, <3>5
  <2>2. CASE JanitorDelete
    <3> DEFINE n == janitor.msg
    <3>1. /\ janitor # NoRead
          /\ n \in Inbound
          /\ ChatOf[n] \in Chats
      BY <2>2 DEF JanitorDelete, Chats
    <3>2. janitor.kind = k /\ m = entry[k][ChatOf[n]] /\ m # Nothing /\ m # n
      BY <1>3, <2>2, <3>1 DEF JanitorDelete, Nothing
    <3>3. ChatOf[m] = ChatOf[n]
      BY <3>1, <3>2
    <3>4. handler'[n] \in Past(k)
      BY <1>1, <3>1, <3>2 DEF RecordedIsPast
    <3> QED BY <3>1, <3>2, <3>3, <3>4
  <2>3. CASE PreSendSend
    BY <1>3, <2>3 DEF PreSendSend
  <2>4. ASSUME \/ \E n \in Inbound :
                    \/ HandleAllowed(n) \/ HandleRefused(n) \/ HandlePublish(n)
                    \/ HandlePublishFails(n) \/ \E j \in Kinds : HandleSkip(n, j)
               \/ Agent \/ WorkerTake \/ PreSendEdit \/ \E j \in Kinds : PreSendEnd(j)
               \/ \E j \in Kinds, c \in Chats : Age(j, c) \/ JanitorRead(j, c)
        PROVE  lost' = lost
    BY <2>4 DEF HandleAllowed, HandleRefused, HandlePublish, HandlePublishFails, HandleSkip,
                Agent, AgentRound, WorkerTake, PreSendEdit, PreSendEnd, Age, JanitorRead
  <2> QED BY <1>3, <2>1, <2>2, <2>3, <2>4 DEF Next, Handle, Worker, Janitor
<1> QED BY <1>2, <1>3

\* An indicator that is shown is in the map of its chat or was displaced by a
\* second message of the chat, and the first reply to a message ends what the
\* message shows: whatever the handlers, the agent, the worker and the janitor
\* do, and however their steps mix.
THEOREM Accounted == Spec => []IndicatorsAccounted
<1>1. Init => IndicatorsInv
  <2> SUFFICES ASSUME Init PROVE IndicatorsInv
    OBVIOUS
  <2>1. TypeInv
    BY IndicatorAssumption
    DEF Init, TypeInv, TypeOK, WorkerHoldsMessage, Kinds, Nothing, NoRead
  <2>2. RecordedIsPast /\ QueuedIsDone /\ WorkerEnds /\ AnsweredIsOver
    BY DEF Init, RecordedIsPast, QueuedIsDone, WorkerEnds, AnsweredIsOver, Ended, Over, Kinds
  <2>3. ShownIsReachable /\ LostIsDisplaced
    BY DEF Init, ShownIsReachable, LostIsDisplaced, Ended, Kinds
  <2> QED BY <2>1, <2>2, <2>3 DEF IndicatorsInv
<1>2. IndicatorsInv /\ [Next]_vars => IndicatorsInv'
  <2> SUFFICES ASSUME IndicatorsInv, [Next]_vars PROVE IndicatorsInv'
    OBVIOUS
  <2>1. TypeInv'
    BY TypeStep DEF IndicatorsInv
  <2>2. RecordedIsPast'
    BY <2>1, RecordedStep
  <2>3. QueuedIsDone' /\ AnsweredIsOver'
    BY QueuedStep, AnsweredStep
  <2>4. WorkerEnds'
    BY <2>1, WorkerStep
  <2>5. ShownIsReachable' /\ LostIsDisplaced'
    BY ShownStep, LostStep
  <2> QED BY <2>1, <2>2, <2>3, <2>4, <2>5 DEF IndicatorsInv
<1>3. IndicatorsInv => IndicatorsAccounted
  <2> SUFFICES ASSUME IndicatorsInv PROVE IndicatorsAccounted
    OBVIOUS
  <2>1. ReplyEndsOwnIndicators
    BY DEF IndicatorsInv, AnsweredIsOver, ReplyEndsOwnIndicators, Ended, Over
  <2>2. \A k \in Ended : "new" \notin Past(k) /\ k \notin Past(k)
    BY DEF Ended, Past
  <2>3. LossNeedsOverlap
    BY <2>2 DEF IndicatorsInv, LostIsDisplaced, LossNeedsOverlap, Ended
  <2> QED BY <2>1, <2>3 DEF IndicatorsAccounted, ShownOrDisplaced, IndicatorsInv
<1> QED BY <1>1, <1>2, <1>3, PTL DEF Spec

=============================================================================
