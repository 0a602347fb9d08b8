----------------------- MODULE SessionHistoryProofs -----------------------
(* Proofs about SessionHistory, for every number of rounds, summarizers and *)
(* messages, and for every setting of the lengths the code compares with.   *)
EXTENDS SessionHistory, SequenceTheorems, FiniteSetTheorems, TLAPS

-----------------------------------------------------------------------------
(* Who runs: one step of a round or of a summarizer at a time, and at most  *)
(* one summarizer, which holds the guard.                                   *)

RoundSteps == {"idle", "llm", "tools", "save", "rename", "check", "setHistory",
               "saveCompressed", "renameCompressed"}
SummarySteps == {"idle", "read", "ask", "set", "truncate", "saveSummary", "renameSummary",
                 "release"}

OneSummary ==
  \A s \in Summarizers : pc[s] # "idle" =>
    guard /\ \A t \in Summarizers : t # s => pc[t] = "idle"

ProcsInv ==
  /\ pc \in [Procs -> Steps]
  /\ \A r \in Rounds : pc[r] \in RoundSteps /\ (pc[r] = "tools" => pending[r] > 0)
  /\ \A s \in Summarizers : pc[s] \in SummarySteps
  /\ pending \in [Rounds -> 0..MaxCalls]
  /\ retry \in [Rounds -> 0..MaxRetries]
  /\ guard \in BOOLEAN
  /\ OneSummary

LEMMA Bounds ==
  /\ MaxMessages \in Nat /\ MaxCalls \in Nat /\ Threshold \in Nat /\ MultiPart \in Nat
  /\ CompressMin \in Nat /\ CompressMin >= 2 /\ MaxRetries \in Nat /\ Keep \in Nat
  /\ Keep > 0
  BY SessionAssumption

LEMMA ProcsStep == ProcsInv /\ [Next]_vars => ProcsInv'
<1> SUFFICES ASSUME ProcsInv, [Next]_vars PROVE ProcsInv'
  OBVIOUS
<1> USE SessionAssumption
    DEF ProcsInv, OneSummary, Procs, Steps, RoundSteps, SummarySteps, Goto
<1>1. ASSUME NEW r \in Rounds, RoundBegin(r) PROVE ProcsInv'
  BY <1>1 DEF RoundBegin
<1>2. ASSUME NEW r \in Rounds, RoundCalls(r) PROVE ProcsInv'
  BY <1>2 DEF RoundCalls
<1>3. ASSUME NEW r \in Rounds, RoundResult(r) PROVE ProcsInv'
  BY <1>3 DEF RoundResult
<1>4. ASSUME NEW r \in Rounds, RoundFails(r) PROVE ProcsInv'
  BY <1>4 DEF RoundFails
<1>5. ASSUME NEW r \in Rounds, RoundAnswer(r) PROVE ProcsInv'
  BY <1>5 DEF RoundAnswer
<1>6. ASSUME NEW r \in Rounds, RoundCheck(r) PROVE ProcsInv'
  <2>1. CASE /\ ~guard /\ guard' = TRUE
             /\ \E s \in Summarizers :
                  pc[s] = "idle" /\ pc' = [pc EXCEPT ![s] = "read", ![r] = "idle"]
    <3>1. PICK s \in Summarizers :
            pc[s] = "idle" /\ pc' = [pc EXCEPT ![s] = "read", ![r] = "idle"]
      BY <2>1
    <3>2. s # r /\ pc' \in [Procs -> Steps] /\ pc'[s] = "read" /\ pc'[r] = "idle"
      BY <3>1
    <3>3. \A p \in Procs : p # s /\ p # r => pc'[p] = pc[p]
      BY <3>1
    <3>4. guard' = TRUE /\ UNCHANGED <<pending, retry>>
      BY <1>6, <2>1 DEF RoundCheck
    <3>5. \A q \in Rounds : pc'[q] \in RoundSteps /\ (pc'[q] = "tools" => pending[q] > 0)
      <4>1. \A q \in Rounds : q # s /\ q \in Procs
        OBVIOUS
      <4>2. \A q \in Rounds : pc'[q] = pc[q] \/ pc'[q] = "idle"
        BY <3>2, <3>3, <4>1
      <4> QED
        BY <4>2
    <3>6. \A q \in Summarizers : pc'[q] \in SummarySteps
      BY <3>2, <3>3
    <3>7. OneSummary'
      BY <2>1, <3>2, <3>3, <3>4
    <3> QED
      BY <3>2, <3>4, <3>5, <3>6, <3>7
  <2>2. CASE pc' = [pc EXCEPT ![r] = "idle"] /\ UNCHANGED <<guard, pending, retry>>
    BY <2>2
  <2> QED
    BY <1>6, <2>1, <2>2 DEF RoundCheck
<1>7. ASSUME NEW r \in Rounds, CompressRead(r) PROVE ProcsInv'
  BY <1>7 DEF CompressRead
<1>8. ASSUME NEW r \in Rounds, CompressWrite(r) PROVE ProcsInv'
  BY <1>8 DEF CompressWrite
<1>9. ASSUME NEW s \in Summarizers, SummaryRead(s) PROVE ProcsInv'
  BY <1>9 DEF SummaryRead
<1>10. ASSUME NEW s \in Summarizers, SummaryAsk(s) PROVE ProcsInv'
  BY <1>10 DEF SummaryAsk
<1>11. ASSUME NEW s \in Summarizers, SummaryFails(s) PROVE ProcsInv'
  BY <1>11 DEF SummaryFails
<1>12. ASSUME NEW s \in Summarizers, SummarySet(s) PROVE ProcsInv'
  BY <1>12 DEF SummarySet
<1>13. ASSUME NEW s \in Summarizers, SummaryTruncate(s) PROVE ProcsInv'
  BY <1>13 DEF SummaryTruncate
<1>14. ASSUME NEW s \in Summarizers, SummaryRelease(s) PROVE ProcsInv'
  BY <1>14 DEF SummaryRelease
<1>15. ASSUME NEW p \in Procs, SaveSnapshot(p) PROVE ProcsInv'
  BY <1>15 DEF SaveSnapshot, Renaming, AfterSave
<1>16. ASSUME NEW p \in Procs, SaveRename(p) PROVE ProcsInv'
  BY <1>16 DEF SaveRename, Renaming, AfterSave
<1>17. CASE Crash
  <2>1. /\ pc' \in [Procs -> Steps] /\ \A p \in Procs : pc'[p] = "idle"
        /\ pending' \in [Rounds -> 0..MaxCalls] /\ retry' \in [Rounds -> 0..MaxRetries]
        /\ guard' = FALSE
    BY <1>17, Bounds DEF Crash
  <2> QED
    BY <2>1
<1>18. CASE UNCHANGED vars
  BY <1>18 DEF vars
<1> QED
  BY <1>1, <1>2, <1>3, <1>4, <1>5, <1>6, <1>7, <1>8, <1>9, <1>10, <1>11, <1>12, <1>13,
     <1>14, <1>15, <1>16, <1>17, <1>18 DEF Next, Round, Summarize, Save

-----------------------------------------------------------------------------
(* What a session is made of.  Of the messages numbered 1..n, those in t   *)
(* are no tool results.                                                    *)

Listed(h, n, t) ==
  /\ h \in Seq(Messages)
  /\ Increasing(h)
  /\ \A i \in 1..Len(h) : h[i].id \in 1..n /\ (h[i].id \in t => h[i].role # "tool")

Sound(im, n, t) ==
  /\ im = Image(im.history, im.summary)
  /\ Listed(im.history, n, t)
  /\ im.summary \subseteq 1..n

LEMMA IncreasingBy ==
  ASSUME NEW g \in Seq(Messages), \A i, j \in 1..Len(g) : i < j => g[i].id < g[j].id
  PROVE  Increasing(g)
<1>1. DOMAIN g = 1..Len(g)
  OBVIOUS
<1> QED
  BY <1>1 DEF Increasing

\* Leaving messages out keeps the order of the others.
LEMMA ListedPart ==
  ASSUME NEW h, NEW n \in Nat, NEW t, Listed(h, n, t), NEW g \in Seq(Messages),
         NEW f \in [1..Len(g) -> 1..Len(h)],
         \A i \in 1..Len(g) : g[i] = h[f[i]],
         \A i, j \in 1..Len(g) : i < j => f[i] < f[j]
  PROVE  Listed(g, n, t)
<1>1. \A i \in 1..Len(g) : f[i] \in 1..Len(h)
  OBVIOUS
<1>2. Increasing(g)
  <2> SUFFICES ASSUME NEW i \in 1..Len(g), NEW j \in 1..Len(g), i < j
               PROVE  g[i].id < g[j].id
    BY IncreasingBy
  <2>1. f[i] \in DOMAIN h /\ f[j] \in DOMAIN h /\ f[i] < f[j]
    BY <1>1 DEF Listed
  <2>2. h[f[i]].id < h[f[j]].id
    BY <2>1 DEF Listed, Increasing
  <2> QED
    BY <2>2
<1>3. \A i \in 1..Len(g) : g[i].id \in 1..n /\ (g[i].id \in t => g[i].role # "tool")
  BY <1>1 DEF Listed
<1> QED
  BY <1>2, <1>3 DEF Listed

LEMMA LastOfShape ==
  ASSUME NEW h \in Seq(Messages), NEW n \in Nat
  PROVE  /\ LastOf(h, n) \in Seq(Messages)
         /\ Len(LastOf(h, n)) = IF Len(h) <= n THEN Len(h) ELSE n
         /\ \A i \in 1..Len(LastOf(h, n)) :
              LastOf(h, n)[i] = h[i + Len(h) - Len(LastOf(h, n))]
<1>1. CASE Len(h) <= n
  BY <1>1 DEF LastOf
<1>2. CASE Len(h) > n
  <2>1. LastOf(h, n) = SubSeq(h, Len(h) - n + 1, Len(h))
    BY <1>2 DEF LastOf
  <2> QED
    BY <1>2, <2>1
<1> QED
  BY <1>1, <1>2

LEMMA ListedLast ==
  ASSUME NEW h, NEW n \in Nat, NEW t, Listed(h, n, t), NEW k \in Nat
  PROVE  Listed(LastOf(h, k), n, t)
<1> DEFINE g == LastOf(h, k)
           f == [i \in 1..Len(g) |-> i + Len(h) - Len(g)]
<1>1. h \in Seq(Messages)
  BY DEF Listed
<1>2. g \in Seq(Messages) /\ Len(g) <= Len(h) /\ \A i \in 1..Len(g) : g[i] = h[f[i]]
  BY <1>1, LastOfShape
<1>3. f \in [1..Len(g) -> 1..Len(h)] /\ \A i, j \in 1..Len(g) : i < j => f[i] < f[j]
  BY <1>1, <1>2
<1> HIDE DEF g, f
<1> QED
  BY <1>2, <1>3, ListedPart DEF g

LEMMA ListedAppend ==
  ASSUME NEW h, NEW n \in Nat, NEW t, Listed(h, n, t), t \subseteq 1..n,
         NEW role \in Roles, n + 1 \in Ids
  PROVE  Listed(Append(h, [id |-> n + 1, role |-> role]), n + 1,
                IF role = "tool" THEN t ELSE t \cup {n + 1})
  BY DEF Listed, Increasing, Messages

LEMMA ListedLater ==
  ASSUME NEW h, NEW n \in Nat, NEW t, Listed(h, n, t), NEW u, u \subseteq t \cup {n + 1}
  PROVE  Listed(h, n + 1, u)
  BY DEF Listed

LEMMA ListedEmpty == ASSUME NEW n, NEW t PROVE Listed(<<>>, n, t)
  BY DEF Listed, Increasing

\* A compressed history is a part of the history.
LEMMA ListedCompressed ==
  ASSUME NEW h, NEW n \in Nat, NEW t, Listed(h, n, t), Len(h) > 1
  PROVE  Listed(Compressed(h), n, t)
<1> DEFINE between == SubSeq(h, 2, Len(h) - 1)
           mid == Len(between) \div 2
           kept == SubSeq(between, mid + 1, Len(between))
           g == Compressed(h)
           f == [i \in 1..Len(g) |->
                  IF i = 1 THEN 1 ELSE IF i = Len(g) THEN Len(h) ELSE i + mid]
<1>1. h \in Seq(Messages)
  BY DEF Listed
<1>2. /\ between \in Seq(Messages) /\ Len(between) = Len(h) - 2
      /\ \A i \in 1..Len(between) : between[i] = h[i + 1]
  <2>1. CASE Len(h) > 2
    <3>1. 2 \in 1..Len(h) /\ Len(h) - 1 \in 1..Len(h)
      BY <1>1, <2>1
    <3> QED
      BY <1>1, <2>1, <3>1
  <2>2. CASE Len(h) = 2
    BY <1>1, <2>2
  <2>3. Len(h) > 2 \/ Len(h) = 2
    <3>1. Len(h) \in Nat
      BY <1>1
    <3>2. \A k \in Nat : k > 1 => k > 2 \/ k = 2
      OBVIOUS
    <3> QED
      BY <3>1, <3>2, Zenon
  <2> HIDE DEF between
  <2> QED
    BY <2>1, <2>2, <2>3
<1> HIDE DEF between
<1>3. mid \in 0..Len(between)
  BY <1>2
<1> HIDE DEF mid
<1>4. /\ kept \in Seq(Messages) /\ Len(kept) = Len(between) - mid
      /\ \A i \in 1..Len(kept) : kept[i] = between[i + mid]
  BY <1>2, <1>3
<1>5. g = <<h[1]>> \o kept \o <<h[Len(h)]>>
  BY DEF Compressed, between, mid
<1> HIDE DEF kept, g
<1>6. h[1] \in Messages /\ h[Len(h)] \in Messages
  BY <1>1
<1>7. /\ g \in Seq(Messages) /\ Len(g) = Len(kept) + 2
      /\ g[1] = h[1] /\ g[Len(g)] = h[Len(h)]
      /\ \A i \in 2..Len(g) - 1 : g[i] = kept[i - 1]
  BY <1>4, <1>5, <1>6
<1>8. f \in [1..Len(g) -> 1..Len(h)] /\ \A i, j \in 1..Len(g) : i < j => f[i] < f[j]
  <2>1. Len(h) \in Nat /\ Len(g) \in Nat /\ Len(g) = Len(h) - mid /\ mid \in 0..Len(h) - 2
    BY <1>1, <1>2, <1>3, <1>4, <1>7
  <2> DEFINE lg == Len(g)
             lh == Len(h)
  <2> HIDE DEF lg, lh
  <2>2. lh \in Nat /\ lg \in Nat /\ lg = lh - mid /\ mid \in 0..lh - 2
    BY <2>1 DEF lg, lh
  <2>3. \A i \in 1..lg : (IF i = 1 THEN 1 ELSE IF i = lg THEN lh ELSE i + mid) \in 1..lh
    BY <2>2
  <2>4. \A i, j \in 1..lg : i < j =>
          (IF i = 1 THEN 1 ELSE IF i = lg THEN lh ELSE i + mid)
            < (IF j = 1 THEN 1 ELSE IF j = lg THEN lh ELSE j + mid)
    BY <2>2
  <2>5. f = [i \in 1..lg |-> IF i = 1 THEN 1 ELSE IF i = lg THEN lh ELSE i + mid]
    BY DEF lg, lh
  <2> HIDE DEF f
  <2>6. f \in [1..lg -> 1..lh] /\ \A i, j \in 1..lg : i < j => f[i] < f[j]
    BY <2>3, <2>4, <2>5
  <2> QED
    BY <2>6 DEF lg, lh
<1>9. ASSUME NEW i \in 1..Len(g) PROVE g[i] = h[f[i]]
  <2>1. CASE i = 1 \/ i = Len(g)
    BY <1>7, <2>1
  <2>2. CASE i \in 2..Len(g) - 1
    <3>1. g[i] = kept[i - 1] /\ i - 1 \in 1..Len(kept)
      BY <1>7, <1>4, <1>3, <1>2, <2>2
    <3>2. kept[i - 1] = between[i - 1 + mid] /\ i - 1 + mid \in 1..Len(between)
      BY <1>2, <1>3, <1>4, <3>1
    <3>3. between[i - 1 + mid] = h[i + mid]
      BY <1>2, <1>3, <3>2
    <3> QED
      BY <2>2, <3>1, <3>2, <3>3
  <2> QED
    BY <1>7, <1>4, <2>1, <2>2
<1> HIDE DEF f
<1>10. Listed(g, n, t)
  BY <1>7, <1>8, <1>9, ListedPart
<1> QED
  BY <1>10 DEF g

-----------------------------------------------------------------------------
(* What a truncation keeps, as sets of numbers.                            *)

LEMMA IdsOfIn ==
  ASSUME NEW h, NEW n \in Nat, NEW t, Listed(h, n, t)
  PROVE  /\ IdsOf(h) \subseteq 1..n
         /\ \A x : x \in IdsOf(h) <=> \E i \in 1..Len(h) : x = h[i].id
  BY DEF IdsOf, Listed

LEMMA KeptIn ==
  ASSUME NEW h, NEW n \in Nat, NEW t, Listed(h, n, t), NEW k \in Nat
  PROVE  IdsOf(LastOf(h, k)) \subseteq IdsOf(h)
<1> DEFINE g == LastOf(h, k)
<1>1. h \in Seq(Messages) /\ Listed(g, n, t)
  BY ListedLast DEF Listed
<1>2. g \in Seq(Messages) /\ Len(g) <= Len(h)
      /\ \A i \in 1..Len(g) : g[i] = h[i + Len(h) - Len(g)]
  BY <1>1, LastOfShape
<1> HIDE DEF g
<1> SUFFICES ASSUME NEW i \in 1..Len(g) PROVE g[i].id \in IdsOf(h)
  BY <1>1, IdsOfIn DEF g
<1>3. i + Len(h) - Len(g) \in 1..Len(h)
  BY <1>1, <1>2
<1> QED
  BY <1>2, <1>3, IdsOfIn

\* What is kept is what is newest.
LEMMA KeptAbove ==
  ASSUME NEW h, NEW n \in Nat, NEW t, Listed(h, n, t), NEW k \in Nat,
         NEW x \in IdsOf(LastOf(h, k)), NEW y \in IdsOf(h), y \notin IdsOf(LastOf(h, k))
  PROVE  y < x /\ Len(h) > k
<1> DEFINE g == LastOf(h, k)
           lh == Len(h)
           lg == Len(g)
<1>1. Listed(g, n, t)
  BY ListedLast
<1>2. /\ lh \in Nat /\ lg \in Nat /\ lg = IF lh <= k THEN lh ELSE k
      /\ \A i \in 1..lg : g[i] = h[i + lh - lg]
  <2>1. h \in Seq(Messages)
    BY DEF Listed
  <2> HIDE DEF g
  <2> QED
    BY <2>1, LastOfShape DEF g
<1>3. PICK i \in 1..lg : x = g[i].id
  BY <1>1, IdsOfIn
<1>4. PICK j \in 1..lh : y = h[j].id
  BY IdsOfIn
<1>5. \A l \in 1..lg : y # g[l].id
  BY <1>1, IdsOfIn
<1>6. \A u, v \in 1..lh : u < v => h[u].id < h[v].id
  BY DEF Listed, Increasing
<1> HIDE DEF g, lh, lg
<1>7. i + lh - lg \in 1..lh /\ x = h[i + lh - lg].id
  BY <1>2, <1>3
<1>8. j < 1 + lh - lg
  <2> SUFFICES ASSUME j >= 1 + lh - lg PROVE FALSE
    BY <1>2
  <2>1. j - (lh - lg) \in 1..lg
    BY <1>2
  <2>2. g[j - (lh - lg)] = h[j]
    BY <1>2, <2>1
  <2> QED
    BY <1>4, <1>5, <2>1, <2>2
<1>9. j < i + lh - lg /\ lh > k
  BY <1>2, <1>8
<1> QED
  BY <1>4, <1>6, <1>7, <1>9 DEF lh

LEMMA IdsCount ==
  ASSUME NEW h, NEW n \in Nat, NEW t, Listed(h, n, t)
  PROVE  IsFiniteSet(IdsOf(h)) /\ Cardinality(IdsOf(h)) = Len(h)
<1> DEFINE f == [i \in 1..Len(h) |-> h[i].id]
<1>1. h \in Seq(Messages) /\ Len(h) \in Nat
  BY DEF Listed
<1>2. f \in [1..Len(h) -> IdsOf(h)]
  BY IdsOfIn
<1>3. \A x \in IdsOf(h) : \E i \in 1..Len(h) : f[i] = x
  BY IdsOfIn
<1>4. ASSUME NEW i \in 1..Len(h), NEW j \in 1..Len(h), f[i] = f[j] PROVE i = j
  <2>1. h[i].id \in 1..n /\ h[j].id \in 1..n /\ h[i].id = h[j].id
    BY <1>4 DEF Listed
  <2>2. ~(i < j) /\ ~(j < i)
    BY <1>1, <2>1 DEF Listed, Increasing
  <2> QED
    BY <2>2
<1> HIDE DEF f
<1>5. f \in Bijection(1..Len(h), IdsOf(h))
  <2>1. f \in Injection(1..Len(h), IdsOf(h))
    BY <1>2, <1>4 DEF Injection, IsInjective
  <2>2. f \in Surjection(1..Len(h), IdsOf(h))
    BY <1>2, <1>3 DEF Surjection
  <2> QED
    BY <2>1, <2>2 DEF Bijection
<1>6. ExistsBijection(1..Len(h), IdsOf(h))
  BY <1>5 DEF ExistsBijection
<1>7. IsFiniteSet(1..Len(h)) /\ Cardinality(1..Len(h)) = Len(h)
  <2>1. 1 \in Int /\ Len(h) \in Int
    BY <1>1
  <2>2. IsFiniteSet(1..Len(h))
        /\ Cardinality(1..Len(h)) = IF 1 > Len(h) THEN 0 ELSE Len(h) - 1 + 1
    BY <2>1, FS_Interval, Zenon
  <2>3. \A l \in Nat : (IF 1 > l THEN 0 ELSE l - 1 + 1) = l
    OBVIOUS
  <2> QED
    BY <1>1, <2>2, <2>3
<1> QED
  BY <1>6, <1>7, FS_Bijection

LEMMA KeptCount ==
  ASSUME NEW h, NEW n \in Nat, NEW t, Listed(h, n, t), NEW k \in Nat
  PROVE  /\ IsFiniteSet(IdsOf(LastOf(h, k)))
         /\ Cardinality(IdsOf(LastOf(h, k))) <= k
         /\ Len(h) > k => Cardinality(IdsOf(LastOf(h, k))) = k
<1>1. h \in Seq(Messages) /\ Listed(LastOf(h, k), n, t)
  BY ListedLast DEF Listed
<1>2. Len(LastOf(h, k)) = IF Len(h) <= k THEN Len(h) ELSE k
  BY <1>1, LastOfShape
<1>3. IsFiniteSet(IdsOf(LastOf(h, k)))
      /\ Cardinality(IdsOf(LastOf(h, k))) = Len(LastOf(h, k))
  BY <1>1, IdsCount
<1> QED
  BY <1>1, <1>2, <1>3

\* A new message pushes at most one out of those that are kept.
LEMMA KeptAfterAppend ==
  ASSUME NEW h, NEW n \in Nat, NEW t, Listed(h, n, t), NEW m \in Messages, NEW k \in Nat
  PROVE  /\ IdsOf(Append(h, m)) = IdsOf(h) \cup {m.id}
         /\ \E x : IdsOf(LastOf(h, k)) \ {x} \subseteq IdsOf(LastOf(Append(h, m), k))
<1> DEFINE g == Append(h, m)
           a == LastOf(h, k)
           b == LastOf(g, k)
           lh == Len(h)
           lg == Len(g)
           la == Len(a)
           lb == Len(b)
<1>1. h \in Seq(Messages) /\ g \in Seq(Messages)
  BY DEF Listed
<1>2. /\ lh \in Nat /\ lg = lh + 1 /\ g[lg] = m
      /\ \A i \in 1..lh : g[i] = h[i]
  BY <1>1
<1> HIDE DEF g
<1>3. /\ la \in Nat /\ la = IF lh <= k THEN lh ELSE k
      /\ \A i \in 1..la : a[i] = h[i + lh - la]
  <2> HIDE DEF a
  <2> QED
    BY <1>1, LastOfShape DEF a
<1>4. /\ lb \in Nat /\ lb = IF lg <= k THEN lg ELSE k
      /\ \A i \in 1..lb : b[i] = g[i + lg - lb]
  <2> HIDE DEF b
  <2> QED
    BY <1>1, LastOfShape DEF b
<1>5. /\ IdsOf(g) = {g[i].id : i \in 1..lg} /\ IdsOf(h) = {h[i].id : i \in 1..lh}
      /\ IdsOf(a) = {a[i].id : i \in 1..la} /\ IdsOf(b) = {b[i].id : i \in 1..lb}
  <2>1. a \in Seq(Messages) /\ b \in Seq(Messages)
    BY <1>1, LastOfShape
  <2> HIDE DEF a, b
  <2> QED
    BY <1>1, <2>1 DEF IdsOf
<1> HIDE DEF a, b, lh, lg, la, lb
<1>6. IdsOf(g) = IdsOf(h) \cup {m.id}
  <2>1. 1..lg = 1..lh \cup {lg}
    BY <1>2
  <2> QED
    BY <1>2, <1>5, <2>1
<1>7. ASSUME NEW i \in 1..la, i # 1 PROVE \E j \in 1..lb : b[j] = a[i]
  <2>1. i + lh - la \in 1..lh /\ a[i] = g[i + lh - la]
    BY <1>2, <1>3
  <2>2. i + lh - la - (lg - lb) \in 1..lb
    BY <1>2, <1>3, <1>4, <1>7
  <2>3. b[i + lh - la - (lg - lb)] = g[i + lh - la]
    BY <1>2, <1>3, <1>4, <2>2
  <2> QED
    BY <2>1, <2>2, <2>3
<1>8. IdsOf(a) \ {a[1].id} \subseteq IdsOf(b)
  BY <1>5, <1>7
<1> QED
  BY <1>6, <1>8 DEF a, b, g

\* When a history is replaced, those that are pushed out of what is kept are not more
\* than the messages that were not there before.
LEMMA KeptAfterReplace ==
  ASSUME NEW h, NEW g, NEW n \in Nat, NEW t, Listed(h, n, t), Listed(g, n, t), NEW k \in Nat
  PROVE  Cardinality((IdsOf(LastOf(h, k)) \cap IdsOf(g)) \ IdsOf(LastOf(g, k)))
           <= Cardinality(IdsOf(g) \ IdsOf(h))
<1> DEFINE a == IdsOf(LastOf(h, k))
           b == IdsOf(LastOf(g, k))
           out == (a \cap IdsOf(g)) \ b
           new == IdsOf(g) \ IdsOf(h)
<1> SUFFICES Cardinality(out) <= Cardinality(new)
  OBVIOUS
<1>1. /\ a \subseteq IdsOf(h) /\ b \subseteq IdsOf(g)
      /\ IsFiniteSet(a) /\ IsFiniteSet(b) /\ IsFiniteSet(IdsOf(h)) /\ IsFiniteSet(IdsOf(g))
      /\ Cardinality(a) <= k
      /\ Len(g) > k => Cardinality(b) = k
  BY KeptIn, KeptCount, IdsCount
<1>2. \A x \in out, y \in b : x < y
  BY KeptAbove
<1>3. \A x \in a, y \in IdsOf(h) : y \notin a => y < x
  BY KeptAbove
<1>4. IdsOf(h) \subseteq 1..n /\ IdsOf(g) \subseteq 1..n
  BY IdsOfIn
<1>5. out # {} => Len(g) > k
  <2>1. CASE Len(g) <= k
    BY <2>1 DEF LastOf
  <2>2. CASE ~(Len(g) <= k)
    <3>1. Len(g) \in Nat
      BY DEF Listed
    <3>2. \A l \in Nat : ~(l <= k) => l > k
      OBVIOUS
    <3> QED
      BY <2>2, <3>1, <3>2, Zenon
  <2> QED
    BY <2>1, <2>2
<1> HIDE DEF a, b
<1>6. IsFiniteSet(out) /\ IsFiniteSet(new) /\ IsFiniteSet(b \ new) /\ IsFiniteSet(b \cap new)
  BY <1>1, FS_Subset, FS_Difference, FS_Intersection
<1>7. /\ Cardinality(out) \in Nat /\ Cardinality(new) \in Nat /\ Cardinality(b \ new) \in Nat
      /\ Cardinality(b \cap new) \in Nat /\ Cardinality(a) \in Nat
  BY <1>1, <1>6, FS_CardinalityType
<1>8. CASE out = {}
  <2>1. Cardinality(out) = 0
    BY <1>8, FS_EmptySet
  <2> HIDE DEF out, new
  <2> QED
    BY <1>7, <2>1
<1>9. CASE out # {}
  <2>1. out \cup (b \ new) \subseteq a
    <3>1. PICK x \in out : TRUE
      BY <1>9
    <3> SUFFICES ASSUME NEW y \in b, y \in IdsOf(h), y \notin a PROVE FALSE
      BY <1>1
    <3>2. x < y /\ y < x /\ x \in Nat /\ y \in Nat
      BY <1>1, <1>2, <1>3, <1>4, <3>1
    <3> QED
      BY <3>2
  <2>2. out \cap (b \ new) = {}
    OBVIOUS
  <2> HIDE DEF out, new
  <2>3. Cardinality(out \cup (b \ new)) = Cardinality(out) + Cardinality(b \ new) - 0
    BY <1>6, <2>2, FS_Union, FS_EmptySet
  <2>4. Cardinality(out \cup (b \ new)) <= Cardinality(a)
    BY <1>1, <2>1, FS_Subset
  <2>5. Cardinality(b \ new) = Cardinality(b) - Cardinality(b \cap new)
    BY <1>1, FS_Difference
  <2>6. Cardinality(b \cap new) <= Cardinality(new)
    BY <1>6, FS_Intersection
  <2>7. Cardinality(b) = k /\ Cardinality(a) <= k
    BY <1>1, <1>5, <1>9
  <2> QED
    BY <1>7, <2>3, <2>4, <2>5, <2>6, <2>7
<1> QED
  BY <1>8, <1>9

-----------------------------------------------------------------------------
(* Every session that is kept anywhere, in memory, in the file or in a      *)
(* goroutine's copy, is in order and numbers only messages there have been. *)

DataInv ==
  /\ last \in 0..MaxMessages
  /\ talk \subseteq 1..last
  /\ Sound(Image(history, summary), last, talk)
  /\ Sound(disk, last, talk)
  /\ copy = [p \in Procs |-> copy[p]]
  /\ \A p \in Procs : Sound(copy[p], last, talk)
  /\ excused \subseteq Ids
  /\ late \in Nat
  /\ trigger \in [Rounds -> 0..MaxMessages]

LEMMA SoundImage ==
  ASSUME NEW h, NEW S, NEW n, NEW t
  PROVE  /\ Sound(Image(h, S), n, t) <=> (Listed(h, n, t) /\ S \subseteq 1..n)
         /\ Image(h, S).history = h /\ Image(h, S).summary = S
  BY DEF Sound, Image

LEMMA SoundParts ==
  ASSUME NEW im, NEW n, NEW t, Sound(im, n, t)
  PROVE  Listed(im.history, n, t) /\ im.summary \subseteq 1..n
  BY DEF Sound

LEMMA SoundLater ==
  ASSUME NEW im, NEW n \in Nat, NEW t, Sound(im, n, t), NEW u, u \subseteq t \cup {n + 1}
  PROVE  Sound(im, n + 1, u)
  BY ListedLater DEF Sound

LEMMA SoundEmpty == ASSUME NEW n, NEW t PROVE Sound(Empty, n, t)
  BY ListedEmpty, SoundImage DEF Empty

LEMMA SoundTyped ==
  ASSUME NEW im, NEW n \in 0..MaxMessages, NEW t, Sound(im, n, t)
  PROVE  im \in Images
<1>1. 1..n \subseteq Ids
  BY Bounds DEF Ids
<1> QED
  BY <1>1 DEF Sound, Image, Images, Listed

\* What AddMessage does to the history and to everything that is kept elsewhere.
LEMMA AddSound ==
  ASSUME DataInv, NEW role \in Roles, Add(role)
  PROVE  /\ last' = last + 1 /\ last' \in 0..MaxMessages
         /\ talk' \subseteq talk \cup {last + 1} /\ talk' \subseteq 1..last'
         /\ late' \in Nat /\ late' >= late
         /\ Listed(history', last', talk')
         /\ \A im : Sound(im, last, talk) => Sound(im, last', talk')
<1>1. /\ last \in Nat /\ last + 1 \in Ids /\ last' = last + 1 /\ last' \in 0..MaxMessages
      /\ talk' = IF role = "tool" THEN talk ELSE talk \cup {last + 1}
      /\ history' = Append(history, [id |-> last + 1, role |-> role])
      /\ late' \in Nat /\ late' >= late
  BY Bounds DEF Add, DataInv, Ids
<1>2. Listed(history, last, talk) /\ talk \subseteq 1..last
  BY SoundImage DEF DataInv
<1>3. Listed(history', last', talk')
  BY <1>1, <1>2, ListedAppend
<1>4. talk' \subseteq talk \cup {last + 1} /\ talk' \subseteq 1..last'
  BY <1>1, <1>2
<1> QED
  BY <1>1, <1>3, <1>4, SoundLater

\* An action that adds a message and leaves the other parts of the session alone.
LEMMA AddStep ==
  ASSUME DataInv, NEW role \in Roles, Add(role), UNCHANGED <<summary, disk, copy, excused>>,
         trigger' \in [Rounds -> 0..MaxMessages]
  PROVE  DataInv'
<1>1. summary \subseteq 1..last /\ last \in Nat
  BY SoundImage, Bounds DEF DataInv
<1>2. summary' \subseteq 1..last'
  BY <1>1, AddSound
<1>3. Sound(Image(history', summary'), last', talk')
  BY <1>2, AddSound, SoundImage
<1>4. Sound(disk', last', talk') /\ \A p \in Procs : Sound(copy'[p], last', talk')
  BY AddSound DEF DataInv
<1> QED
  BY <1>3, <1>4, AddSound DEF DataInv

\* One that only changes which copy a goroutine holds.
LEMMA CopyStep ==
  ASSUME DataInv, NEW p \in Procs, NEW im, copy' = [copy EXCEPT ![p] = im],
         Sound(im, last, talk),
         UNCHANGED <<history, summary, last, disk, talk, trigger, late>>,
         excused' \subseteq Ids
  PROVE  DataInv'
<1>1. copy' = [q \in Procs |-> copy'[q]] /\ \A q \in Procs : Sound(copy'[q], last, talk)
  BY DEF DataInv
<1> QED
  BY <1>1 DEF DataInv

LEMMA AskShape ==
  ASSUME DataInv, NEW s \in Summarizers, NEW ids
  PROVE  [copy EXCEPT ![s].summary = ids]
           = [copy EXCEPT ![s] = Image(copy[s].history, ids)]
<1>1. s \in Procs /\ copy = [p \in Procs |-> copy[p]]
      /\ copy[s] = Image(copy[s].history, copy[s].summary)
  BY DEF DataInv, Sound, Procs
<1>2. [copy[s] EXCEPT !.summary = ids] = Image(copy[s].history, ids)
  BY <1>1 DEF Image
<1> QED
  BY <1>1, <1>2

LEMMA ToSummarizeIn ==
  ASSUME NEW h, NEW n \in Nat, NEW t, Listed(h, n, t)
  PROVE  ToSummarize(h) \subseteq IdsOf(h)
  BY DEF ToSummarize, IdsOf, Listed

LEMMA DataStep == ProcsInv /\ DataInv /\ [Next]_vars => DataInv'
<1> SUFFICES ASSUME ProcsInv, DataInv, [Next]_vars PROVE DataInv'
  OBVIOUS
<1>0. /\ Listed(history, last, talk) /\ summary \subseteq 1..last
      /\ Listed(disk.history, last, talk) /\ disk.summary \subseteq 1..last
      /\ \A p \in Procs : Listed(copy[p].history, last, talk) /\ copy[p].summary \subseteq 1..last
      /\ last \in Nat /\ 1..last \subseteq Ids
  BY SoundImage, SoundParts, Bounds DEF DataInv, Ids
<1>1. ASSUME NEW r \in Rounds, RoundBegin(r) PROVE DataInv'
  <2>1. last + 1 \in 0..MaxMessages
    BY <1>0, <1>1, Bounds DEF RoundBegin, Add
  <2>2. trigger' \in [Rounds -> 0..MaxMessages]
    BY <1>1, <2>1 DEF RoundBegin, DataInv
  <2> QED
    BY <1>1, <2>2, AddStep DEF RoundBegin, Roles
<1>2. ASSUME NEW r \in Rounds, RoundCalls(r) \/ RoundResult(r) \/ RoundAnswer(r) PROVE DataInv'
  <2>1. trigger' \in [Rounds -> 0..MaxMessages]
    BY <1>2, Bounds DEF RoundCalls, RoundResult, RoundAnswer, DataInv
  <2> QED
    BY <1>2, <2>1, AddStep DEF RoundCalls, RoundResult, RoundAnswer, Roles
<1>3. ASSUME NEW r \in Rounds, RoundFails(r) PROVE DataInv'
  BY <1>3, Bounds DEF RoundFails, DataInv
<1>4. ASSUME NEW r \in Rounds, RoundCheck(r) PROVE DataInv'
  BY <1>4 DEF RoundCheck, DataInv
<1>5. ASSUME NEW r \in Rounds, CompressRead(r) PROVE DataInv'
  <2>1. Len(history) > 1
    <3>1. Len(history) \in Nat /\ Len(history) > CompressMin
      BY <1>0, <1>5 DEF CompressRead, Listed
    <3>2. \A l \in Nat : l > CompressMin => l > 1
      BY Bounds
    <3> QED
      BY <3>1, <3>2
  <2>2. Sound(Image(Compressed(history), {}), last, talk)
    BY <1>0, <2>1, ListedCompressed, SoundImage
  <2> QED
    BY <1>5, <2>2, CopyStep DEF CompressRead, Procs, DataInv
<1>6. ASSUME NEW r \in Rounds, CompressWrite(r) PROVE DataInv'
  <2>1. history' = copy[r].history /\ Listed(history', last, talk)
    BY <1>0, <1>6 DEF CompressWrite, Procs
  <2>2. Sound(Image(history', summary'), last', talk')
    BY <1>0, <1>6, <2>1, SoundImage DEF CompressWrite
  <2>3. IdsOf(history) \subseteq Ids /\ IsFiniteSet(IdsOf(history'))
    BY <1>0, <2>1, IdsOfIn, IdsCount
  <2>4. late' \in Nat
    <3>1. Cardinality(IdsOf(history') \ IdsOf(history)) \in Nat
      BY <2>3, FS_Difference, FS_CardinalityType
    <3> QED
      BY <1>6, <3>1 DEF CompressWrite, DataInv
  <2> QED
    BY <1>6, <2>2, <2>3, <2>4 DEF CompressWrite, DataInv
<1>7. ASSUME NEW s \in Summarizers, SummaryRead(s) PROVE DataInv'
  BY <1>7, CopyStep DEF SummaryRead, Procs, DataInv
<1>8. ASSUME NEW s \in Summarizers, SummaryAsk(s) PROVE DataInv'
  <2> DEFINE ids == ToSummarize(copy[s].history)
  <2>1. s \in Procs /\ ids \subseteq 1..last /\ copy[s].summary \subseteq 1..last
    BY <1>0, ToSummarizeIn, IdsOfIn DEF Procs
  <2>2. PICK S : /\ copy' = [copy EXCEPT ![s].summary = S]
                 /\ S \subseteq copy[s].summary \cup ids
                 /\ excused' \subseteq excused \cup copy[s].summary \cup ids
    <3>1. CASE Cardinality(ids) <= MultiPart
      <4>1. copy' = [copy EXCEPT ![s].summary = copy[s].summary \cup ids] /\ excused' = excused
        BY <1>8, <2>1, <3>1 DEF SummaryAsk, DataInv
      <4> QED
        BY <4>1
    <3>2. CASE ~(Cardinality(ids) <= MultiPart)
      <4>1. PICK part \in SUBSET ids :
              /\ copy' = [copy EXCEPT ![s].summary = part]
              /\ excused' = excused \cup ((copy[s].summary \cup ids) \ part)
        BY <1>8, <3>2 DEF SummaryAsk
      <4> QED
        BY <4>1
    <3> QED
      BY <3>1, <3>2
  <2> HIDE DEF ids
  <2>3. copy' = [copy EXCEPT ![s] = Image(copy[s].history, S)]
    BY <2>2, AskShape
  <2>4. Sound(Image(copy[s].history, S), last, talk)
    BY <1>0, <2>1, <2>2, SoundImage
  <2>5. excused' \subseteq Ids
    BY <1>0, <2>1, <2>2 DEF DataInv
  <2>6. UNCHANGED <<history, summary, last, disk, talk, trigger, late>>
    BY <1>8 DEF SummaryAsk
  <2> QED
    BY <2>1, <2>3, <2>4, <2>5, <2>6, CopyStep
<1>9. ASSUME NEW s \in Summarizers, SummaryFails(s) PROVE DataInv'
  BY <1>9 DEF SummaryFails, DataInv
<1>10. ASSUME NEW s \in Summarizers, SummarySet(s) PROVE DataInv'
  <2>1. Sound(Image(history', summary'), last', talk')
    BY <1>0, <1>10, SoundImage DEF SummarySet, Procs
  <2> QED
    BY <1>10, <2>1 DEF SummarySet, DataInv
<1>11. ASSUME NEW s \in Summarizers, SummaryTruncate(s) PROVE DataInv'
  <2>1. Sound(Image(history', summary'), last', talk')
    BY <1>0, <1>11, SoundImage, ListedLast, Bounds DEF SummaryTruncate
  <2> QED
    BY <1>11, <2>1 DEF SummaryTruncate, DataInv
<1>12. ASSUME NEW s \in Summarizers, SummaryRelease(s) PROVE DataInv'
  BY <1>12, CopyStep, SoundEmpty DEF SummaryRelease, Procs, DataInv
<1>13. ASSUME NEW p \in Procs, SaveSnapshot(p) PROVE DataInv'
  BY <1>13, CopyStep, SoundEmpty DEF SaveSnapshot, DataInv
<1>14. ASSUME NEW p \in Procs, SaveRename(p) PROVE DataInv'
  <2>1. Sound(disk', last', talk')
    BY <1>14 DEF SaveRename, DataInv
  <2>2. copy' = [q \in Procs |-> copy'[q]] /\ \A q \in Procs : Sound(copy'[q], last', talk')
    BY <1>14, SoundEmpty DEF SaveRename, DataInv
  <2> QED
    BY <1>14, <2>1, <2>2 DEF SaveRename, DataInv
<1>15. CASE Crash
  <2>1. Sound(Image(history', summary'), last', talk')
    BY <1>0, <1>15, SoundImage DEF Crash
  <2>2. copy' = [q \in Procs |-> copy'[q]] /\ \A q \in Procs : Sound(copy'[q], last', talk')
    BY <1>15, SoundEmpty DEF Crash
  <2>3. excused' \subseteq Ids /\ trigger' \in [Rounds -> 0..MaxMessages]
    BY <1>0, <1>15, Bounds DEF Crash, DataInv
  <2> QED
    BY <1>15, <2>1, <2>2, <2>3 DEF Crash, DataInv
<1>16. CASE UNCHANGED vars
  BY <1>16 DEF vars, DataInv
<1> QED
  BY <1>1, <1>2, <1>3, <1>4, <1>5, <1>6, <1>7, <1>8, <1>9, <1>10, <1>11, <1>12, <1>13,
     <1>14, <1>15, <1>16 DEF Next, Round, Summarize, Save

LEMMA InitInv == Init => ProcsInv /\ DataInv
<1> SUFFICES ASSUME Init PROVE ProcsInv /\ DataInv
  OBVIOUS
<1>1. ProcsInv
  <2>1. /\ pc \in [Procs -> Steps] /\ \A p \in Procs : pc[p] = "idle"
        /\ pending \in [Rounds -> 0..MaxCalls] /\ retry \in [Rounds -> 0..MaxRetries]
        /\ guard = FALSE
    BY Bounds DEF Init, Steps
  <2> QED
    BY <2>1 DEF ProcsInv, OneSummary, RoundSteps, SummarySteps, Procs
<1>2. Sound(Image(history, summary), last, talk) /\ Sound(disk, last, talk)
  BY SoundEmpty DEF Init, Empty
<1>3. copy = [p \in Procs |-> copy[p]] /\ \A p \in Procs : Sound(copy[p], last, talk)
  BY SoundEmpty DEF Init
<1> QED
  BY <1>1, <1>2, <1>3, Bounds DEF Init, DataInv

\* The variables of a session keep their types.
THEOREM SessionTypeCorrect == Spec => []TypeOK
<1>2. ProcsInv /\ DataInv => TypeOK
  <2> SUFFICES ASSUME ProcsInv, DataInv PROVE TypeOK
    OBVIOUS
  <2>1. Image(history, summary) \in Images /\ disk \in Images
        /\ \A p \in Procs : copy[p] \in Images
    BY SoundTyped DEF DataInv
  <2>2. copy \in [Procs -> Images]
    BY <2>1 DEF DataInv
  <2>3. talk \subseteq Ids
    BY Bounds DEF DataInv, Ids
  <2> QED
    BY <2>1, <2>2, <2>3 DEF ProcsInv, DataInv, TypeOK
<1> QED
  BY <1>2, InitInv, ProcsStep, DataStep, PTL DEF Spec
-----------------------------------------------------------------------------
(* HistoryKept and FileForgetsAtMostLate.  Inductive with what the           *)
(* truncation that is still to come will forget: while a summarizer asks,    *)
(* sets and truncates, the messages that are neither in its summary nor      *)
(* among the last Keep are as few as came in since it read the session.      *)

UnderWay(s) == pc[s] \in {"ask", "set", "truncate"}
Renames == {"rename", "renameCompressed", "renameSummary"}

\* What the summary s is making will cover.
Covered(s) ==
  copy[s].summary \cup (IF pc[s] = "ask" THEN ToSummarize(copy[s].history) ELSE {})

Forgotten == talk \ (IdsOf(history) \cup summary \cup excused)
Lost(s) == talk \ (IdsOf(LastOf(history, Keep)) \cup Covered(s) \cup excused)

Seen(im) == IdsOf(im.history) \cup im.summary
Unfiled(im) == {m \in talk : \E n \in Seen(im) : m <= n} \ (Seen(im) \cup excused)

CountInv ==
  /\ Cardinality(Forgotten) <= late
  /\ \A s \in Summarizers : UnderWay(s) => Cardinality(Lost(s)) <= late
  /\ \A s \in Summarizers : pc[s] = "truncate" => copy[s].summary = summary
  /\ Cardinality(Unfiled(disk)) <= late
  /\ \A p \in Procs : pc[p] \in Renames => Cardinality(Unfiled(copy[p])) <= late

LEMMA Fewer ==
  ASSUME NEW B, IsFiniteSet(B), NEW A \in SUBSET B, NEW m \in Int, NEW n \in Int,
         Cardinality(B) <= m, m <= n
  PROVE  Cardinality(A) <= n
<1>1. IsFiniteSet(A) /\ Cardinality(A) <= Cardinality(B)
  BY FS_Subset
<1>2. Cardinality(A) \in Nat /\ Cardinality(B) \in Nat
  BY <1>1, FS_CardinalityType
<1> QED
  BY <1>1, <1>2

LEMMA TalkFinite ==
  ASSUME DataInv PROVE \A A : A \subseteq talk => IsFiniteSet(A)
<1>1. 1 \in Int /\ last \in Int /\ talk \subseteq 1..last
  BY Bounds DEF DataInv
<1>2. IsFiniteSet(1..last)
  BY <1>1, FS_Interval
<1> QED
  BY <1>1, <1>2, FS_Subset

\* A session that was written down earlier forgets no more of what has come since.
LEMMA UnfiledLater ==
  ASSUME DataInv, DataInv', NEW im, Sound(im, last, talk), late <= late',
         Cardinality(Unfiled(im)) <= late,
         talk' \subseteq talk \cup {last + 1}, excused \subseteq excused'
  PROVE  Cardinality(Unfiled(im)') <= late'
<1>1. Seen(im) \subseteq 1..last /\ last \in Nat /\ talk \subseteq 1..last
  <2>1. Listed(im.history, last, talk) /\ im.summary \subseteq 1..last /\ last \in Nat
    BY SoundParts, Bounds DEF DataInv
  <2> QED
    BY <2>1, IdsOfIn DEF Seen, DataInv
<1>2. \A n \in Seen(im) : ~(last + 1 <= n)
  BY <1>1
<1>3. Unfiled(im)' \subseteq Unfiled(im)
  BY <1>2 DEF Unfiled, Seen
<1>4. IsFiniteSet(Unfiled(im))
  BY TalkFinite DEF Unfiled
<1> QED
  BY <1>3, <1>4, Fewer DEF DataInv

\* What memory has not forgotten is no loss in a copy of it.
LEMMA UnfiledSnapshot ==
  ASSUME DataInv, CountInv
  PROVE  Cardinality(Unfiled(Image(history, summary))) <= late
<1>1. Unfiled(Image(history, summary)) \subseteq Forgotten
  BY SoundImage DEF Unfiled, Seen, Forgotten
<1>2. IsFiniteSet(Forgotten)
  BY TalkFinite DEF Forgotten
<1> QED
  BY <1>1, <1>2, Fewer DEF DataInv, CountInv

\* A message is added.
LEMMA CountAdd ==
  ASSUME DataInv, DataInv', CountInv, NEW role \in Roles, Add(role),
         UNCHANGED <<summary, disk, copy, excused>>,
         \A s \in Summarizers : pc'[s] = pc[s],
         \A p \in Procs : pc'[p] \in Renames => pc[p] = pc'[p]
  PROVE  CountInv'
<1>1. /\ last \in Nat /\ late \in Nat /\ Keep \in Nat /\ Listed(history, last, talk)
      /\ history' = Append(history, [id |-> last + 1, role |-> role])
      /\ [id |-> last + 1, role |-> role] \in Messages
  BY SoundImage, Bounds DEF DataInv, Add, Messages, Ids
<1>2. talk' \subseteq talk \cup {last + 1} /\ late' \in Nat /\ late <= late'
  BY AddSound, <1>1
<1>3. IdsOf(history') = IdsOf(history) \cup {last + 1}
  BY <1>1, KeptAfterAppend
<1>4. Cardinality(Forgotten') <= late'
  <2>1. Forgotten' \subseteq Forgotten
    BY <1>2, <1>3 DEF Forgotten
  <2>2. IsFiniteSet(Forgotten)
    BY TalkFinite DEF Forgotten
  <2> QED
    BY <1>1, <1>2, <2>1, <2>2, Fewer DEF CountInv
<1>5. ASSUME NEW s \in Summarizers, UnderWay(s)' PROVE Cardinality(Lost(s)') <= late'
  <2>1. UnderWay(s) /\ Covered(s)' = Covered(s)
    BY <1>5 DEF UnderWay, Covered
  <2>2. late' = late + 1
    BY <2>1 DEF UnderWay, SummaryUnderWay, Add
  <2>3. PICK x : IdsOf(LastOf(history, Keep)) \ {x} \subseteq IdsOf(LastOf(history', Keep))
    BY <1>1, KeptAfterAppend
  <2>4. last + 1 \in IdsOf(LastOf(history', Keep))
    <3>1. DataInv' /\ Listed(history', last', talk')
      BY AddSound
    <3> DEFINE b == LastOf(history', Keep)
    <3>2. /\ b \in Seq(Messages)
          /\ Len(history) \in Nat /\ Len(history') = Len(history) + 1
      <4>1. history \in Seq(Messages) /\ history' \in Seq(Messages)
        BY <1>1, <3>1 DEF Listed
      <4>2. b \in Seq(Messages)
        BY <1>1, <4>1, LastOfShape
      <4> QED
        BY <1>1, <4>1, <4>2
    <3>3. Len(b) = (IF Len(history') <= Keep THEN Len(history') ELSE Keep)
          /\ \A i \in 1..Len(b) : b[i] = history'[i + Len(history') - Len(b)]
      BY <1>1, <3>1, LastOfShape DEF Listed
    <3> HIDE DEF b
    <3>4. Len(b) \in 1..Len(b)
      BY <3>2, <3>3, Bounds
    <3>5. b[Len(b)] = history'[Len(history')]
      <4>1. Len(b) + Len(history') - Len(b) = Len(history')
        BY <3>2, <3>3, Bounds
      <4> QED
        BY <3>3, <3>4, <4>1
    <3>6. history'[Len(history')].id = last + 1
      BY <1>1 DEF Listed
    <3> QED
      BY <3>2, <3>4, <3>5, <3>6 DEF IdsOf, b
  <2>5. Lost(s)' \subseteq Lost(s) \cup {x}
    BY <1>2, <2>1, <2>3, <2>4 DEF Lost
  <2>6. IsFiniteSet(Lost(s)) /\ Cardinality(Lost(s)) <= late
    BY <2>1, TalkFinite DEF Lost, CountInv
  <2>7. IsFiniteSet(Lost(s) \cup {x}) /\ Cardinality(Lost(s) \cup {x}) <= late + 1
    <3>1. Cardinality(Lost(s)) \in Nat
      BY <2>6, FS_CardinalityType
    <3>2. IsFiniteSet(Lost(s) \cup {x})
          /\ Cardinality(Lost(s) \cup {x}) =
               IF x \in Lost(s) THEN Cardinality(Lost(s)) ELSE Cardinality(Lost(s)) + 1
      BY <2>6, FS_AddElement, Zenon
    <3> QED
      BY <1>1, <2>6, <3>1, <3>2
  <2> QED
    BY <1>1, <2>2, <2>5, <2>7, Fewer
<1>6. Cardinality(Unfiled(disk)') <= late'
  <2>1. Cardinality(Unfiled(disk)) <= late /\ Sound(disk, last, talk)
    BY DEF CountInv, DataInv
  <2> QED
    BY <1>2, <2>1, UnfiledLater DEF Unfiled
<1>7. ASSUME NEW p \in Procs, pc'[p] \in Renames PROVE Cardinality(Unfiled(copy[p])') <= late'
  <2>1. Cardinality(Unfiled(copy[p])) <= late /\ Sound(copy[p], last, talk)
    BY <1>7 DEF CountInv, DataInv
  <2> QED
    BY <1>2, <2>1, UnfiledLater DEF Unfiled
<1>8. \A s \in Summarizers : pc'[s] = "truncate" => copy'[s].summary = summary'
  BY DEF CountInv
<1> QED
  BY <1>4, <1>5, <1>6, <1>7, <1>8 DEF CountInv

\* A step that neither adds a message nor changes the history in memory.
LEMMA CountSame ==
  ASSUME DataInv, DataInv', CountInv, UNCHANGED <<history, summary, talk, late>>,
         excused \subseteq excused',
         \A s \in Summarizers : UnderWay(s)' =>
           \/ UnderWay(s) /\ Covered(s) \subseteq Covered(s)' \cup excused'
           \/ Lost(s)' \subseteq Forgotten,
         \A s \in Summarizers :
           pc'[s] = "truncate" => pc[s] = "truncate" /\ copy'[s] = copy[s],
         \A p \in Procs : pc'[p] \in Renames =>
           \/ pc[p] \in Renames /\ copy'[p] = copy[p]
           \/ copy'[p] = Image(history, summary),
         disk' = disk \/ \E p \in Procs : pc[p] \in Renames /\ disk' = copy[p]
  PROVE  CountInv'
<1>0. late \in Nat /\ talk' \subseteq talk \cup {last + 1}
  BY DEF DataInv
<1>1. Cardinality(Forgotten') <= late'
  <2>1. Forgotten' \subseteq Forgotten /\ IsFiniteSet(Forgotten)
    BY TalkFinite DEF Forgotten
  <2> QED
    BY <1>0, <2>1, Fewer DEF CountInv
<1>2. ASSUME NEW s \in Summarizers, UnderWay(s)' PROVE Cardinality(Lost(s)') <= late'
  <2>1. CASE UnderWay(s) /\ Covered(s) \subseteq Covered(s)' \cup excused'
    <3>1. Lost(s)' \subseteq Lost(s) /\ IsFiniteSet(Lost(s)) /\ Cardinality(Lost(s)) <= late
      BY <2>1, TalkFinite DEF Lost, CountInv
    <3> QED
      BY <1>0, <3>1, Fewer
  <2>2. CASE Lost(s)' \subseteq Forgotten
    <3>1. IsFiniteSet(Forgotten) /\ Cardinality(Forgotten) <= late
      BY TalkFinite DEF Forgotten, CountInv
    <3> QED
      BY <1>0, <2>2, <3>1, Fewer
  <2> QED
    BY <1>2, <2>1, <2>2
<1>3. ASSUME NEW im, Sound(im, last, talk), Cardinality(Unfiled(im)) <= late
      PROVE  Cardinality(Unfiled(im)') <= late'
  BY <1>0, <1>3, UnfiledLater
<1>4. Cardinality(Unfiled(disk)') <= late'
  <2>1. PICK im : disk' = im /\ Sound(im, last, talk) /\ Cardinality(Unfiled(im)) <= late
    BY DEF CountInv, DataInv
  <2>2. Cardinality(Unfiled(im)') <= late'
    BY <1>3, <2>1
  <2> QED
    BY <2>1, <2>2 DEF Unfiled
<1>5. ASSUME NEW p \in Procs, pc'[p] \in Renames PROVE Cardinality(Unfiled(copy[p])') <= late'
  <2>1. PICK im : copy'[p] = im /\ Sound(im, last, talk) /\ Cardinality(Unfiled(im)) <= late
    BY <1>5, UnfiledSnapshot DEF CountInv, DataInv
  <2>2. Cardinality(Unfiled(im)') <= late'
    BY <1>3, <2>1
  <2> QED
    BY <2>1, <2>2 DEF Unfiled
<1>6. \A s \in Summarizers : pc'[s] = "truncate" => copy'[s].summary = summary'
  BY DEF CountInv, UnderWay
<1> QED
  BY <1>1, <1>2, <1>4, <1>5, <1>6 DEF CountInv

\* A step that changes the session in memory, and no copy of it.
LEMMA CountRewrite ==
  ASSUME DataInv, DataInv', CountInv, UNCHANGED <<disk, talk, copy, last>>,
         excused \subseteq excused', late <= late',
         \A p \in Procs : pc'[p] \in Renames => pc[p] = pc'[p],
         Cardinality(Forgotten') <= late',
         \A s \in Summarizers : UnderWay(s)' => Cardinality(Lost(s)') <= late',
         \A s \in Summarizers : pc'[s] = "truncate" => copy[s].summary = summary'
  PROVE  CountInv'
<1>1. Cardinality(Unfiled(disk)') <= late'
  <2>1. Cardinality(Unfiled(disk)) <= late /\ Sound(disk, last, talk)
    BY DEF CountInv, DataInv
  <2> QED
    BY <2>1, UnfiledLater DEF Unfiled
<1>2. ASSUME NEW p \in Procs, pc'[p] \in Renames PROVE Cardinality(Unfiled(copy[p])') <= late'
  <2>1. Cardinality(Unfiled(copy[p])) <= late /\ Sound(copy[p], last, talk)
    BY <1>2 DEF CountInv, DataInv
  <2> QED
    BY <2>1, UnfiledLater DEF Unfiled
<1> QED
  BY <1>1, <1>2 DEF CountInv

\* A compression writes the history it has made earlier.
LEMMA CountCompress ==
  ASSUME ProcsInv, DataInv, DataInv', CountInv, NEW r \in Rounds, CompressWrite(r)
  PROVE  CountInv'
<1>1. /\ Listed(history, last, talk) /\ Listed(history', last, talk)
      /\ UNCHANGED <<summary, disk, talk, copy, last>>
      /\ late \in Nat /\ late' \in Nat /\ last \in Nat /\ Keep \in Nat
      /\ excused' = excused \cup (IdsOf(history) \ IdsOf(history'))
  BY SoundImage, Bounds DEF DataInv, CompressWrite
<1>2. /\ \A p \in Procs : p # r => pc'[p] = pc[p]
      /\ pc'[r] \notin Renames
      /\ \A s \in Summarizers : s # r /\ s \in Procs
  BY SessionAssumption DEF CompressWrite, Goto, Renames, ProcsInv, Procs
<1> DEFINE new == IdsOf(history') \ IdsOf(history)
<1>3. IsFiniteSet(new) /\ Cardinality(new) \in Nat
  BY <1>1, IdsCount, FS_Difference, FS_CardinalityType
<1>4. late' = IF SummaryUnderWay THEN late + Cardinality(new) ELSE late
  BY DEF CompressWrite
<1> HIDE DEF new
<1>5. late <= late'
  BY <1>1, <1>3, <1>4
<1>6. Cardinality(Forgotten') <= late'
  <2>1. Forgotten' \subseteq Forgotten /\ IsFiniteSet(Forgotten)
    BY <1>1, TalkFinite DEF Forgotten
  <2> QED
    BY <1>1, <1>5, <2>1, Fewer DEF CountInv
<1>7. ASSUME NEW s \in Summarizers, UnderWay(s)' PROVE Cardinality(Lost(s)') <= late'
  <2>1. UnderWay(s) /\ Covered(s)' = Covered(s)
    BY <1>1, <1>2, <1>7 DEF UnderWay, Covered
  <2>2. late' = late + Cardinality(new)
    BY <1>4, <2>1 DEF UnderWay, SummaryUnderWay
  <2> DEFINE out == (IdsOf(LastOf(history, Keep)) \cap IdsOf(history'))
                      \ IdsOf(LastOf(history', Keep))
  <2>3. Cardinality(out) <= Cardinality(new)
    BY <1>1, KeptAfterReplace DEF new
  <2>4. Lost(s)' \subseteq Lost(s) \cup out
    BY <1>1, <2>1, KeptIn DEF Lost
  <2>5. IsFiniteSet(Lost(s)) /\ Cardinality(Lost(s)) <= late
    BY <2>1, TalkFinite DEF Lost, CountInv
  <2>6. IsFiniteSet(out)
    BY <1>1, KeptCount, FS_Intersection, FS_Difference
  <2> HIDE DEF out
  <2>7. /\ IsFiniteSet(Lost(s) \cup out) /\ IsFiniteSet(Lost(s) \cap out)
        /\ Cardinality(Lost(s) \cup out) =
             Cardinality(Lost(s)) + Cardinality(out) - Cardinality(Lost(s) \cap out)
    BY <2>5, <2>6, FS_Union, FS_Intersection
  <2>8. Cardinality(Lost(s)) \in Nat /\ Cardinality(out) \in Nat
        /\ Cardinality(Lost(s) \cap out) \in Nat
    BY <2>5, <2>6, <2>7, FS_CardinalityType
  <2>9. Cardinality(Lost(s) \cup out) <= late'
    BY <1>1, <1>3, <2>2, <2>3, <2>5, <2>7, <2>8
  <2> QED
    BY <1>1, <2>4, <2>7, <2>9, Fewer
<1>8. \A s \in Summarizers : pc'[s] = "truncate" => copy[s].summary = summary'
  BY <1>1, <1>2 DEF CountInv
<1> QED
  BY <1>1, <1>2, <1>5, <1>6, <1>7, <1>8, CountRewrite

LEMMA ReadCovers ==
  ASSUME NEW h, NEW n \in Nat, NEW t, Listed(h, n, t)
  PROVE  t \cap IdsOf(h) \subseteq ToSummarize(h) \cup IdsOf(LastOf(h, Keep))
<1> DEFINE g == LastOf(h, Keep)
           lh == Len(h)
           lg == Len(g)
<1>1. /\ lh \in Nat /\ lg = (IF lh <= Keep THEN lh ELSE Keep)
      /\ \A i \in 1..lg : g[i] = h[i + lh - lg]
  <2>1. h \in Seq(Messages)
    BY DEF Listed
  <2> HIDE DEF g
  <2> QED
    BY <2>1, LastOfShape, Bounds DEF g
<1>2. Listed(g, n, t)
  BY ListedLast, Bounds
<1>3. \A l \in 1..lg : g[l].id \in IdsOf(g)
  BY <1>2, IdsOfIn
<1>4. ASSUME NEW i \in 1..lh, i + Keep <= lh, h[i].id \in t PROVE h[i].id \in ToSummarize(h)
  BY <1>4 DEF ToSummarize, Listed
<1> HIDE DEF lh, lg
<1> SUFFICES ASSUME NEW x \in t, x \in IdsOf(h), x \notin ToSummarize(h) PROVE x \in IdsOf(g)
  OBVIOUS
<1>5. PICK i \in 1..lh : x = h[i].id
  BY IdsOfIn DEF lh
<1> HIDE DEF g
<1>6. ~(i + Keep <= lh)
  BY <1>4, <1>5
<1>7. i - (lh - lg) \in 1..lg
  BY <1>1, <1>6, Bounds
<1>8. g[i - (lh - lg)] = h[i]
  BY <1>1, <1>7, Bounds
<1> QED
  BY <1>3, <1>5, <1>7, <1>8

LEMMA CountStep == ProcsInv /\ DataInv /\ CountInv /\ [Next]_vars => CountInv'
<1> SUFFICES ASSUME ProcsInv, DataInv, CountInv, [Next]_vars PROVE CountInv'
  OBVIOUS
<1>0. /\ DataInv' /\ ProcsInv'
      /\ Listed(history, last, talk) /\ last \in Nat /\ late \in Nat
      /\ \A r \in Rounds : r \in Procs /\ r \notin Summarizers
      /\ \A s \in Summarizers : s \in Procs
      /\ \A p, q \in Procs : \A step : p # q /\ Goto(p, step) => pc'[q] = pc[q]
      /\ \A p \in Procs : \A step : Goto(p, step) => pc'[p] = step
  <2>1. DataInv' /\ ProcsInv'
    BY DataStep, ProcsStep
  <2>2. Listed(history, last, talk) /\ last \in Nat /\ late \in Nat
    BY SoundImage, Bounds DEF DataInv
  <2>3. /\ \A r \in Rounds : r \in Procs /\ r \notin Summarizers
        /\ \A s \in Summarizers : s \in Procs
    BY SessionAssumption DEF Procs
  <2>4. /\ \A p, q \in Procs : \A step : p # q /\ Goto(p, step) => pc'[q] = pc[q]
        /\ \A p \in Procs : \A step : Goto(p, step) => pc'[p] = step
    BY DEF ProcsInv, Goto
  <2> QED
    BY <2>1, <2>2, <2>3, <2>4
<1>1. ASSUME NEW r \in Rounds, RoundBegin(r) \/ RoundCalls(r) \/ RoundResult(r) \/ RoundAnswer(r)
      PROVE  CountInv'
  <2>1. PICK role \in Roles : Add(role)
    BY <1>1 DEF RoundBegin, RoundCalls, RoundResult, RoundAnswer, Roles
  <2>2. UNCHANGED <<summary, disk, copy, excused>>
    BY <1>1 DEF RoundBegin, RoundCalls, RoundResult, RoundAnswer
  <2>3. PICK step \in {"llm", "tools", "save"} : Goto(r, step)
    BY <1>1 DEF RoundBegin, RoundCalls, RoundResult, RoundAnswer
  <2>4. /\ \A s \in Summarizers : pc'[s] = pc[s]
        /\ \A p \in Procs : pc'[p] \in Renames => pc[p] = pc'[p]
    BY <1>0, <2>3 DEF Renames
  <2> QED
    BY <1>0, <2>1, <2>2, <2>4, CountAdd
<1>2. ASSUME NEW r \in Rounds, RoundFails(r) PROVE CountInv'
  <2>1. /\ UNCHANGED <<history, summary, disk, talk, late, excused, copy>> /\ Goto(r, "idle")
    BY <1>2 DEF RoundFails
  <2>2. /\ \A s \in Summarizers : pc'[s] = pc[s]
        /\ \A p \in Procs : pc'[p] \in Renames => pc[p] = pc'[p]
    BY <1>0, <2>1 DEF Renames
  <2> QED
    BY <1>0, <2>1, <2>2, CountSame DEF UnderWay, Covered
<1>3. ASSUME NEW r \in Rounds, RoundCheck(r) PROVE CountInv'
  <2>1. UNCHANGED <<history, summary, disk, talk, late, excused, copy>>
    BY <1>3 DEF RoundCheck
  <2>2. \A p \in Procs : pc'[p] = pc[p] \/ pc'[p] \in {"read", "idle"}
    BY <1>3 DEF RoundCheck, Goto, ProcsInv
  <2>3. /\ \A s \in Summarizers : UnderWay(s)' => pc'[s] = pc[s]
        /\ \A p \in Procs : pc'[p] \in Renames => pc[p] = pc'[p]
    BY <1>0, <2>2 DEF Renames, UnderWay
  <2> QED
    BY <1>0, <2>1, <2>3, CountSame DEF UnderWay, Covered
<1>4. ASSUME NEW r \in Rounds, CompressRead(r) PROVE CountInv'
  <2>1. /\ UNCHANGED <<history, summary, disk, talk, late, excused>> /\ Goto(r, "setHistory")
        /\ \A p \in Procs : p # r => copy'[p] = copy[p]
    BY <1>4 DEF CompressRead, DataInv
  <2>2. /\ \A s \in Summarizers : pc'[s] = pc[s] /\ copy'[s] = copy[s]
        /\ \A p \in Procs : pc'[p] \in Renames => pc[p] = pc'[p] /\ copy'[p] = copy[p]
    BY <1>0, <2>1 DEF Renames
  <2> QED
    BY <1>0, <2>1, <2>2, CountSame DEF UnderWay, Covered
<1>5. ASSUME NEW r \in Rounds, CompressWrite(r) PROVE CountInv'
  BY <1>0, <1>5, CountCompress
<1>6. ASSUME NEW s \in Summarizers, SummaryRead(s) PROVE CountInv'
  <2>1. /\ UNCHANGED <<history, summary, disk, talk, late, excused>>
        /\ copy'[s] = Image(history, summary)
        /\ \A p \in Procs : p # s => copy'[p] = copy[p] /\ pc'[p] = pc[p]
        /\ pc'[s] \in {"ask", "release"} /\ s \in Procs
    BY <1>0, <1>6 DEF SummaryRead, DataInv
  <2>2. \A p \in Procs : pc'[p] \in Renames => pc[p] \in Renames /\ copy'[p] = copy[p]
    BY <2>1 DEF Renames
  <2>3. \A t \in Summarizers : UnderWay(t)' => t = s
    BY <1>0, <1>6, <2>1 DEF SummaryRead, ProcsInv, OneSummary, UnderWay
  <2>4. UnderWay(s)' => Lost(s)' \subseteq Forgotten
    <3> SUFFICES ASSUME pc'[s] = "ask" PROVE Lost(s)' \subseteq Forgotten
      BY <2>1 DEF UnderWay
    <3>1. Covered(s)' = summary \cup ToSummarize(history)
      BY <2>1 DEF Covered, Image
    <3>2. talk \cap IdsOf(history) \subseteq ToSummarize(history) \cup IdsOf(LastOf(history, Keep))
      BY <1>0, ReadCovers
    <3> QED
      BY <2>1, <3>1, <3>2 DEF Lost, Forgotten
  <2>5. \A t \in Summarizers : pc'[t] # "truncate"
    BY <1>0, <2>1, <2>3 DEF UnderWay
  <2> QED
    BY <1>0, <2>1, <2>2, <2>3, <2>4, <2>5, CountSame
<1>7. ASSUME NEW s \in Summarizers, SummaryAsk(s) PROVE CountInv'
  <2> DEFINE ids == ToSummarize(copy[s].history)
  <2>1. /\ UNCHANGED <<history, summary, disk, talk, late>> /\ Goto(s, "set") /\ pc[s] = "ask"
        /\ s \in Procs
    BY <1>0, <1>7 DEF SummaryAsk
  <2>2. PICK S : /\ copy' = [copy EXCEPT ![s].summary = S]
                 /\ excused \subseteq excused'
                 /\ copy[s].summary \cup ids \subseteq S \cup excused'
    <3>1. CASE Cardinality(ids) <= MultiPart
      <4>1. copy' = [copy EXCEPT ![s].summary = copy[s].summary \cup ids] /\ excused' = excused
        BY <1>7, <2>1, <3>1 DEF SummaryAsk, DataInv
      <4> QED
        BY <4>1
    <3>2. CASE ~(Cardinality(ids) <= MultiPart)
      <4>1. PICK part : /\ copy' = [copy EXCEPT ![s].summary = part]
                        /\ excused' = excused \cup ((copy[s].summary \cup ids) \ part)
        BY <1>7, <3>2 DEF SummaryAsk
      <4> QED
        BY <4>1
    <3> QED
      BY <3>1, <3>2
  <2>3. copy' = [copy EXCEPT ![s] = Image(copy[s].history, S)]
    BY <2>2, AskShape
  <2>4. copy'[s].summary = S /\ \A p \in Procs : p # s => copy'[p] = copy[p]
    BY <2>1, <2>3 DEF DataInv, Image
  <2>5. Covered(s) = copy[s].summary \cup ids /\ Covered(s)' = S
    BY <1>0, <2>1, <2>4 DEF Covered
  <2> HIDE DEF ids
  <2>6. \A p \in Procs : p # s => pc'[p] = pc[p]
    BY <1>0, <2>1
  <2>7. \A p \in Procs : pc'[p] \in Renames => pc[p] \in Renames /\ copy'[p] = copy[p]
    BY <1>0, <2>1, <2>4, <2>6 DEF Renames
  <2>8. \A t \in Summarizers :
          UnderWay(t)' => UnderWay(t) /\ Covered(t) \subseteq Covered(t)' \cup excused'
    BY <1>0, <2>1, <2>2, <2>4, <2>5, <2>6 DEF UnderWay, Covered
  <2>9. \A t \in Summarizers : pc'[t] = "truncate" => pc[t] = "truncate" /\ copy'[t] = copy[t]
    BY <1>0, <2>1, <2>4, <2>6
  <2> QED
    BY <1>0, <2>1, <2>2, <2>7, <2>8, <2>9, CountSame
<1>8. ASSUME NEW s \in Summarizers, SummaryFails(s) \/ SummaryRelease(s) PROVE CountInv'
  <2>1. /\ UNCHANGED <<history, summary, disk, talk, late, excused>>
        /\ Goto(s, "release") \/ Goto(s, "idle")
        /\ \A p \in Procs : p # s => copy'[p] = copy[p]
    BY <1>8 DEF SummaryFails, SummaryRelease, DataInv
  <2>2. /\ \A p \in Procs : p # s => pc'[p] = pc[p]
        /\ pc'[s] \in {"release", "idle"} /\ s \in Procs
    BY <1>0, <2>1
  <2>3. \A p \in Procs : pc'[p] \in Renames => pc[p] \in Renames /\ copy'[p] = copy[p]
    BY <2>1, <2>2 DEF Renames
  <2>4. \A t \in Summarizers : UnderWay(t)' => t # s
    BY <2>2 DEF UnderWay
  <2>5. \A t \in Summarizers : pc'[t] = "truncate" => t # s
    BY <2>2
  <2> QED
    BY <1>0, <2>1, <2>2, <2>3, <2>4, <2>5, CountSame DEF UnderWay, Covered
<1>9. ASSUME NEW s \in Summarizers, SummarySet(s) PROVE CountInv'
  <2>1. /\ UNCHANGED <<history, last, disk, talk, late, excused, copy>> /\ Goto(s, "truncate")
        /\ summary' = copy[s].summary /\ pc[s] = "set" /\ s \in Procs
    BY <1>0, <1>9 DEF SummarySet
  <2>2. /\ \A p \in Procs : p # s => pc'[p] = pc[p]
        /\ pc'[s] = "truncate"
    BY <1>0, <2>1
  <2>3. \A t \in Summarizers : UnderWay(t)' => t = s
    BY <1>0, <2>1, <2>2 DEF ProcsInv, OneSummary, UnderWay
  <2>4. Lost(s)' = Lost(s) /\ Cardinality(Lost(s)) <= late /\ IsFiniteSet(Lost(s))
    BY <2>1, <2>2, TalkFinite DEF Lost, Covered, UnderWay, CountInv
  <2>5. Forgotten' \subseteq Lost(s)
    <3>1. IdsOf(LastOf(history, Keep)) \subseteq IdsOf(history)
      BY <1>0, KeptIn, Bounds
    <3> QED
      BY <2>1, <3>1 DEF Forgotten, Lost, Covered
  <2>6. Cardinality(Forgotten') <= late'
    BY <1>0, <2>1, <2>4, <2>5, Fewer
  <2>7. \A p \in Procs : pc'[p] \in Renames => pc[p] = pc'[p]
    BY <2>2 DEF Renames
  <2>8. \A t \in Summarizers : pc'[t] = "truncate" => t = s
    BY <2>3 DEF UnderWay
  <2>9. late <= late'
    BY <1>0, <2>1
  <2> QED
    BY <1>0, <2>1, <2>3, <2>4, <2>6, <2>7, <2>8, <2>9, CountRewrite
<1>10. ASSUME NEW s \in Summarizers, SummaryTruncate(s) PROVE CountInv'
  <2>1. /\ UNCHANGED <<summary, last, disk, talk, late, excused, copy>> /\ Goto(s, "saveSummary")
        /\ history' = LastOf(history, Keep) /\ pc[s] = "truncate" /\ s \in Procs
    BY <1>0, <1>10 DEF SummaryTruncate
  <2>2. /\ \A p \in Procs : p # s => pc'[p] = pc[p]
        /\ pc'[s] = "saveSummary"
    BY <1>0, <2>1
  <2>3. \A t \in Summarizers : ~UnderWay(t)' /\ pc'[t] # "truncate"
    BY <1>0, <2>1, <2>2 DEF ProcsInv, OneSummary, UnderWay
  <2>4. Forgotten' = Lost(s)
    BY <2>1 DEF Forgotten, Lost, Covered, CountInv
  <2>5. Cardinality(Forgotten') <= late' /\ late <= late'
    BY <1>0, <2>1, <2>4 DEF CountInv, UnderWay
  <2>6. \A p \in Procs : pc'[p] \in Renames => pc[p] = pc'[p]
    BY <2>2 DEF Renames
  <2> QED
    BY <1>0, <2>1, <2>3, <2>5, <2>6, CountRewrite
<1>11. ASSUME NEW p \in Procs, SaveSnapshot(p) PROVE CountInv'
  <2>1. /\ UNCHANGED <<history, summary, disk, talk, late, excused>>
        /\ \A q \in Procs : q # p => copy'[q] = copy[q] /\ pc'[q] = pc[q]
        /\ pc[p] \in {"save", "saveCompressed", "saveSummary"}
    BY <1>0, <1>11 DEF SaveSnapshot, DataInv, Renaming
  <2>2. pc'[p] \in Renames => copy'[p] = Image(history, summary)
    BY <1>0, <1>11, <2>1 DEF SaveSnapshot, DataInv, Renaming, AfterSave, Renames
  <2>3. pc'[p] \notin {"ask", "set", "truncate"}
    BY <1>0, <1>11, <2>1 DEF SaveSnapshot, Renaming, AfterSave
  <2>4. \A q \in Procs : pc'[q] \in Renames =>
          (pc[q] \in Renames /\ copy'[q] = copy[q]) \/ copy'[q] = Image(history, summary)
    BY <2>1, <2>2
  <2>5. \A t \in Summarizers : UnderWay(t)' => t # p
    BY <2>3 DEF UnderWay
  <2>6. \A t \in Summarizers : pc'[t] = "truncate" => t # p
    BY <2>3
  <2> QED
    BY <1>0, <2>1, <2>4, <2>5, <2>6, CountSame DEF UnderWay, Covered
<1>12. ASSUME NEW p \in Procs, SaveRename(p) PROVE CountInv'
  <2>1. /\ UNCHANGED <<history, summary, talk, late, excused>>
        /\ \A q \in Procs : q # p => copy'[q] = copy[q] /\ pc'[q] = pc[q]
        /\ pc[p] \in Renames
        /\ disk' = disk \/ disk' = copy[p]
    BY <1>0, <1>12 DEF SaveRename, DataInv, Renaming, Renames
  <2>2. pc'[p] \in {"llm", "release", "check", "idle"}
    BY <1>0, <1>12 DEF SaveRename, AfterSave
  <2>3. \A q \in Procs : pc'[q] \in Renames => pc[q] \in Renames /\ copy'[q] = copy[q]
    BY <2>1, <2>2 DEF Renames
  <2>4. \A t \in Summarizers : UnderWay(t)' => t # p
    BY <2>2 DEF UnderWay
  <2>5. \A t \in Summarizers : pc'[t] = "truncate" => t # p
    BY <2>2
  <2> QED
    BY <1>0, <2>1, <2>3, <2>4, <2>5, CountSame DEF UnderWay, Covered
<1>13. CASE Crash
  <2>1. \A p \in Procs : pc'[p] = "idle"
    BY <1>13 DEF Crash
  <2>2. Forgotten' = {}
    BY <1>13 DEF Crash, Forgotten
  <2>3. Cardinality(Forgotten') <= late'
    BY <1>0, <1>13, <2>2, FS_EmptySet DEF Crash
  <2>4. Cardinality(Unfiled(disk)') <= late'
    <3>1. Cardinality(Unfiled(disk)) <= late /\ Sound(disk, last, talk)
      BY DEF CountInv, DataInv
    <3>2. talk' = talk /\ late' = late /\ disk' = disk /\ excused \subseteq excused'
      BY <1>13 DEF Crash
    <3> QED
      BY <1>0, <3>1, <3>2, UnfiledLater DEF Unfiled
  <2>5. /\ \A s \in Summarizers : ~UnderWay(s)' /\ pc'[s] # "truncate"
        /\ \A p \in Procs : pc'[p] \notin Renames
    BY <1>0, <2>1 DEF UnderWay, Renames
  <2> QED
    BY <2>3, <2>4, <2>5 DEF CountInv
<1>14. CASE UNCHANGED vars
  <2>1. UNCHANGED <<history, summary, disk, talk, late, excused, copy, pc>>
    BY <1>14 DEF vars
  <2> QED
    BY <1>0, <2>1, CountSame DEF UnderWay, Covered
<1> QED
  BY <1>1, <1>2, <1>3, <1>4, <1>5, <1>6, <1>7, <1>8, <1>9, <1>10, <1>11, <1>12, <1>13,
     <1>14 DEF Next, Round, Summarize, Save

LEMMA CountInit == Init => CountInv
<1> SUFFICES ASSUME Init PROVE CountInv
  OBVIOUS
<1>1. Forgotten = {} /\ Unfiled(disk) = {}
  BY DEF Init, Forgotten, Unfiled
<1>2. \A p \in Procs : pc[p] = "idle"
  BY DEF Init
<1> QED
  BY <1>1, <1>2, FS_EmptySet DEF Init, CountInv, UnderWay, Renames, Procs

\* Whatever rounds, compressions, summaries and crashes do to each other, the history is
\* in order, in memory and in the file, and memory has forgotten no more messages than
\* came in while a summary was written.
THEOREM HistoryIsKept == Spec => []HistoryKept
<1>1. DataInv /\ CountInv => HistoryKept
  BY SoundImage, SoundParts
     DEF DataInv, CountInv, HistoryKept, HistoryInOrder, ForgetsAtMostLate, Forgotten, Listed
<1> QED
  BY <1>1, InitInv, CountInit, ProcsStep, DataStep, CountStep, PTL DEF Spec

\* However the saves of rounds, compressions and summaries overtake each other, fail, or
\* are cut off by a crash, the file forgets no more than that either.
THEOREM FileIsKept == Spec => []FileForgetsAtMostLate
<1>1. CountInv => FileForgetsAtMostLate
  BY DEF CountInv, FileForgetsAtMostLate, Unfiled, Seen
<1> QED
  BY <1>1, InitInv, CountInit, ProcsStep, DataStep, CountStep, PTL DEF Spec

-----------------------------------------------------------------------------
(* SummaryGrows, while one batch is enough: the guard keeps the summary that *)
(* a summarizer has read in place until it sets its own.                     *)

GrowInv ==
  \A s \in Summarizers : pc[s] \in {"ask", "set"} => summary \subseteq copy[s].summary

LEMMA AskGrows ==
  ASSUME MaxMessages <= MultiPart, ProcsInv, DataInv, NEW s \in Summarizers, SummaryAsk(s)
  PROVE  /\ copy[s].summary \subseteq copy'[s].summary
         /\ \A t \in Summarizers : t # s => copy'[t] = copy[t]
<1> DEFINE ids == ToSummarize(copy[s].history)
<1>1. s \in Procs /\ Summarizers \subseteq Procs /\ copy = [p \in Procs |-> copy[p]]
      /\ Listed(copy[s].history, last, talk) /\ last \in Nat /\ last <= MaxMessages
  <2>1. s \in Procs /\ Summarizers \subseteq Procs
    BY DEF Procs
  <2>2. Sound(copy[s], last, talk) /\ copy = [p \in Procs |-> copy[p]]
    BY <2>1 DEF DataInv
  <2>3. last \in Nat /\ last <= MaxMessages
    BY Bounds DEF DataInv
  <2> QED
    BY <2>1, <2>2, <2>3, SoundParts
<1>2. ids \subseteq 1..last
  BY <1>1, ToSummarizeIn, IdsOfIn
<1>3. IsFiniteSet(1..last) /\ Cardinality(1..last) <= MaxMessages
  <2>1. 1 \in Int /\ last \in Int
    BY <1>1
  <2>2. IsFiniteSet(1..last) /\ Cardinality(1..last) = IF 1 > last THEN 0 ELSE last - 1 + 1
    BY <2>1, FS_Interval, Zenon
  <2>3. (IF 1 > last THEN 0 ELSE last - 1 + 1) <= MaxMessages
    BY <1>1, Bounds
  <2> QED
    BY <2>2, <2>3
<1>4. Cardinality(ids) <= MultiPart
  <2> HIDE DEF ids
  <2>1. IsFiniteSet(ids) /\ Cardinality(ids) <= Cardinality(1..last)
    BY <1>2, <1>3, FS_Subset
  <2>2. Cardinality(ids) \in Nat /\ Cardinality(1..last) \in Nat
    BY <1>3, <2>1, FS_CardinalityType
  <2> QED
    BY <1>3, <2>1, <2>2, Bounds
<1>5. copy' = [copy EXCEPT ![s].summary = copy[s].summary \cup ids]
  BY <1>1, <1>4 DEF SummaryAsk
<1> HIDE DEF ids
<1>6. copy' = [copy EXCEPT ![s] = Image(copy[s].history, copy[s].summary \cup ids)]
  BY <1>5, AskShape
<1> QED
  BY <1>1, <1>6 DEF Image

LEMMA GrowStep ==
  ASSUME MaxMessages <= MultiPart
  PROVE  ProcsInv /\ DataInv /\ GrowInv /\ [Next]_vars =>
           GrowInv' /\ (summary \subseteq summary' \/ summary' = disk.summary)
<1> SUFFICES ASSUME ProcsInv, DataInv, GrowInv, [Next]_vars
             PROVE  GrowInv' /\ (summary \subseteq summary' \/ summary' = disk.summary)
  OBVIOUS
<1>0. /\ \A r \in Rounds : r \in Procs /\ r \notin Summarizers
      /\ \A s \in Summarizers : s \in Procs
      /\ pc \in [Procs -> Steps] /\ copy = [p \in Procs |-> copy[p]]
  BY SessionAssumption DEF Procs, ProcsInv, DataInv
<1>1. ASSUME NEW r \in Rounds,
             RoundBegin(r) \/ RoundCalls(r) \/ RoundResult(r) \/ RoundFails(r)
             \/ RoundAnswer(r) \/ CompressRead(r) \/ CompressWrite(r)
      PROVE  GrowInv' /\ summary' = summary
  <2>1. /\ summary' = summary
        /\ \A s \in Summarizers : copy'[s] = copy[s]
    BY <1>0, <1>1 DEF RoundBegin, RoundCalls, RoundResult, RoundFails, RoundAnswer,
         CompressRead, CompressWrite
  <2>2. PICK step : Goto(r, step)
    BY <1>1 DEF RoundBegin, RoundCalls, RoundResult, RoundFails, RoundAnswer,
         CompressRead, CompressWrite
  <2>3. \A s \in Summarizers : pc'[s] = pc[s]
    BY <1>0, <2>2 DEF Goto
  <2> QED
    BY <2>1, <2>3 DEF GrowInv
<1>2. ASSUME NEW r \in Rounds, RoundCheck(r) PROVE GrowInv' /\ summary' = summary
  <2>1. UNCHANGED <<summary, copy>>
    BY <1>2 DEF RoundCheck
  <2>2. \A p \in Procs : pc'[p] = pc[p] \/ pc'[p] \in {"read", "idle"}
    BY <1>0, <1>2 DEF RoundCheck, Goto
  <2> QED
    BY <1>0, <2>1, <2>2 DEF GrowInv
<1>3. ASSUME NEW s \in Summarizers, SummaryRead(s) PROVE GrowInv' /\ summary' = summary
  BY <1>0, <1>3 DEF SummaryRead, Goto, GrowInv, Image
<1>4. ASSUME NEW s \in Summarizers, SummaryAsk(s) PROVE GrowInv' /\ summary' = summary
  <2>1. UNCHANGED summary /\ Goto(s, "set") /\ pc[s] = "ask"
    BY <1>4 DEF SummaryAsk
  <2>2. /\ copy[s].summary \subseteq copy'[s].summary
        /\ \A t \in Summarizers : t # s => copy'[t] = copy[t]
    BY <1>4, AskGrows
  <2> QED
    BY <1>0, <2>1, <2>2 DEF GrowInv, Goto
<1>5. ASSUME NEW s \in Summarizers, SummaryFails(s) \/ SummaryTruncate(s) \/ SummaryRelease(s)
      PROVE  GrowInv' /\ summary' = summary
  BY <1>0, <1>5 DEF SummaryFails, SummaryTruncate, SummaryRelease, Goto, GrowInv
<1>6. ASSUME NEW s \in Summarizers, SummarySet(s) PROVE GrowInv' /\ summary \subseteq summary'
  <2>1. summary \subseteq summary'
    BY <1>6 DEF SummarySet, GrowInv
  <2>2. \A t \in Summarizers : pc'[t] \notin {"ask", "set"}
    BY <1>0, <1>6 DEF SummarySet, Goto, ProcsInv, OneSummary
  <2> QED
    BY <2>1, <2>2 DEF GrowInv
<1>7. ASSUME NEW p \in Procs, Save(p) PROVE GrowInv' /\ summary' = summary
  <2>1. /\ summary' = summary
        /\ \A q \in Procs : q # p => copy'[q] = copy[q] /\ pc'[q] = pc[q]
    BY <1>0, <1>7 DEF Save, SaveSnapshot, SaveRename, Goto
  <2>2. pc'[p] \notin {"ask", "set"}
    BY <1>0, <1>7 DEF Save, SaveSnapshot, SaveRename, Goto, Renaming, AfterSave
  <2> QED
    BY <1>0, <2>1, <2>2 DEF GrowInv
<1>8. CASE Crash
  BY <1>0, <1>8 DEF Crash, GrowInv
<1>9. CASE UNCHANGED vars
  BY <1>9 DEF vars, GrowInv
<1> QED
  BY <1>1, <1>2, <1>3, <1>4, <1>5, <1>6, <1>7, <1>8, <1>9 DEF Next, Round, Summarize

\* Two summaries of a session never overtake each other: where a batch holds all messages,
\* a summary is only replaced by one made from it, or by the file's after a crash.
THEOREM SummaryAlwaysGrows == ASSUME MaxMessages <= MultiPart PROVE Spec => SummaryGrows
<1>1. Init => GrowInv
  BY DEF Init, GrowInv, Procs
<1>2. ProcsInv /\ DataInv /\ GrowInv /\ [Next]_vars =>
        [summary \subseteq summary' \/ summary' = disk.summary]_vars
  BY GrowStep
<1> QED
  BY <1>1, <1>2, GrowStep, InitInv, ProcsStep, DataStep, PTL DEF Spec, SummaryGrows
=============================================================================
