--------------------------- MODULE ServicesProofs ---------------------------
(* Proofs about the services beside the agent loop, each for every value of *)
(* its constants: McpManager, ActiveChannel, Fallback, CronService,         *)
(* Subagents and MediaStore.                                                *)
EXTENDS McpManager, ActiveChannel, Fallback, CronService, Subagents, MediaStore,
        WellFoundedInduction, TLAPS

(***************************************************************************)
(* The MCP manager                                                         *)
(***************************************************************************)

LEMMA McpTypeStep == McpTypeOK /\ [McpNext]_mcpVars => McpTypeOK'
<1> SUFFICES ASSUME McpTypeOK, [McpNext]_mcpVars PROVE McpTypeOK'
  OBVIOUS
<1> USE DEF McpTypeOK
<1>1. ASSUME NEW s \in Servers, Connect(s) PROVE McpTypeOK'
  BY <1>1 DEF Connect
<1>2. ASSUME NEW s \in Servers, Store(s) PROVE McpTypeOK'
  BY <1>2 DEF Store
<1>3. CASE Loaded
  BY <1>3 DEF Loaded
<1>4. CASE CloseMark
  BY <1>4 DEF CloseMark
<1>5. CASE CloseSessions
  BY <1>5 DEF CloseSessions
<1>6. ASSUME NEW c \in ToolCalls, CallEnds(c) PROVE McpTypeOK'
  BY <1>6 DEF CallEnds
<1>7. ASSUME NEW c \in ToolCalls, NEW s \in Servers, CallLook(c, s) PROVE McpTypeOK'
  BY <1>7 DEF CallLook
<1>8. ASSUME NEW s \in Servers, ServerEnds(s) PROVE McpTypeOK'
  BY <1>8 DEF ServerEnds
<1>9. CASE ContextEnds
  BY <1>9 DEF ContextEnds
<1>10. CASE UNCHANGED mcpVars
  BY <1>10 DEF mcpVars
<1> QED
  BY <1>1, <1>2, <1>3, <1>4, <1>5, <1>6, <1>7, <1>8, <1>9, <1>10 DEF McpNext

\* The variables of the manager keep their types.
THEOREM McpTypeCorrect == McpSpec => []McpTypeOK
<1>1. McpInit => McpTypeOK
  BY DEF McpInit, McpTypeOK
<1> QED
  BY <1>1, McpTypeStep, PTL DEF McpSpec

-----------------------------------------------------------------------------
(* CloseIsClean.  Inductive with where the sessions are: a session belongs *)
(* to a server that is connected or stored, a stored server is in the map  *)
(* with its session until the sessions are closed, and Close and the calls *)
(* come only after every goroutine is over.  What a session still reaches  *)
(* (gone) plays no part: Close closes it all the same.                     *)

Settled == \A s \in Servers : connect[s] \in {"stored", "failed"}

McpInv ==
  /\ McpTypeOK
  /\ loading # "loading" => Settled
  /\ loading = "loading" => mcpState = "open" /\ \A c \in ToolCalls : toolCall[c] = "idle"
  /\ \A s \in session : connect[s] \in {"connected", "stored"}
  /\ \A s \in Servers : connect[s] = "connected" => s \in session
  /\ mcpState # "closed" =>
       /\ servers = {s \in Servers : connect[s] = "stored"}
       /\ servers \subseteq session
  /\ mcpState = "closed" =>
       /\ session \subseteq closeErrs
       /\ \A c \in ToolCalls : toolCall[c] # "calling"
  /\ \A c \in ToolCalls : toolCall[c] = "calling" => target[c] \in servers

LEMMA McpInvStep == McpInv /\ [McpNext]_mcpVars => McpInv'
<1> SUFFICES ASSUME McpInv, [McpNext]_mcpVars PROVE McpInv'
  OBVIOUS
<1>0. McpTypeOK'
  BY McpTypeStep DEF McpInv
<1> USE DEF McpInv, McpTypeOK, Settled
<1>1. ASSUME NEW s \in Servers, Connect(s) PROVE McpInv'
  BY <1>0, <1>1 DEF Connect
<1>2. ASSUME NEW s \in Servers, Store(s) PROVE McpInv'
  BY <1>0, <1>2 DEF Store
<1>3. CASE Loaded
  BY <1>0, <1>3 DEF Loaded
<1>4. CASE CloseMark
  BY <1>0, <1>4 DEF CloseMark
<1>5. CASE CloseSessions
  <2>1. session = servers
    BY <1>5 DEF CloseSessions
  <2>2. session' \subseteq closeErrs' /\ closeErrs' \subseteq servers
    BY <1>5, <2>1 DEF CloseSessions
  <2> QED
    BY <1>0, <1>5, <2>1, <2>2 DEF CloseSessions
<1>6. ASSUME NEW c \in ToolCalls, CallEnds(c) PROVE McpInv'
  BY <1>0, <1>6 DEF CallEnds
<1>7. ASSUME NEW c \in ToolCalls, NEW s \in Servers, CallLook(c, s) PROVE McpInv'
  BY <1>0, <1>7 DEF CallLook
<1>8. ASSUME NEW s \in Servers, ServerEnds(s) PROVE McpInv'
  BY <1>0, <1>8 DEF ServerEnds
<1>9. CASE ContextEnds
  BY <1>0, <1>9 DEF ContextEnds
<1>10. CASE UNCHANGED mcpVars
  BY <1>10 DEF mcpVars
<1> QED
  BY <1>1, <1>2, <1>3, <1>4, <1>5, <1>6, <1>7, <1>8, <1>9, <1>10 DEF McpNext

\* Close takes no session from a call in flight, and a closed manager leaves open no
\* session but those whose error it reports, although servers may end at any time and
\* the context of Run kills the stdio ones: Run returns only after the servers'
\* goroutines, and Close waits for the calls in flight.
THEOREM CloseIsCleanHolds == McpSpec => []CloseIsClean
<1>1. McpInit => McpInv
  BY DEF McpInit, McpInv, McpTypeOK, Settled
<1>2. McpInv => CloseIsClean
  BY DEF McpInv, CloseIsClean
<1> QED
  BY <1>1, <1>2, McpInvStep, PTL DEF McpSpec

(***************************************************************************)
(* The chat last in use                                                    *)
(***************************************************************************)

\* A chat that is recorded is a chat, or none.
LEMMA RecordTyped ==
  ASSUME AcTypeOK, NEW c \in Chats \cup {NoChat}, Record(c)
  PROVE  /\ known' \in [Managers -> Chats \cup {NoChat}]
         /\ saving' \in {"no", "temp", "renaming"} /\ rounds' \in 0..MaxRounds
  BY AcAssumption DEF AcAssumption, AcTypeOK, Record, Managers, Services

LEMMA AcTypeStep == AcTypeOK /\ [AcNext]_acVars => AcTypeOK'
<1> SUFFICES ASSUME AcTypeOK, [AcNext]_acVars PROVE AcTypeOK'
  OBVIOUS
<1> USE DEF AcTypeOK
<1>1. ASSUME NEW c \in Chats, UserRound(c) \/ OwnRound(c) PROVE AcTypeOK'
  BY <1>1, RecordTyped DEF UserRound, OwnRound
<1>2. CASE StateWrite
  BY <1>2 DEF StateWrite
<1>3. CASE StateRename
  BY <1>3 DEF StateRename, Whole, Managers
<1>4. CASE StateFails
  BY <1>4 DEF StateFails
<1>5. CASE BeatResolve
  BY <1>5 DEF BeatResolve, Managers, Services
<1>6. CASE BeatRound
  BY <1>6, RecordTyped DEF BeatRound
<1>7. CASE StopBeat
  BY <1>7 DEF StopBeat
<1>8. CASE Restart
  BY <1>8, AcAssumption DEF Restart, LoadedChat, Migrated, Whole, AcAssumption
<1>9. CASE UNCHANGED acVars
  BY <1>9 DEF acVars
<1> QED
  BY <1>1, <1>2, <1>3, <1>4, <1>5, <1>6, <1>7, <1>8, <1>9 DEF AcNext

\* The variables keep their types.
THEOREM AcTypeCorrect == AcSpec => []AcTypeOK
<1>1. AcInit => AcTypeOK
  BY AcAssumption DEF AcInit, AcTypeOK, AcAssumption, LoadedChat, Migrated, NoFile, Whole
<1> QED
  BY <1>1, AcTypeStep, PTL DEF AcSpec

-----------------------------------------------------------------------------
(* RestartRemembers is inductive as it stands: the file changes in one step *)
(* only, the rename, and a restart that finds the old file writes what it   *)
(* has read.                                                                *)

LEMMA RemembersStep == RestartRemembers /\ [AcNext]_acVars => RestartRemembers'
<1> SUFFICES ASSUME RestartRemembers, [AcNext]_acVars PROVE RestartRemembers'
  OBVIOUS
<1> USE DEF RestartRemembers, LoadedChat
<1>1. ASSUME NEW c \in Chats, UserRound(c) \/ OwnRound(c) PROVE RestartRemembers'
  BY <1>1 DEF UserRound, OwnRound
<1>2. CASE StateRename
  BY <1>2 DEF StateRename, Whole
<1>3. CASE Restart
  BY <1>3 DEF Restart, Migrated, Whole
<1>4. CASE StateWrite \/ StateFails \/ BeatResolve \/ BeatRound \/ StopBeat
  BY <1>4 DEF StateWrite, StateFails, BeatResolve, BeatRound, StopBeat
<1>5. CASE UNCHANGED acVars
  BY <1>5 DEF acVars
<1> QED
  BY <1>1, <1>2, <1>3, <1>4, <1>5 DEF AcNext

\* However often the process ends, and wherever in a save, a new one knows the chat of
\* the last round that was saved.
THEOREM RestartRemembersHolds == AcSpec => []RestartRemembers
<1>1. AcInit => RestartRemembers
  BY DEF AcInit, RestartRemembers, LoadedChat, Migrated, NoFile, Whole
<1> QED
  BY <1>1, RemembersStep, PTL DEF AcSpec

(***************************************************************************)
(* Fallback and cooldown                                                   *)
(***************************************************************************)

LEMMA StandardTable ==
  ASSUME NEW n \in Nat \ {0}
  PROVE  StandardCooldown(n) =
           IF n = 1 THEN 1 ELSE IF n = 2 THEN 5 ELSE IF n = 3 THEN 25 ELSE 60
<1>1. n = 1 \/ n = 2 \/ n = 3 \/ n >= 4
  OBVIOUS
<1>2. 5 ^ 0 = 1 /\ 5 ^ 1 = 5 /\ 5 ^ 2 = 25 /\ 5 ^ 3 = 125
  OBVIOUS
<1>3. CASE n = 1
  <2>1. Lesser(n - 1, 3) = 0
    BY <1>3 DEF Lesser
  <2> QED
    BY <1>2, <1>3, <2>1 DEF StandardCooldown, Lesser
<1>4. CASE n = 2
  <2>1. Lesser(n - 1, 3) = 1
    BY <1>4 DEF Lesser
  <2> QED
    BY <1>2, <1>4, <2>1 DEF StandardCooldown, Lesser
<1>5. CASE n = 3
  <2>1. Lesser(n - 1, 3) = 2
    BY <1>5 DEF Lesser
  <2> QED
    BY <1>2, <1>5, <2>1 DEF StandardCooldown, Lesser
<1>6. CASE n >= 4
  <2>1. Lesser(n - 1, 3) = 3
    BY <1>6 DEF Lesser
  <2> QED
    BY <1>2, <1>6, <2>1 DEF StandardCooldown, Lesser
<1> QED
  BY <1>1, <1>3, <1>4, <1>5, <1>6

LEMMA BillingTable ==
  ASSUME NEW n \in Nat \ {0}
  PROVE  BillingCooldown(n) =
           IF n = 1 THEN 300 ELSE IF n = 2 THEN 600 ELSE IF n = 3 THEN 1200 ELSE 1440
<1> DEFINE k == Lesser(n - 1, 10)
<1>1. k \in 0..10 /\ (n <= 11 => k = n - 1) /\ (n > 11 => k = 10)
  BY DEF Lesser
<1>2. k \in {0, 1, 2} \/ k \in {3, 4, 5, 6} \/ k \in {7, 8, 9, 10}
  BY <1>1
<1>a. 2 ^ 0 = 1 /\ 2 ^ 1 = 2 /\ 2 ^ 2 = 4
  OBVIOUS
<1>b. 2 ^ 3 = 8 /\ 2 ^ 4 = 16 /\ 2 ^ 5 = 32 /\ 2 ^ 6 = 64
  OBVIOUS
<1>c. 2 ^ 7 = 128 /\ 2 ^ 8 = 256 /\ 2 ^ 9 = 512 /\ 2 ^ 10 = 1024
  OBVIOUS
<1> HIDE DEF k
<1>3. k >= 3 => 5 * 2 ^ k \in Nat /\ 5 * 2 ^ k >= 24
  <2>1. CASE k = 3
    BY <1>b, <2>1
  <2>2. CASE k = 4
    BY <1>b, <2>2
  <2>3. CASE k = 5
    BY <1>b, <2>3
  <2>4. CASE k = 6
    BY <1>b, <2>4
  <2>5. CASE k = 7
    BY <1>c, <2>5
  <2>6. CASE k = 8
    BY <1>c, <2>6
  <2>7. CASE k = 9
    BY <1>c, <2>7
  <2>8. CASE k = 10
    BY <1>c, <2>8
  <2> QED
    BY <1>2, <2>1, <2>2, <2>3, <2>4, <2>5, <2>6, <2>7, <2>8
<1>4. BillingCooldown(n) = Lesser(24, 5 * 2 ^ k) * 60
  BY DEF BillingCooldown, k
<1>5. CASE k >= 3
  <2>1. Lesser(24, 5 * 2 ^ k) = 24
    BY <1>3, <1>5 DEF Lesser
  <2> QED
    BY <1>1, <1>4, <1>5, <2>1
<1>6. CASE k = 0
  BY <1>1, <1>a, <1>4, <1>6 DEF Lesser
<1>7. CASE k = 1
  BY <1>1, <1>a, <1>4, <1>7 DEF Lesser
<1>8. CASE k = 2
  BY <1>1, <1>a, <1>4, <1>8 DEF Lesser
<1> QED
  BY <1>1, <1>5, <1>6, <1>7, <1>8

\* The longest that the n-th failure in a row can bar a provider: nothing before the first.
Standard(n) == IF n = 0 THEN 0 ELSE StandardCooldown(n)
Billing(n) == IF n = 0 THEN 0 ELSE BillingCooldown(n)

\* In minutes.
Day == 1440

\* Cooldowns get longer from failure to failure, and none is longer than a day.
LEMMA Longer ==
  ASSUME NEW n \in Nat
  PROVE  /\ Standard(n) \in 0..Day /\ Standard(n) <= Standard(n + 1)
         /\ Billing(n) \in 0..Day /\ Billing(n) <= Billing(n + 1)
         /\ StandardCooldown(n + 1) = Standard(n + 1) /\ BillingCooldown(n + 1) = Billing(n + 1)
<1>1. n + 1 \in Nat \ {0} /\ n + 1 # 0
  OBVIOUS
<1>a. StandardCooldown(n + 1) = Standard(n + 1) /\ BillingCooldown(n + 1) = Billing(n + 1)
  BY <1>1 DEF Standard, Billing
<1>2. CASE n = 0
  BY <1>1, <1>2, StandardTable, BillingTable DEF Standard, Billing, Day
<1>3. CASE n # 0
  <2>1. n \in Nat \ {0}
    BY <1>3
  <2>2. Standard(n) = (IF n = 1 THEN 1 ELSE IF n = 2 THEN 5 ELSE IF n = 3 THEN 25 ELSE 60)
    BY <2>1, StandardTable DEF Standard
  <2>3. Billing(n) = (IF n = 1 THEN 300 ELSE IF n = 2 THEN 600 ELSE IF n = 3 THEN 1200 ELSE 1440)
    BY <2>1, BillingTable DEF Billing
  <2>4. Standard(n + 1) = (IF n = 1 THEN 5 ELSE IF n = 2 THEN 25 ELSE 60)
    BY <1>1, <2>1, StandardTable DEF Standard
  <2>5. Billing(n + 1) = (IF n = 1 THEN 600 ELSE IF n = 2 THEN 1200 ELSE 1440)
    BY <1>1, <2>1, BillingTable DEF Billing
  <2>6. Standard(n) \in 0..1440 /\ Standard(n) <= Standard(n + 1)
    BY <2>1, <2>2, <2>4
  <2>7. Billing(n) \in 0..1440 /\ Billing(n) <= Billing(n + 1)
    BY <2>1, <2>3, <2>5
  <2> QED
    BY <1>a, <2>6, <2>7 DEF Day
<1> QED
  BY <1>2, <1>3

EntryType == [errors : Nat, billing : Nat, coolEnd : Nat, disabled : Nat, last : Nat]

\* A cooldown runs from the last failure at the latest, for as long as the counters say.
Bounded(e) ==
  /\ e.last <= now
  /\ e.coolEnd <= e.last + Standard(e.errors)
  /\ e.disabled <= e.last + Billing(e.billing)

\* The entry that a failure leaves, field by field: n and k are the counters it starts from.
Recorded(e, n, k, reason) ==
  IF reason = "billing"
  THEN [errors |-> n + 1, billing |-> k + 1, coolEnd |-> e.coolEnd,
        disabled |-> now + BillingCooldown(k + 1), last |-> now]
  ELSE [errors |-> n + 1, billing |-> k, coolEnd |-> now + StandardCooldown(n + 1),
        disabled |-> e.disabled, last |-> now]

LEMMA MarkedForm ==
  ASSUME NEW p \in Providers, NEW reason, entry[p] \in EntryType
  PROVE  \E n \in Nat, k \in Nat :
           /\ \/ n = entry[p].errors /\ k = entry[p].billing
              \/ n = 0 /\ k = 0 /\ now - entry[p].last > Window
           /\ Marked(p, reason) = Recorded(entry[p], n, k, reason)
<1> DEFINE e == entry[p]
           stale == e.last # Zero /\ now - e.last > Window
           n == IF stale THEN 0 ELSE e.errors
           k == IF stale THEN 0 ELSE e.billing
<1>1. Marked(p, reason) = Recorded(e, n, k, reason)
  BY DEF Marked, Recorded
<1>2. n \in Nat /\ k \in Nat
  BY DEF EntryType
<1>3. \/ n = e.errors /\ k = e.billing
      \/ n = 0 /\ k = 0 /\ now - e.last > Window
  OBVIOUS
<1> HIDE DEF n, k
<1> QED
  BY <1>1, <1>2, <1>3, Zenon

LEMMA RecordedFields ==
  ASSUME NEW e \in EntryType, NEW n \in Nat, NEW k \in Nat, NEW reason, now \in Nat
  PROVE  LET m == Recorded(e, n, k, reason)
         IN  /\ m \in EntryType /\ m.errors = n + 1 /\ m.last = now
             /\ reason = "billing" =>
                  /\ m.billing = k + 1 /\ m.coolEnd = e.coolEnd
                  /\ m.disabled = now + Billing(k + 1)
             /\ reason # "billing" =>
                  /\ m.billing = k /\ m.disabled = e.disabled
                  /\ m.coolEnd = now + Standard(n + 1)
<1>1. e.coolEnd \in Nat /\ e.disabled \in Nat
  BY DEF EntryType
<1>a. n + 1 \in Nat /\ k + 1 \in Nat
  OBVIOUS
<1>b. /\ StandardCooldown(n + 1) = Standard(n + 1) /\ BillingCooldown(k + 1) = Billing(k + 1)
      /\ Standard(n + 1) \in 0..Day /\ Billing(k + 1) \in 0..Day
  BY <1>a, Longer, Zenon
<1>c. 0..Day \subseteq Nat
  BY DEF Day
<1>2. StandardCooldown(n + 1) \in Nat /\ StandardCooldown(n + 1) = Standard(n + 1)
  BY <1>b, <1>c, Zenon
<1>3. BillingCooldown(k + 1) \in Nat /\ BillingCooldown(k + 1) = Billing(k + 1)
  BY <1>b, <1>c, Zenon
<1>4. CASE reason = "billing"
  BY <1>1, <1>3, <1>4 DEF Recorded, EntryType
<1>5. CASE reason # "billing"
  BY <1>1, <1>2, <1>5 DEF Recorded, EntryType
<1> QED
  BY <1>4, <1>5

\* A further failure ends no cooldown earlier: the counters start again only when the
\* failure window, hence every cooldown, is over.
LEMMA MarkedLater ==
  ASSUME NEW p \in Providers, NEW reason, now \in Nat,
         entry[p] \in EntryType, Bounded(entry[p])
  PROVE  /\ Marked(p, reason) \in EntryType /\ Bounded(Marked(p, reason))
         /\ Marked(p, reason).coolEnd >= entry[p].coolEnd
         /\ Marked(p, reason).disabled >= entry[p].disabled
<1> DEFINE e == entry[p]
           m == Marked(p, reason)
<1>1. PICK n \in Nat, k \in Nat :
        /\ \/ n = e.errors /\ k = e.billing
           \/ n = 0 /\ k = 0 /\ now - e.last > Window
        /\ m = Recorded(e, n, k, reason)
  BY MarkedForm
<1>2. e \in EntryType /\ Bounded(e)
  OBVIOUS
<1> HIDE DEF e, m
<1>3. /\ e.errors \in Nat /\ e.billing \in Nat /\ e.coolEnd \in Nat /\ e.disabled \in Nat
      /\ e.last \in Nat
  BY <1>2 DEF EntryType
<1>4. \A j \in Nat :
        /\ Standard(j) \in 0..Day /\ Billing(j) \in 0..Day
        /\ Standard(j) <= Standard(j + 1) /\ Billing(j) <= Billing(j + 1)
  BY Longer, Zenon
<1>5. n + 1 \in Nat /\ k + 1 \in Nat
  OBVIOUS
<1>6. e.coolEnd <= now + Standard(n) /\ e.disabled <= now + Billing(k)
  <2> DEFINE c == Standard(e.errors)
             d == Billing(e.billing)
  <2>1. c \in 0..Day /\ d \in 0..Day /\ Standard(n) \in 0..Day /\ Billing(k) \in 0..Day
    BY <1>3, <1>4, Zenon
  <2>2. e.last <= now /\ e.coolEnd <= e.last + c /\ e.disabled <= e.last + d
    BY <1>2 DEF Bounded
  <2>3. CASE n = e.errors /\ k = e.billing
    <3>1. c = Standard(n) /\ d = Billing(k)
      BY <2>3
    <3> HIDE DEF c, d
    <3> QED
      BY <1>3, <2>1, <2>2, <3>1
  <2>4. CASE now - e.last > Window
    <3> DEFINE s == Standard(n)
               u == Billing(k)
               f == e.coolEnd
               g == e.disabled
               h == e.last
    <3>1. s \in 0..Day /\ u \in 0..Day /\ c \in 0..Day /\ d \in 0..Day
      BY <2>1
    <3>2. now \in Nat /\ h \in Nat /\ f \in Nat /\ g \in Nat
      BY <1>3
    <3>3. h <= now /\ f <= h + c /\ g <= h + d /\ now - h > Window
      BY <2>2, <2>4
    <3> HIDE DEF c, d, s, u, f, g, h
    <3>4. s \in Nat /\ u \in Nat /\ c \in 0..1440 /\ d \in 0..1440
      BY <3>1 DEF Day
    <3>5. Window \in Nat /\ Window >= 1440
      BY FbAssumption DEF FbAssumption
    <3>6. f <= now + s /\ g <= now + u
      BY <3>2, <3>3, <3>4, <3>5
    <3> QED
      BY <3>6 DEF s, u, f, g
  <2> QED
    BY <1>1, <2>3, <2>4
<1>7. /\ m \in EntryType /\ m.errors = n + 1 /\ m.last = now
      /\ reason = "billing" =>
           /\ m.billing = k + 1 /\ m.coolEnd = e.coolEnd /\ m.disabled = now + Billing(k + 1)
      /\ reason # "billing" =>
           /\ m.billing = k /\ m.disabled = e.disabled /\ m.coolEnd = now + Standard(n + 1)
  BY <1>1, <1>2, RecordedFields
<1> DEFINE s == Standard(n)
           t == Standard(n + 1)
           u == Billing(k)
           v == Billing(k + 1)
<1>8. s \in Nat /\ t \in Nat /\ u \in Nat /\ v \in Nat /\ s <= t /\ u <= v
  <2>1. s \in 0..Day /\ t \in 0..Day /\ u \in 0..Day /\ v \in 0..Day /\ s <= t /\ u <= v
    BY <1>4, <1>5, Zenon
  <2> HIDE DEF s, t, u, v
  <2> QED
    BY <2>1 DEF Day
<1>9. e.coolEnd <= now + s /\ e.disabled <= now + u
  BY <1>6
<1>10. CASE reason = "billing"
  <2>1. m.billing = k + 1 /\ m.coolEnd = e.coolEnd /\ m.disabled = now + v
    BY <1>7, <1>10
  <2> HIDE DEF s, t, u, v
  <2>2. /\ m.last <= now /\ m.coolEnd <= m.last + t /\ m.disabled <= m.last + v
        /\ m.coolEnd >= e.coolEnd /\ m.disabled >= e.disabled
    BY <1>3, <1>7, <1>8, <1>9, <2>1
  <2> QED
    BY <1>7, <2>1, <2>2 DEF Bounded, m, e, t, v
<1>11. CASE reason # "billing"
  <2>1. m.billing = k /\ m.disabled = e.disabled /\ m.coolEnd = now + t
    BY <1>7, <1>11
  <2> HIDE DEF s, t, u, v
  <2>2. /\ m.last <= now /\ m.coolEnd <= m.last + t /\ m.disabled <= m.last + u
        /\ m.coolEnd >= e.coolEnd /\ m.disabled >= e.disabled
    BY <1>3, <1>7, <1>8, <1>9, <2>1
  <2> QED
    BY <1>7, <2>1, <2>2 DEF Bounded, m, e, t, u
<1> QED
  BY <1>10, <1>11

-----------------------------------------------------------------------------
(* CooldownHolds.  Inductive with how long an entry may bar its provider: no *)
(* longer after its last failure than its counters say, so that a failure   *)
(* which finds them expired finds the cooldown over.                        *)

\* A call names a candidate while it runs; an entry bars its provider for as long as its
\* counters say, and until a success lifts it that is what the last failure has set.
CallOK(r) ==
  /\ call[r].i \in Nat \ {0}
  /\ call[r].step = "running" => call[r].i <= Len(Chain[r])

EntryOK(p) ==
  /\ Bounded(entry[p])
  /\ p \notin lifted => barred[p] = Greater(entry[p].coolEnd, entry[p].disabled)

FbInv == FbTypeOK /\ (\A r \in LLMCalls : CallOK(r)) /\ (\A p \in Providers : EntryOK(p))

LEMMA FbInvInit == FbInit => FbInv
<1> SUFFICES ASSUME FbInit PROVE FbInv
  OBVIOUS
<1>1. NoEntry \in EntryType /\ FreshCall \in [step : {"next", "running", "done"}, i : Nat, retry : 0..LLMRetries]
  BY FbAssumption DEF NoEntry, EntryType, FreshCall, Zero, FbAssumption
<1>2. FbTypeOK
  BY <1>1 DEF FbInit, FbTypeOK, EntryType, Zero
<1>3. ASSUME NEW r \in LLMCalls PROVE CallOK(r)
  BY DEF FbInit, CallOK, FreshCall
<1>4. ASSUME NEW p \in Providers PROVE EntryOK(p)
  <2>1. /\ entry[p].last = 0 /\ entry[p].coolEnd = 0 /\ entry[p].disabled = 0
        /\ entry[p].errors = 0 /\ entry[p].billing = 0 /\ barred[p] = 0 /\ now = 1
    BY DEF FbInit, NoEntry, Zero
  <2> QED
    BY <2>1 DEF EntryOK, Bounded, Greater, Standard, Billing
<1> QED
  BY <1>2, <1>3, <1>4 DEF FbInv

CallType == [step : {"next", "running", "done"}, i : Nat, retry : 0..LLMRetries]
Results == {"none", "ok", "canceled", "aborted", "exhausted"}
Notes == Retriable \cup {"skipped", "aborted"}

\* The step of a call that leaves the providers alone.
LEMMA CallSteps ==
  ASSUME FbInv, NEW r \in LLMCalls,
         UNCHANGED <<now, entry, ctxDone, barred, lifted, failures>>,
         attempts' \in [LLMCalls -> Seq(Notes)], outcome' \in [LLMCalls -> Results],
         NEW c \in CallType, c.i \in Nat \ {0}, c.step = "running" => c.i <= Len(Chain[r]),
         call' = [call EXCEPT ![r] = c]
  PROVE  FbInv'
<1>1. FbTypeOK' /\ (\A p \in Providers : EntryOK(p)')
  BY DEF FbInv, FbTypeOK, CallType, Results, Notes, EntryOK, Bounded
<1>2. ASSUME NEW q \in LLMCalls PROVE CallOK(q)'
  BY DEF FbInv, FbTypeOK, CallOK, CallType
<1> QED
  BY <1>1, <1>2 DEF FbInv

LEMMA CallIs ==
  ASSUME FbInv, NEW r \in LLMCalls
  PROVE  /\ call[r] \in CallType /\ call[r].i \in Nat \ {0}
         /\ attempts[r] \in Seq(Notes) /\ Chain[r] \in Seq(Providers)
         /\ call[r].i <= Len(Chain[r]) => Candidate(r) \in Providers
<1>1. call[r] \in CallType /\ call[r].i \in Nat \ {0} /\ attempts[r] \in Seq(Notes)
  BY DEF FbInv, FbTypeOK, CallOK, CallType, Notes
<1>2. Chain[r] \in Seq(Providers)
  BY FbAssumption DEF FbAssumption
<1>3. ASSUME call[r].i <= Len(Chain[r]) PROVE Candidate(r) \in Providers
  <2> DEFINE i == call[r].i
             s == Chain[r]
  <2>1. i \in Nat \ {0} /\ s \in Seq(Providers) /\ i <= Len(s)
    BY <1>1, <1>2, <1>3
  <2> HIDE DEF i, s
  <2>2. s[i] \in Providers
    BY <2>1
  <2> QED
    BY <2>2 DEF Candidate, i, s
<1> QED
  BY <1>1, <1>2, <1>3

LEMMA PassKeeps == ASSUME FbInv, Pass PROVE FbInv'
<1>1. Moments \subseteq Nat
  BY FbAssumption DEF Moments, FbInv, FbTypeOK, FbAssumption
<1>2. now' \in Nat /\ now' > now
  BY <1>1 DEF Pass
<1>3. FbTypeOK'
  BY <1>2 DEF Pass, FbInv, FbTypeOK
<1>4. ASSUME NEW p \in Providers PROVE EntryOK(p)'
  <2>1. /\ entry' = entry /\ lifted' = lifted /\ barred' = barred /\ entry[p].last \in Nat
        /\ now \in Nat
    BY DEF Pass, FbInv, FbTypeOK
  <2>2. entry[p].last <= now'
    BY <1>2, <2>1 DEF FbInv, EntryOK, Bounded
  <2> QED
    BY <2>1, <2>2 DEF FbInv, EntryOK, Bounded
<1>5. ASSUME NEW r \in LLMCalls PROVE CallOK(r)'
  BY DEF Pass, FbInv, CallOK
<1> QED
  BY <1>3, <1>4, <1>5 DEF FbInv

LEMMA SucceedKeeps == ASSUME FbInv, NEW r \in LLMCalls, Succeed(r) PROVE FbInv'
<1> DEFINE p == Candidate(r)
           new == [NoEntry EXCEPT !.last = entry[p].last]
           c == [call[r] EXCEPT !.step = "done"]
<1>1. p \in Providers
  BY CallIs DEF FbInv, CallOK, Succeed
<1>2. /\ entry[p] \in EntryType /\ entry[p].last \in Nat /\ entry[p].last <= now /\ now \in Nat
      /\ entry \in [Providers -> EntryType] /\ lifted \subseteq Providers
  BY <1>1 DEF FbInv, FbTypeOK, EntryOK, Bounded, EntryType
<1>3. /\ new \in EntryType /\ new.last = entry[p].last /\ new.coolEnd = 0 /\ new.disabled = 0
      /\ new.errors = 0 /\ new.billing = 0
  BY <1>2 DEF NoEntry, EntryType, Zero
<1>4. c \in CallType /\ c.i \in Nat \ {0} /\ c.step = "done"
  <2>1. call[r] \in CallType /\ call[r].i \in Nat \ {0}
    BY CallIs
  <2>2. c \in CallType /\ c.i = call[r].i /\ c.step = "done"
    BY <2>1 DEF CallType
  <2> QED
    BY <2>1, <2>2
<1>5. /\ entry' = [entry EXCEPT ![p] = new] /\ lifted' = lifted \cup {p}
      /\ call' = [call EXCEPT ![r] = c] /\ outcome' = [outcome EXCEPT ![r] = "ok"]
      /\ UNCHANGED <<now, ctxDone, attempts, barred, failures>>
  BY DEF Succeed, MarkSuccess, End
<1> HIDE DEF p, new, c
<1>6. FbTypeOK'
  BY <1>1, <1>2, <1>3, <1>4, <1>5 DEF FbInv, FbTypeOK, EntryType, CallType
<1>7. ASSUME NEW q \in Providers PROVE EntryOK(q)'
  <2>1. CASE q = p
    <3>1. entry'[q] = new /\ q \in lifted' /\ now' = now
      BY <1>1, <1>2, <1>5, <2>1
    <3> QED
      BY <1>2, <1>3, <3>1 DEF EntryOK, Bounded, Standard, Billing
  <2>2. CASE q # p
    BY <1>1, <1>2, <1>5, <2>2 DEF FbInv, EntryOK, Bounded
  <2> QED
    BY <2>1, <2>2
<1>8. ASSUME NEW q \in LLMCalls PROVE CallOK(q)'
  BY <1>4, <1>5 DEF FbInv, FbTypeOK, CallOK
<1> QED
  BY <1>6, <1>7, <1>8 DEF FbInv

\* A failure: the entry, what the history records of it, and that it bars no less.
LEMMA FailIs ==
  ASSUME FbInv, NEW r \in LLMCalls, NEW reason \in Retriable, Fail(r, reason)
  PROVE  LET p == Candidate(r)
             m == Marked(p, reason)
         IN  /\ p \in Providers /\ m \in EntryType /\ Bounded(m)
             /\ m.coolEnd >= entry[p].coolEnd /\ m.disabled >= entry[p].disabled
             /\ entry' = [entry EXCEPT ![p] = m]
             /\ barred' = [barred EXCEPT ![p] = Greater(m.coolEnd, m.disabled)]
             /\ lifted' = lifted \ {p} /\ failures' = failures + 1
             /\ UNCHANGED <<now, ctxDone, outcome>>
<1> DEFINE p == Candidate(r)
           m == Marked(p, reason)
<1>1. p \in Providers
  BY CallIs DEF FbInv, CallOK, Fail
<1>2. now \in Nat /\ entry[p] \in EntryType /\ Bounded(entry[p])
  BY <1>1 DEF FbInv, FbTypeOK, EntryOK, EntryType
<1>3. /\ m \in EntryType /\ Bounded(m)
      /\ m.coolEnd >= entry[p].coolEnd /\ m.disabled >= entry[p].disabled
  BY <1>1, <1>2, MarkedLater
<1>4. /\ entry' = [entry EXCEPT ![p] = m]
      /\ barred' = [barred EXCEPT ![p] = Greater(entry'[p].coolEnd, entry'[p].disabled)]
      /\ lifted' = lifted \ {p} /\ failures' = failures + 1
      /\ UNCHANGED <<now, ctxDone, outcome>>
  BY DEF Fail, MarkFailure
<1>5. entry'[p] = m
  BY <1>1, <1>4 DEF FbInv, FbTypeOK
<1> HIDE DEF p, m
<1> QED
  BY <1>1, <1>3, <1>4, <1>5 DEF p, m

LEMMA FailKeeps ==
  ASSUME FbInv, NEW r \in LLMCalls, NEW reason \in Retriable, Fail(r, reason)
  PROVE  FbInv'
<1> DEFINE p == Candidate(r)
           m == Marked(p, reason)
           c == [step |-> "next", i |-> call[r].i + 1, retry |-> call[r].retry]
<1>1. /\ p \in Providers /\ m \in EntryType /\ Bounded(m)
      /\ entry' = [entry EXCEPT ![p] = m]
      /\ barred' = [barred EXCEPT ![p] = Greater(m.coolEnd, m.disabled)]
      /\ lifted' = lifted \ {p} /\ failures' = failures + 1
      /\ UNCHANGED <<now, ctxDone, outcome>>
  BY FailIs
<1>2. c \in CallType /\ c.i \in Nat \ {0} /\ c.step = "next"
  BY CallIs DEF CallType
<1>3. /\ call' = [call EXCEPT ![r] = c]
      /\ attempts' = [attempts EXCEPT ![r] = Append(@, reason)]
  BY DEF Fail
<1> HIDE DEF p, m, c
<1>4. Append(attempts[r], reason) \in Seq(Notes)
  BY CallIs DEF Notes
<1>5. m.coolEnd \in Nat /\ m.disabled \in Nat
  BY <1>1 DEF EntryType
<1>6. Greater(m.coolEnd, m.disabled) \in Nat
  BY <1>5 DEF Greater
<1>7. FbTypeOK'
  <2>1. entry' \in [Providers -> EntryType] /\ barred' \in [Providers -> Nat] /\ failures' \in Nat
    BY <1>1, <1>6 DEF FbInv, FbTypeOK, EntryType
  <2>2. attempts' \in [LLMCalls -> Seq(Notes)] /\ call' \in [LLMCalls -> CallType]
    BY <1>2, <1>3, <1>4 DEF FbInv, FbTypeOK, Notes, CallType
  <2> QED
    BY <1>1, <2>1, <2>2 DEF FbInv, FbTypeOK, EntryType, Notes, CallType
<1>8. ASSUME NEW q \in Providers PROVE EntryOK(q)'
  <2>1. CASE q = p
    <3>1. entry'[q] = m /\ barred'[q] = Greater(m.coolEnd, m.disabled) /\ now' = now
      BY <1>1, <2>1 DEF FbInv, FbTypeOK
    <3> QED
      BY <1>1, <3>1 DEF EntryOK, Bounded
  <2>2. CASE q # p
    <3>1. entry'[q] = entry[q] /\ barred'[q] = barred[q] /\ (q \notin lifted' => q \notin lifted)
      BY <1>1, <2>2 DEF FbInv, FbTypeOK
    <3> QED
      BY <1>1, <3>1 DEF FbInv, EntryOK, Bounded
  <2> QED
    BY <2>1, <2>2
<1>9. ASSUME NEW q \in LLMCalls PROVE CallOK(q)'
  BY <1>2, <1>3 DEF FbInv, FbTypeOK, CallOK
<1> QED
  BY <1>7, <1>8, <1>9 DEF FbInv

LEMMA FbInvStep == FbInv /\ [FbNext]_fbVars => FbInv'
<1> SUFFICES ASSUME FbInv, [FbNext]_fbVars PROVE FbInv'
  OBVIOUS
<1> USE FbAssumption
<1>1. CASE Pass
  BY <1>1, PassKeeps
<1>2. CASE Cancel
  <2>1. FbTypeOK'
    BY <1>2 DEF Cancel, FbInv, FbTypeOK, FbAssumption
  <2> QED
    BY <1>2, <2>1 DEF Cancel, FbInv, CallOK, EntryOK, Bounded
<1>3. ASSUME NEW r \in LLMCalls,
             \/ ChainCancelled(r) \/ Skip(r) \/ Try(r) \/ Succeed(r) \/ Abort(r)
             \/ \E reason \in Retriable : Fail(r, reason)
             \/ Exhaust(r) \/ Again(r)
      PROVE  FbInv'
  <2> DEFINE c == call[r]
  <2>a. /\ c \in CallType /\ c.i \in Nat \ {0} /\ attempts[r] \in Seq(Notes)
        /\ attempts \in [LLMCalls -> Seq(Notes)] /\ outcome \in [LLMCalls -> Results]
        /\ c.step = "running" => c.i <= Len(Chain[r])
    BY CallIs DEF FbInv, FbTypeOK, CallOK, Notes, Results
  <2> DEFINE done == [c EXCEPT !.step = "done"]
             run == [c EXCEPT !.step = "running"]
             onward == [c EXCEPT !.i = @ + 1]
             again == [FreshCall EXCEPT !.retry = c.retry + 1]
  <2>b. /\ done \in CallType /\ done.i \in Nat \ {0} /\ done.step = "done"
        /\ run \in CallType /\ run.i = c.i
        /\ onward \in CallType /\ onward.i \in Nat \ {0} /\ onward.step = c.step
    <3> HIDE DEF c
    <3>1. c \in CallType /\ c.i \in Nat \ {0}
      BY <2>a
    <3> QED
      BY <3>1 DEF CallType
  <2>c. FreshCall \in CallType /\ FreshCall.i \in Nat \ {0} /\ FreshCall.step = "next"
    BY FbAssumption DEF FreshCall, CallType, FbAssumption
  <2>d. c.retry < LLMRetries => again \in CallType /\ again.i \in Nat \ {0} /\ again.step = "next"
    <3> HIDE DEF c
    <3>1. c.retry \in 0..LLMRetries /\ LLMRetries \in Nat
      BY <2>a, FbAssumption DEF CallType, FbAssumption
    <3> QED
      BY <3>1 DEF FreshCall, CallType
  <2>e. /\ [attempts EXCEPT ![r] = Append(@, "skipped")] \in [LLMCalls -> Seq(Notes)]
        /\ [attempts EXCEPT ![r] = Append(@, "aborted")] \in [LLMCalls -> Seq(Notes)]
        /\ [attempts EXCEPT ![r] = <<>>] \in [LLMCalls -> Seq(Notes)]
    BY <2>a DEF Notes
  <2>f. \A o \in Results : [outcome EXCEPT ![r] = o] \in [LLMCalls -> Results]
    BY <2>a
  <2>1. CASE ChainCancelled(r)
    <3>1. /\ call' = [call EXCEPT ![r] = done]
          /\ outcome' = [outcome EXCEPT ![r] = "canceled"] /\ attempts' = attempts
          /\ UNCHANGED <<now, entry, ctxDone, barred, lifted, failures>>
      BY <2>1 DEF ChainCancelled, End
    <3> HIDE DEF done, run, onward, again
    <3> QED
      BY <2>a, <2>b, <2>f, <3>1, CallSteps DEF Results
  <2>2. CASE Skip(r)
    <3>1. /\ call' = [call EXCEPT ![r] = onward] /\ outcome' = outcome
          /\ attempts' = [attempts EXCEPT ![r] = Append(@, "skipped")] /\ c.step = "next"
          /\ UNCHANGED <<now, entry, ctxDone, barred, lifted, failures>>
      BY <2>2 DEF Skip
    <3> HIDE DEF done, run, onward, again
    <3> QED
      BY <2>a, <2>b, <2>e, <3>1, CallSteps
  <2>3. CASE Try(r)
    <3>1. /\ call' = [call EXCEPT ![r] = run] /\ outcome' = outcome
          /\ attempts' = attempts /\ c.i <= Len(Chain[r])
          /\ UNCHANGED <<now, entry, ctxDone, barred, lifted, failures>>
      BY <2>3 DEF Try
    <3> HIDE DEF done, run, onward, again
    <3> QED
      BY <2>a, <2>b, <3>1, CallSteps
  <2>4. CASE Succeed(r)
    BY <2>4, SucceedKeeps
  <2>5. CASE Abort(r)
    <3>1. /\ call' = [call EXCEPT ![r] = done]
          /\ \E o \in Results : outcome' = [outcome EXCEPT ![r] = o]
          /\ attempts' = [attempts EXCEPT ![r] = Append(@, "aborted")]
          /\ UNCHANGED <<now, entry, ctxDone, barred, lifted, failures>>
      BY <2>5 DEF Abort, End, Results
    <3> HIDE DEF done, run, onward, again
    <3> QED
      BY <2>a, <2>b, <2>e, <2>f, <3>1, CallSteps
  <2>6. ASSUME NEW reason \in Retriable, Fail(r, reason) PROVE FbInv'
    BY <2>6, FailKeeps
  <2>7. CASE Exhaust(r)
    <3>1. UNCHANGED <<now, entry, ctxDone, barred, lifted, failures>>
      BY <2>7 DEF Exhaust
    <3>2. CASE End(r, "exhausted") /\ UNCHANGED attempts
      <4>1. /\ call' = [call EXCEPT ![r] = done]
            /\ outcome' = [outcome EXCEPT ![r] = "exhausted"] /\ attempts' = attempts
        BY <3>2 DEF End
      <4> HIDE DEF done, run, onward, again
      <4> QED
        BY <2>a, <2>b, <2>f, <3>1, <4>1, CallSteps DEF Results
    <3>3. CASE /\ c.retry < LLMRetries /\ call' = [call EXCEPT ![r] = again]
               /\ attempts' = [attempts EXCEPT ![r] = <<>>] /\ outcome' = outcome
      <4> HIDE DEF again
      <4> QED
        BY <2>a, <2>d, <2>e, <3>1, <3>3, CallSteps
    <3> QED
      BY <2>7, <3>2, <3>3 DEF Exhaust
  <2>8. CASE Again(r)
    <3>1. /\ UNCHANGED <<now, entry, ctxDone, barred, lifted, failures>>
          /\ attempts' = [attempts EXCEPT ![r] = <<>>]
          /\ outcome' = [outcome EXCEPT ![r] = "none"]
      BY <2>8 DEF Again
    <3>2. CASE c.retry < LLMRetries /\ call' = [call EXCEPT ![r] = again]
      <4> HIDE DEF again
      <4>1. outcome' \in [LLMCalls -> Results]
        BY <2>f, <3>1 DEF Results
      <4> QED
        BY <2>a, <2>d, <2>e, <3>1, <3>2, <4>1, CallSteps
    <3>3. CASE call' = [call EXCEPT ![r] = FreshCall]
      <4>1. outcome' \in [LLMCalls -> Results]
        BY <2>f, <3>1 DEF Results
      <4> QED
        BY <2>a, <2>c, <2>e, <3>1, <3>3, <4>1, CallSteps
    <3> QED
      BY <2>8, <3>2, <3>3 DEF Again
  <2> QED
    BY <1>3, <2>1, <2>2, <2>3, <2>4, <2>5, <2>6, <2>7, <2>8
<1>4. CASE UNCHANGED fbVars
  BY <1>4 DEF fbVars, FbInv, FbTypeOK, CallOK, EntryOK, Bounded
<1> QED
  BY <1>1, <1>2, <1>3, <1>4 DEF FbNext

\* The variables of the fallback chain keep their types.
THEOREM FbTypeCorrect == FbSpec => []FbTypeOK
<1>1. FbInv => FbTypeOK
  BY DEF FbInv
<1> QED
  BY <1>1, FbInvInit, FbInvStep, PTL DEF FbSpec

\* In the next step of a call it runs a candidate only by Try; a provider's last cooldown
\* changes only by Fail.
LEMMA FbCooldown == FbInv /\ [FbNext]_fbVars => CooldownStep \/ UNCHANGED fbVars
<1> SUFFICES ASSUME FbInv, FbNext PROVE CooldownStep
  OBVIOUS
<1>1. ASSUME NEW r \in LLMCalls, call[r].step = "next", call'[r].step = "running"
      PROVE  now >= barred[Candidate(r)] \/ Candidate(r) \in lifted
  <2> DEFINE p == Candidate(r)
  <2>1. Try(r)
    <3>a. call \in [LLMCalls -> CallType]
      BY DEF FbInv, FbTypeOK, CallType
    <3>1. CASE Pass \/ Cancel
      BY <1>1, <3>1 DEF Pass, Cancel
    <3>2. ASSUME NEW q \in LLMCalls, ChainCancelled(q) \/ Succeed(q) \/ Abort(q) PROVE FALSE
      <4>1. call' = [call EXCEPT ![q].step = "done"]
        BY <3>2 DEF ChainCancelled, Succeed, Abort, End
      <4> QED
        BY <1>1, <3>a, <4>1
    <3>3. ASSUME NEW q \in LLMCalls, Skip(q) PROVE FALSE
      BY <1>1, <3>3, <3>a DEF Skip
    <3>4. ASSUME NEW q \in LLMCalls, NEW reason \in Retriable, Fail(q, reason) PROVE FALSE
      BY <1>1, <3>4, <3>a DEF Fail
    <3>5. ASSUME NEW q \in LLMCalls, Exhaust(q) \/ Again(q) PROVE FALSE
      <4>1. \/ call' = [call EXCEPT ![q].step = "done"]
            \/ call' = [call EXCEPT ![q] = [FreshCall EXCEPT !.retry = call[q].retry + 1]]
            \/ call' = [call EXCEPT ![q] = FreshCall]
        BY <3>5 DEF Exhaust, Again, End
      <4>2. [FreshCall EXCEPT !.retry = call[q].retry + 1].step = "next" /\ FreshCall.step = "next"
        BY DEF FreshCall
      <4> DEFINE again == [FreshCall EXCEPT !.retry = call[q].retry + 1]
      <4>3. CASE call' = [call EXCEPT ![q].step = "done"]
        BY <1>1, <3>a, <4>3
      <4>4. CASE call' = [call EXCEPT ![q] = again]
        <5> HIDE DEF again
        <5> QED
          BY <1>1, <3>a, <4>2, <4>4 DEF again
      <4>5. CASE call' = [call EXCEPT ![q] = FreshCall]
        BY <1>1, <3>a, <4>2, <4>5
      <4> QED
        BY <4>1, <4>3, <4>4, <4>5
    <3>6. ASSUME NEW q \in LLMCalls, Try(q) PROVE Try(r)
      BY <1>1, <3>6, <3>a DEF Try
    <3> QED
      BY <3>1, <3>2, <3>3, <3>4, <3>5, <3>6 DEF FbNext
  <2>2. p \in Providers /\ entry[p].coolEnd <= now /\ entry[p].disabled <= now
    BY <2>1, CallIs DEF Try, IsAvailable
  <2>3. p \notin lifted => barred[p] = Greater(entry[p].coolEnd, entry[p].disabled)
    BY <2>2 DEF FbInv, EntryOK
  <2>4. now \in Nat /\ entry[p].coolEnd \in Nat /\ entry[p].disabled \in Nat
    BY <2>2 DEF FbInv, FbTypeOK
  <2> HIDE DEF p
  <2> QED
    BY <2>2, <2>3, <2>4 DEF Greater, p
<1>2. ASSUME NEW p \in Providers, p \notin lifted PROVE barred'[p] >= barred[p]
  <2>1. barred[p] \in Nat /\ barred \in [Providers -> Nat]
    BY DEF FbInv, FbTypeOK
  <2>2. CASE barred' = barred
    BY <2>1, <2>2
  <2>3. ASSUME NEW r \in LLMCalls, NEW reason \in Retriable, Fail(r, reason)
        PROVE  barred'[p] >= barred[p]
    <3> DEFINE m == Marked(Candidate(r), reason)
    <3>1. /\ m \in EntryType /\ m.coolEnd >= entry[Candidate(r)].coolEnd
          /\ m.disabled >= entry[Candidate(r)].disabled
          /\ barred' = [barred EXCEPT ![Candidate(r)] = Greater(m.coolEnd, m.disabled)]
      BY <2>3, FailIs
    <3> HIDE DEF m
    <3>2. CASE p = Candidate(r)
      <4>1. barred'[p] = Greater(m.coolEnd, m.disabled)
        BY <2>1, <3>1, <3>2
      <4>2. barred[p] = Greater(entry[p].coolEnd, entry[p].disabled)
        BY <1>2 DEF FbInv, EntryOK
      <4>3. /\ m.coolEnd \in Nat /\ m.disabled \in Nat /\ entry[p].coolEnd \in Nat
            /\ entry[p].disabled \in Nat
        BY <3>1 DEF EntryType, FbInv, FbTypeOK
      <4> QED
        BY <3>1, <3>2, <4>1, <4>2, <4>3 DEF Greater
    <3>3. CASE p # Candidate(r)
      BY <2>1, <3>1, <3>3
    <3> QED
      BY <3>2, <3>3
  <2> QED
    BY <2>2, <2>3 DEF FbNext, Pass, Cancel, ChainCancelled, Skip, Try, Succeed, MarkSuccess, Abort,
         Exhaust, Again
<1> QED
  BY <1>1, <1>2 DEF CooldownStep

\* A provider that failed is tried again only after its cooldown or a success, and a further
\* failure ends no cooldown earlier.
THEOREM CooldownsHold == FbSpec => CooldownHolds
<1>1. FbInv /\ [FbNext]_fbVars => [CooldownStep]_fbVars
  BY FbCooldown
<1> QED
  BY <1>1, FbInvInit, FbInvStep, PTL DEF FbSpec, CooldownHolds

(***************************************************************************)
(* The cron service                                                        *)
(***************************************************************************)

\* What the code keeps of a job: a one-time job has no next run but its one time, and none
\* while it is disabled.
GoodJob(j, x) ==
  /\ x \in Job
  /\ OneTime(j) => x.next \in {Never, Schedule[j].time} /\ (~x.enabled => x.next = Never)

\* A store of such jobs, all of them with ids from U.
Fit(s, U) == IsStore(s) /\ DOMAIN s \subseteq U /\ \A j \in DOMAIN s : GoodJob(j, s[j])

RunsOK(j) ==
  /\ runs[j] \in 0..1
  /\ runs[j] = 1 => OneTime(j) /\ Schedule[j].time <= nowMS /\ j \in used

\* A job of the batch is due; one that has run, but is not running, has no next run.
ClaimOK(j) ==
  /\ j \in batch => j \in used /\ (OneTime(j) => Schedule[j].time <= nowMS)
  /\ j \in batch /\ runs[j] = 1 => cur = j
  /\ Serving /\ j \in DOMAIN jobs /\ runs[j] = 1 => jobs[j].next = Never \/ cur = j

\* The copy that addJob is about to write back may still have the next run of a job that
\* is running now, but of none that has run: that one is gone.
CopyOK(j) ==
  j \in DOMAIN copies =>
    /\ j \notin Kept
    /\ runs[j] = 1 => j \notin DOMAIN jobs \/ cur = j
    /\ copies[j].next = Never => j \in lapsed

ScheduledOK(j) ==
  service = "running" /\ j \in DOMAIN jobs /\ jobs[j].enabled /\ jobs[j].next = Never
    => j \in batch \cup lapsed

StoresOK ==
  /\ nowMS \in Nat /\ service \in {"down", "loaded", "running", "stopped"} /\ faults \in Nat
  /\ Fit(jobs, used) /\ Fit(jobsFile, used) /\ Fit(cli.jobs, used) /\ Fit(copies, used)
  /\ cli = [jobs |-> cli.jobs, open |-> cli.open] /\ cli.open \in BOOLEAN
  /\ used \subseteq JobIds /\ lapsed \subseteq JobIds /\ Kept \subseteq used
  /\ batch \subseteq JobIds /\ cur \in batch \cup {NoJob}
  /\ runs \in [JobIds -> Nat]
  /\ ~Serving => batch = {} /\ DOMAIN copies = {}

JobsOK == \A j \in JobIds : RunsOK(j) /\ ClaimOK(j) /\ CopyOK(j) /\ ScheduledOK(j)

CronInv == StoresOK /\ JobsOK

-----------------------------------------------------------------------------
(* JobsKept.  Inductive with what is known of a one-time job that has run: it *)
(* is over, so that nothing schedules it again, and while the copy of a late *)
(* update still has its time the job is the one that is running, or gone.   *)

LEMMA JobType == \A e \in BOOLEAN, n \in Nat : [enabled |-> e, next |-> n] \in Job
BY DEF Job

LEMMA ComputeNextIs ==
  ASSUME NEW j \in JobIds, NEW t \in Nat
  PROVE  /\ ComputeNext(j, t) \in Nat
         /\ OneTime(j) => ComputeNext(j, t) \in {Never, Schedule[j].time}
         /\ OneTime(j) /\ Schedule[j].time <= t => ComputeNext(j, t) = Never
<1> DEFINE s == Schedule[j]
<1>1. s \in [kind : {"at", "every"}, time : Nat]
  BY CronAssumption DEF CronAssumption
<1>2. ComputeNext(j, t) =
        CASE s.kind = "at" /\ s.time > t -> s.time
          [] s.kind = "every" /\ s.time > 0 -> t + s.time
          [] OTHER -> Never
  BY DEF ComputeNext
<1>3. OneTime(j) <=> s.kind = "at"
  BY DEF OneTime
<1>4. s.kind \in {"at", "every"} /\ s.time \in Nat
  BY <1>1
<1> HIDE DEF s
<1>5. CASE s.kind = "at"
  BY <1>2, <1>3, <1>4, <1>5 DEF Never, s
<1>6. CASE s.kind = "every"
  BY <1>2, <1>3, <1>4, <1>6 DEF Never, s
<1> QED
  BY <1>4, <1>5, <1>6

\* The jobs that the operations write are as GoodJob says.
LEMMA GoodJobs ==
  ASSUME NEW j \in JobIds, nowMS \in Nat
  PROVE  /\ GoodJob(j, NewJob(j)) /\ NewJob(j).enabled /\ NewJob(j).next = ComputeNext(j, nowMS)
         /\ \A on \in BOOLEAN :
              /\ GoodJob(j, Switched(j, on)) /\ Switched(j, on).enabled = on
              /\ Switched(j, on).next = IF on THEN ComputeNext(j, nowMS) ELSE Never
         /\ GoodJob(j, [enabled |-> FALSE, next |-> Never])
<1> DEFINE c == ComputeNext(j, nowMS)
<1>1. c \in Nat /\ (OneTime(j) => c \in {Never, Schedule[j].time})
  BY ComputeNextIs
<1>2. Never \in Nat
  BY DEF Never
<1>3. NewJob(j) = [enabled |-> TRUE, next |-> c]
  BY DEF NewJob
<1>4. \A on \in BOOLEAN : Switched(j, on) = [enabled |-> on, next |-> IF on THEN c ELSE Never]
  BY DEF Switched
<1> HIDE DEF c
<1>5. GoodJob(j, NewJob(j)) /\ NewJob(j).enabled /\ NewJob(j).next = c
  BY <1>1, <1>2, <1>3 DEF GoodJob, Job
<1>6. ASSUME NEW on \in BOOLEAN
      PROVE  /\ GoodJob(j, Switched(j, on)) /\ Switched(j, on).enabled = on
             /\ Switched(j, on).next = IF on THEN c ELSE Never
  <2>1. CASE on
    <3>1. Switched(j, on) = [enabled |-> TRUE, next |-> c] /\ on = TRUE
      BY <1>4, <2>1
    <3> QED
      BY <1>1, <1>2, <3>1 DEF GoodJob, Job
  <2>2. CASE ~on
    BY <1>1, <1>2, <1>4, <2>2 DEF GoodJob, Job
  <2> QED
    BY <2>1, <2>2
<1>7. GoodJob(j, [enabled |-> FALSE, next |-> Never])
  BY <1>2 DEF GoodJob, Job
<1> QED
  BY <1>5, <1>6, <1>7 DEF c

\* w has the jobs of s except for j.
SameBut(w, s, j) ==
  \A k : k # j => (k \in DOMAIN w <=> k \in DOMAIN s) /\ (k \in DOMAIN s => w[k] = s[k])

\* A job is added to a store or replaced in it, or removed from it.
LEMMA FitWith ==
  ASSUME NEW U, NEW s, Fit(s, U), NEW j \in JobIds, j \in U, NEW x, GoodJob(j, x)
  PROVE  /\ Fit(WithJob(s, j, x), U) /\ DOMAIN WithJob(s, j, x) = DOMAIN s \cup {j}
         /\ WithJob(s, j, x)[j] = x
         /\ SameBut(WithJob(s, j, x), s, j)
<1> DEFINE w == WithJob(s, j, x)
<1>1. /\ DOMAIN w = DOMAIN s \cup {j} /\ w = [k \in DOMAIN w |-> w[k]] /\ w[j] = x
      /\ \A k \in DOMAIN s : k # j => w[k] = s[k]
  BY DEF WithJob
<1> HIDE DEF w
<1>a. SameBut(w, s, j)
  BY <1>1 DEF SameBut
<1>2. ASSUME NEW k \in DOMAIN w PROVE k \in JobIds /\ k \in U /\ GoodJob(k, w[k])
  BY <1>1, <1>2 DEF Fit, IsStore
<1>3. \A k \in DOMAIN w : w[k] \in Job
  BY <1>2 DEF GoodJob
<1> QED
  BY <1>1, <1>a, <1>2, <1>3 DEF Fit, IsStore, w

LEMMA FitExcept ==
  ASSUME NEW U, NEW s, Fit(s, U), NEW j \in DOMAIN s, NEW x, GoodJob(j, x)
  PROVE  /\ Fit([s EXCEPT ![j] = x], U) /\ DOMAIN [s EXCEPT ![j] = x] = DOMAIN s
         /\ [s EXCEPT ![j] = x][j] = x
         /\ SameBut([s EXCEPT ![j] = x], s, j)
<1> DEFINE w == [s EXCEPT ![j] = x]
<1>1. /\ DOMAIN w = DOMAIN s /\ w = [k \in DOMAIN w |-> w[k]] /\ w[j] = x
      /\ \A k \in DOMAIN s : k # j => w[k] = s[k]
  OBVIOUS
<1> HIDE DEF w
<1>a. SameBut(w, s, j)
  BY <1>1 DEF SameBut
<1>2. ASSUME NEW k \in DOMAIN w PROVE k \in JobIds /\ k \in U /\ GoodJob(k, w[k])
  BY <1>1, <1>2 DEF Fit, IsStore
<1>3. \A k \in DOMAIN w : w[k] \in Job
  BY <1>2 DEF GoodJob
<1> QED
  BY <1>1, <1>a, <1>2, <1>3 DEF Fit, IsStore, w

LEMMA FitWithout ==
  ASSUME NEW U, NEW s, Fit(s, U), NEW j
  PROVE  /\ Fit(Without(s, j), U) /\ DOMAIN Without(s, j) = DOMAIN s \ {j}
         /\ SameBut(Without(s, j), s, j)
<1> DEFINE w == Without(s, j)
<1>1. /\ DOMAIN w = DOMAIN s \ {j} /\ w = [k \in DOMAIN w |-> w[k]]
      /\ \A k \in DOMAIN s : k # j => w[k] = s[k]
  BY DEF Without
<1> HIDE DEF w
<1>a. SameBut(w, s, j)
  BY <1>1 DEF SameBut
<1>2. ASSUME NEW k \in DOMAIN w PROVE k \in JobIds /\ k \in U /\ w[k] \in Job /\ GoodJob(k, w[k])
  BY <1>1, <1>2 DEF Fit, IsStore
<1> QED
  BY <1>1, <1>a, <1>2 DEF Fit, IsStore, w

LEMMA FitMore == ASSUME NEW U, NEW V, U \subseteq V, NEW s, Fit(s, U) PROVE Fit(s, V)
BY DEF Fit

LEMMA FitHas ==
  ASSUME NEW U, NEW s, Fit(s, U), NEW j \in DOMAIN s
  PROVE  /\ j \in JobIds /\ j \in U /\ GoodJob(j, s[j])
         /\ s[j] = [enabled |-> s[j].enabled, next |-> s[j].next]
         /\ s[j].enabled \in BOOLEAN /\ s[j].next \in Nat
BY DEF Fit, IsStore, GoodJob, Job

LEMMA EmptyStore ==
  /\ \A U : Fit(NoJobs, U)
  /\ DOMAIN NoJobs = {} /\ Closed.jobs = NoJobs /\ Closed.open = FALSE
BY DEF Fit, IsStore, NoJobs, Closed

LEMMA CronInvInit == CronInit => CronInv
<1> SUFFICES ASSUME CronInit PROVE CronInv
  OBVIOUS
<1>1. nowMS = 1 /\ nowMS \in Nat /\ ~Serving /\ used = Initial /\ jobs = NoJobs /\ copies = NoJobs
  BY DEF CronInit, Serving
<1>2. Fit(jobsFile, used)
  <2>1. \A j \in Initial : GoodJob(j, NewJob(j)) /\ NewJob(j) \in Job
    BY <1>1, GoodJobs, CronAssumption DEF CronAssumption, GoodJob
  <2>2. jobsFile = [j \in Initial |-> NewJob(j)] /\ Initial \subseteq JobIds /\ used = Initial
    BY <1>1, CronAssumption DEF CronInit, CronAssumption
  <2> QED
    BY <2>1, <2>2 DEF Fit, IsStore
<1>3. StoresOK
  <2>1. cli = Closed /\ cli = [jobs |-> cli.jobs, open |-> cli.open] /\ cli.open = FALSE /\ cli.jobs = NoJobs
    BY DEF CronInit, Closed, NoJobs
  <2>2. Fit(jobs, used) /\ Fit(cli.jobs, used) /\ Fit(copies, used) /\ DOMAIN copies = {}
    BY <1>1, <2>1, EmptyStore
  <2> QED
    BY <1>1, <1>2, <2>1, <2>2, CronAssumption DEF CronInit, StoresOK, CronAssumption
<1>4. JobsOK
  BY <1>1, EmptyStore DEF JobsOK, RunsOK, ClaimOK, CopyOK, ScheduledOK, CronInit
<1> QED
  BY <1>3, <1>4 DEF CronInv

LEMMA Facts ==
  ASSUME CronInv
  PROVE  /\ nowMS \in Nat /\ service \in {"down", "loaded", "running", "stopped"} /\ faults \in Nat
         /\ Fit(jobs, used) /\ Fit(jobsFile, used) /\ Fit(cli.jobs, used) /\ Fit(copies, used)
         /\ cli = [jobs |-> cli.jobs, open |-> cli.open] /\ cli.open \in BOOLEAN
         /\ used \subseteq JobIds /\ lapsed \subseteq JobIds /\ Kept \subseteq used
         /\ batch \subseteq JobIds /\ cur \in batch \cup {NoJob} /\ NoJob \notin JobIds
         /\ runs \in [JobIds -> Nat]
         /\ ~Serving => batch = {} /\ DOMAIN copies = {}
BY CronAssumption DEF CronInv, StoresOK, CronAssumption, NoJob

\* The clock, the service and the commands of the command line.
LEMMA OutsideKeeps ==
  ASSUME CronInv, Tick \/ Load \/ StopCron \/ GatewayDies \/ CliLoad
  PROVE  CronInv'
<1> USE DEF Serving
<1>1. CASE Tick
  <2>1. nowMS' = nowMS + 1 /\ nowMS' \in Nat
    BY <1>1, Facts DEF Tick
  <2>2. StoresOK'
    BY <1>1, <2>1 DEF Tick, CronInv, StoresOK
  <2>3. ASSUME NEW j \in JobIds PROVE RunsOK(j)' /\ ClaimOK(j)' /\ CopyOK(j)' /\ ScheduledOK(j)'
    <3>1. RunsOK(j) /\ ClaimOK(j) /\ CopyOK(j) /\ ScheduledOK(j)
      BY DEF CronInv, JobsOK
    <3>2. Schedule[j].time \in Nat
      BY CronAssumption DEF CronAssumption
    <3>3. Schedule[j].time <= nowMS => Schedule[j].time <= nowMS'
      BY <2>1, <3>2, Facts
    <3> QED
      BY <1>1, <3>1, <3>3 DEF Tick, RunsOK, ClaimOK, CopyOK, ScheduledOK
  <2> QED
    BY <2>2, <2>3 DEF CronInv, JobsOK
<1>2. CASE Load
  <2>1. StoresOK'
    BY <1>2 DEF Load, CronInv, StoresOK
  <2>2. ASSUME NEW j \in JobIds PROVE RunsOK(j)' /\ ClaimOK(j)' /\ CopyOK(j)' /\ ScheduledOK(j)'
    <3>1. RunsOK(j) /\ ClaimOK(j) /\ CopyOK(j) /\ ScheduledOK(j) /\ batch = {} /\ DOMAIN copies = {}
      BY <1>2, Facts DEF CronInv, JobsOK, Load
    <3> QED
      BY <1>2, <3>1 DEF Load, RunsOK, ClaimOK, CopyOK, ScheduledOK
  <2> QED
    BY <2>1, <2>2 DEF CronInv, JobsOK
<1>3. CASE StopCron
  <2>1. StoresOK'
    BY <1>3 DEF StopCron, CronInv, StoresOK
  <2>2. ASSUME NEW j \in JobIds PROVE RunsOK(j)' /\ ClaimOK(j)' /\ CopyOK(j)' /\ ScheduledOK(j)'
    BY <1>3 DEF CronInv, JobsOK, StopCron, RunsOK, ClaimOK, CopyOK, ScheduledOK
  <2> QED
    BY <2>1, <2>2 DEF CronInv, JobsOK
<1>4. CASE GatewayDies
  <2>1. StoresOK'
    BY <1>4, Facts, EmptyStore DEF GatewayDies, StoresOK
  <2>2. ASSUME NEW j \in JobIds PROVE RunsOK(j)' /\ ClaimOK(j)' /\ CopyOK(j)' /\ ScheduledOK(j)'
    BY <1>4, EmptyStore DEF CronInv, JobsOK, GatewayDies, RunsOK, ClaimOK, CopyOK, ScheduledOK
  <2> QED
    BY <2>1, <2>2 DEF CronInv, JobsOK
<1>5. CASE CliLoad
  <2>1. cli'.jobs = jobsFile /\ cli'.open = TRUE /\ cli' = [jobs |-> cli'.jobs, open |-> cli'.open]
    BY <1>5 DEF CliLoad
  <2>2. faults' = faults + 1
    BY <1>5 DEF CliLoad
  <2>3. StoresOK'
    BY <1>5, <2>1, <2>2, Facts DEF CliLoad, StoresOK
  <2>4. ASSUME NEW j \in JobIds PROVE RunsOK(j)' /\ ClaimOK(j)' /\ CopyOK(j)' /\ ScheduledOK(j)'
    BY <1>5 DEF CronInv, JobsOK, CliLoad, RunsOK, ClaimOK, CopyOK, ScheduledOK
  <2> QED
    BY <2>3, <2>4 DEF CronInv, JobsOK
<1> QED
  BY <1>1, <1>2, <1>3, <1>4, <1>5

\* A command that writes its copy leaves the service alone.
LEMMA CliKeeps ==
  ASSUME CronInv, NEW s, CliWrite(s), used \subseteq used', used' \subseteq JobIds, Fit(s, used')
  PROVE  CronInv'
<1>1. Fit(jobs, used') /\ Fit(jobsFile, used') /\ Fit(copies, used')
  BY Facts, FitMore
<1>2. /\ Fit(jobsFile', used') /\ faults' \in Nat /\ cli' = Closed
      /\ UNCHANGED <<nowMS, service, jobs, batch, cur, copies, runs, lapsed>>
  BY <1>1, Facts DEF CliWrite, SaveStore
<1>3. Fit(cli'.jobs, used') /\ cli' = [jobs |-> cli'.jobs, open |-> cli'.open] /\ cli'.open \in BOOLEAN
  BY <1>2, EmptyStore DEF Closed
<1>4. StoresOK'
  BY <1>1, <1>2, <1>3, Facts DEF StoresOK, Serving
<1>5. ASSUME NEW j \in JobIds PROVE RunsOK(j)' /\ ClaimOK(j)' /\ CopyOK(j)' /\ ScheduledOK(j)'
  BY <1>2 DEF CronInv, JobsOK, RunsOK, ClaimOK, CopyOK, ScheduledOK, Serving
<1> QED
  BY <1>4, <1>5 DEF CronInv, JobsOK

LEMMA CliOpsKeep ==
  ASSUME CronInv, NEW j \in JobIds,
         CliAdd(j) \/ CliRemove(j) \/ (\E on \in BOOLEAN : CliEnable(j, on))
  PROVE  CronInv'
<1>1. CASE CliAdd(j)
  <2>1. /\ used' = used \cup {j} /\ used \subseteq used' /\ used' \subseteq JobIds /\ j \in used'
        /\ CliWrite(WithJob(cli.jobs, j, NewJob(j)))
    BY <1>1, Facts DEF CliAdd
  <2>2. Fit(cli.jobs, used') /\ GoodJob(j, NewJob(j))
    BY <2>1, Facts, FitMore, GoodJobs
  <2>3. Fit(WithJob(cli.jobs, j, NewJob(j)), used')
    BY <2>1, <2>2, FitWith
  <2> QED
    BY <2>1, <2>3, CliKeeps
<1>2. CASE CliRemove(j)
  BY <1>2, Facts, FitWithout, CliKeeps DEF CliRemove
<1>3. ASSUME NEW on \in BOOLEAN, CliEnable(j, on) PROVE CronInv'
  <2>1. j \in DOMAIN cli.jobs /\ CliWrite(WithJob(cli.jobs, j, Switched(j, on))) /\ used' = used
    BY <1>3 DEF CliEnable
  <2>2. Fit(WithJob(cli.jobs, j, Switched(j, on)), used)
    BY <2>1, Facts, FitHas, GoodJobs, FitWith
  <2> QED
    BY <2>1, <2>2, Facts, CliKeeps
<1> QED
  BY <1>1, <1>2, <1>3

LEMMA StartKeeps == ASSUME CronInv, StartCron PROVE CronInv'
<1>1. /\ service = "loaded" /\ jobs' = Recomputed(jobsFile)
      /\ lapsed' = lapsed \cup {j \in DOMAIN jobsFile : jobsFile[j].enabled /\ ComputeNext(j, nowMS) = Never}
      /\ service' \in {"running", "stopped"} /\ jobsFile' \in {jobs', jobsFile}
      /\ faults' \in {faults, faults + 1}
      /\ UNCHANGED <<nowMS, batch, cur, copies, cli, used, runs>>
  BY DEF StartCron
<1>2. ASSUME NEW j \in DOMAIN jobsFile
      PROVE  /\ j \in JobIds /\ j \in used /\ GoodJob(j, jobs'[j])
             /\ jobs'[j].enabled = jobsFile[j].enabled
             /\ jobs'[j].enabled => jobs'[j].next = ComputeNext(j, nowMS)
             /\ ~jobs'[j].enabled => jobs'[j].next = jobsFile[j].next
  <2> DEFINE x == jobsFile[j]
             c == ComputeNext(j, nowMS)
  <2>1. /\ j \in JobIds /\ j \in used /\ GoodJob(j, x) /\ x = [enabled |-> x.enabled, next |-> x.next]
        /\ x.enabled \in BOOLEAN
    BY Facts, FitHas
  <2>2. c \in Nat /\ (OneTime(j) => c \in {Never, Schedule[j].time})
    BY <2>1, Facts, ComputeNextIs
  <2>3. jobs'[j] = IF x.enabled THEN [x EXCEPT !.next = c] ELSE x
    BY <1>1 DEF Recomputed
  <2> HIDE DEF x, c
  <2>4. CASE x.enabled
    <3>1. jobs'[j] = [enabled |-> TRUE, next |-> c] /\ x.enabled = TRUE
      BY <2>1, <2>3, <2>4
    <3>2. GoodJob(j, [enabled |-> TRUE, next |-> c])
      BY <2>2, JobType DEF GoodJob
    <3>3. jobs'[j].enabled = TRUE /\ jobs'[j].next = c
      BY <3>1
    <3>4. GoodJob(j, jobs'[j])
      BY <3>1, <3>2
    <3> QED
      BY <2>1, <3>1, <3>3, <3>4 DEF x, c
  <2>5. CASE ~x.enabled
    BY <2>1, <2>3, <2>5 DEF x, c
  <2> QED
    BY <2>4, <2>5
<1>3. DOMAIN jobs' = DOMAIN jobsFile /\ jobs' = [j \in DOMAIN jobs' |-> jobs'[j]]
  BY <1>1 DEF Recomputed
<1>4. Fit(jobs', used')
  BY <1>1, <1>2, <1>3, Facts DEF Fit, IsStore, GoodJob
<1>5. batch = {} /\ DOMAIN copies = {}
  BY <1>1, Facts DEF Serving
<1>6. lapsed' \subseteq JobIds
  BY <1>1, <1>2, Facts
<1>7. StoresOK'
  <2>1. faults' \in Nat
    BY <1>1, Facts
  <2>2. Fit(jobsFile', used') /\ Fit(copies', used') /\ Fit(cli'.jobs, used')
    BY <1>1, <1>4, Facts
  <2>3. cli' = [jobs |-> cli'.jobs, open |-> cli'.open] /\ cli'.open \in BOOLEAN
    BY <1>1, Facts
  <2> QED
    BY <1>1, <1>4, <1>5, <1>6, <2>1, <2>2, <2>3, Facts DEF StoresOK
<1>8. ASSUME NEW j \in JobIds PROVE RunsOK(j)' /\ ClaimOK(j)' /\ CopyOK(j)' /\ ScheduledOK(j)'
  <2>1. RunsOK(j)
    BY DEF CronInv, JobsOK
  <2>2. RunsOK(j)' /\ CopyOK(j)'
    BY <1>1, <1>5, <2>1 DEF RunsOK, CopyOK
  <2>3. ASSUME j \in DOMAIN jobs', runs[j] = 1 PROVE jobs'[j].next = Never
    <3>1. OneTime(j) /\ Schedule[j].time <= nowMS /\ GoodJob(j, jobs'[j])
      BY <1>2, <1>3, <2>1, <2>3 DEF RunsOK
    <3>2. ComputeNext(j, nowMS) = Never
      BY <3>1, Facts, ComputeNextIs
    <3> QED
      BY <1>2, <1>3, <2>3, <3>1, <3>2 DEF GoodJob
  <2>4. ClaimOK(j)'
    BY <1>1, <1>5, <2>3 DEF ClaimOK
  <2>5. ScheduledOK(j)'
    BY <1>1, <1>2, <1>3 DEF ScheduledOK
  <2> QED
    BY <2>2, <2>4, <2>5
<1> QED
  BY <1>7, <1>8 DEF CronInv, JobsOK

LEMMA CheckKeeps == ASSUME CronInv, CheckJobs PROVE CronInv'
<1>1. /\ service = "running" /\ batch = {} /\ batch' = {j \in DOMAIN jobs : Due(j)}
      /\ jobs' = [j \in DOMAIN jobs |-> IF Due(j) THEN [jobs[j] EXCEPT !.next = Never] ELSE jobs[j]]
      /\ jobsFile' \in {jobs', jobsFile} /\ faults' \in {faults, faults + 1}
      /\ UNCHANGED <<nowMS, service, cur, copies, cli, used, runs, lapsed>>
  BY DEF CheckJobs, SaveStore
<1>2. ASSUME NEW j \in DOMAIN jobs
      PROVE  /\ j \in JobIds /\ j \in used /\ GoodJob(j, jobs'[j])
             /\ jobs'[j].enabled = jobs[j].enabled
             /\ Due(j) => jobs'[j].next = Never
             /\ ~Due(j) => jobs'[j] = jobs[j]
  <2> DEFINE x == jobs[j]
  <2>1. /\ j \in JobIds /\ j \in used /\ GoodJob(j, x) /\ x = [enabled |-> x.enabled, next |-> x.next]
        /\ x.enabled \in BOOLEAN
    BY Facts, FitHas
  <2>2. jobs'[j] = IF Due(j) THEN [x EXCEPT !.next = Never] ELSE x
    BY <1>1
  <2> HIDE DEF x
  <2>3. CASE Due(j)
    <3>1. jobs'[j] = [enabled |-> x.enabled, next |-> Never]
      BY <2>1, <2>2, <2>3
    <3>2. GoodJob(j, [enabled |-> x.enabled, next |-> Never])
      BY <2>1, JobType DEF GoodJob, Never
    <3> QED
      BY <2>1, <2>3, <3>1, <3>2 DEF x
  <2>4. CASE ~Due(j)
    BY <2>1, <2>2, <2>4 DEF x
  <2> QED
    BY <2>3, <2>4
<1>3. DOMAIN jobs' = DOMAIN jobs /\ jobs' = [j \in DOMAIN jobs' |-> jobs'[j]]
  BY <1>1
<1>4. Fit(jobs', used')
  BY <1>1, <1>2, <1>3 DEF Fit, IsStore, GoodJob
<1>5. cur = NoJob
  BY <1>1, Facts
<1>6. StoresOK'
  <2>1. faults' \in Nat /\ batch' \subseteq JobIds
    BY <1>1, <1>2, Facts
  <2>2. Fit(jobsFile', used') /\ Fit(copies', used') /\ Fit(cli'.jobs, used')
    BY <1>1, <1>4, Facts
  <2>3. cli' = [jobs |-> cli'.jobs, open |-> cli'.open] /\ cli'.open \in BOOLEAN
    BY <1>1, Facts
  <2> QED
    BY <1>1, <1>4, <1>5, <2>1, <2>2, <2>3, Facts DEF StoresOK, Serving
<1>7. ASSUME NEW j \in JobIds PROVE RunsOK(j)' /\ ClaimOK(j)' /\ CopyOK(j)' /\ ScheduledOK(j)'
  <2>1. RunsOK(j) /\ ClaimOK(j) /\ CopyOK(j) /\ ScheduledOK(j) /\ j # NoJob
    BY Facts DEF CronInv, JobsOK
  <2>2. ASSUME Due(j)
        PROVE  j \in used /\ (OneTime(j) => Schedule[j].time <= nowMS) /\ runs[j] # 1
    <3>1. j \in DOMAIN jobs /\ jobs[j].next # Never /\ jobs[j].next <= nowMS
      BY <2>2 DEF Due
    <3>2. j \in used /\ GoodJob(j, jobs[j])
      BY <3>1, Facts, FitHas
    <3>3. runs[j] # 1
      BY <1>1, <1>5, <2>1, <3>1 DEF ClaimOK, Serving
    <3> QED
      BY <3>1, <3>2, <3>3 DEF GoodJob
  <2>3. RunsOK(j)'
    BY <1>1, <2>1 DEF RunsOK
  <2>4. ClaimOK(j)'
    BY <1>1, <1>2, <1>3, <2>1, <2>2 DEF ClaimOK, Serving
  <2>5. CopyOK(j)'
    BY <1>1, <1>3, <2>1 DEF CopyOK
  <2>6. ScheduledOK(j)'
    BY <1>1, <1>2, <1>3, <2>1 DEF ScheduledOK
  <2> QED
    BY <2>3, <2>4, <2>5, <2>6
<1> QED
  BY <1>6, <1>7 DEF CronInv, JobsOK

\* Of the jobs that are due there is one with the smallest number.
LEMMA LeastOf ==
  ASSUME NEW T, T \subseteq Nat, T # {}
  PROVE  \E m \in T : \A k \in T : m <= k
<1> DEFINE R == OpToRel(<, Nat)
<1>1. IsWellFoundedOn(R, Nat)
  BY NatLessThanWellFounded
<1>2. \A a, b \in Nat : <<a, b>> \in R <=> a < b
  BY DEF OpToRel
<1> HIDE DEF R
<1>3. PICK m \in T : \A k \in T : ~(<<k, m>> \in R)
  BY <1>1, WFMin
<1>4. ASSUME NEW k \in T PROVE m <= k
  <2>1. m \in Nat /\ k \in Nat
    OBVIOUS
  <2>2. ~(k < m)
    BY <1>2, <1>3, <2>1, Zenon
  <2> QED
    BY <2>1, <2>2
<1> QED
  BY <1>4

LEMMA NextDueIs == ASSUME CronInv, batch # {} PROVE NextDue \in batch
<1>1. batch \subseteq Nat
  BY Facts, CronAssumption DEF CronAssumption
<1>2. \E j \in batch : \A k \in batch : j <= k
  BY <1>1, LeastOf
<1> QED
  BY <1>2 DEF NextDue

\* Only a one-time job that has not run is counted, and then it is the current one.
LEMMA BeginKeeps == ASSUME CronInv, JobBegin PROVE CronInv'
<1> DEFINE n == NextDue
<1>1. n \in batch /\ n \in JobIds /\ cur = NoJob
  BY NextDueIs, Facts DEF JobBegin
<1>2. UNCHANGED <<nowMS, service, jobs, jobsFile, copies, cli, used, faults, lapsed>>
  BY DEF JobBegin
<1>3. CASE n \notin DOMAIN jobs
  <2>1. batch' = batch \ {n} /\ cur' = cur /\ runs' = runs
    BY <1>3 DEF JobBegin
  <2> HIDE DEF n
  <2>2. StoresOK'
    BY <1>1, <1>2, <2>1, Facts DEF StoresOK, Serving
  <2>3. ASSUME NEW j \in JobIds PROVE RunsOK(j)' /\ ClaimOK(j)' /\ CopyOK(j)' /\ ScheduledOK(j)'
    <3>1. RunsOK(j) /\ ClaimOK(j) /\ CopyOK(j) /\ ScheduledOK(j)
      BY DEF CronInv, JobsOK
    <3>2. RunsOK(j)' /\ ClaimOK(j)' /\ CopyOK(j)'
      BY <1>2, <2>1, <3>1 DEF RunsOK, ClaimOK, CopyOK, Serving
    <3>3. ScheduledOK(j)'
      BY <1>2, <1>3, <2>1, <3>1 DEF ScheduledOK
    <3> QED
      BY <3>2, <3>3
  <2> QED
    BY <2>2, <2>3 DEF CronInv, JobsOK
<1>4. CASE n \in DOMAIN jobs
  <2>1. /\ batch' = batch /\ cur' = n
        /\ runs' = IF OneTime(n) THEN [runs EXCEPT ![n] = @ + 1] ELSE runs
    BY <1>4 DEF JobBegin
  <2> HIDE DEF n
  <2>2. runs' \in [JobIds -> Nat]
    BY <1>1, <2>1, Facts
  <2>3. StoresOK'
    BY <1>1, <1>2, <2>1, <2>2, Facts DEF StoresOK, Serving
  <2>4. ASSUME NEW j \in JobIds PROVE RunsOK(j)' /\ ClaimOK(j)' /\ CopyOK(j)' /\ ScheduledOK(j)'
    <3>1. RunsOK(j) /\ ClaimOK(j) /\ CopyOK(j) /\ ScheduledOK(j) /\ j # NoJob /\ runs[j] \in Nat
      BY Facts DEF CronInv, JobsOK
    <3>2. CASE j # n
      <4>1. runs'[j] = runs[j]
        BY <1>1, <2>1, <3>2, Facts
      <4>2. RunsOK(j)' /\ ScheduledOK(j)'
        BY <1>2, <2>1, <3>1, <4>1 DEF RunsOK, ScheduledOK
      <4>3. ClaimOK(j)' /\ CopyOK(j)'
        BY <1>1, <1>2, <2>1, <3>1, <4>1 DEF ClaimOK, CopyOK, Serving
      <4> QED
        BY <4>2, <4>3
    <3>3. CASE j = n
      <4>1. j \in used /\ (OneTime(j) => Schedule[j].time <= nowMS) /\ runs[j] # 1 /\ runs[j] = 0
        BY <1>1, <3>1, <3>3 DEF ClaimOK, RunsOK
      <4>2. runs'[j] = IF OneTime(j) THEN 1 ELSE 0
        BY <2>1, <3>3, <4>1, Facts
      <4>3. RunsOK(j)'
        BY <1>2, <4>1, <4>2 DEF RunsOK
      <4>4. ClaimOK(j)' /\ CopyOK(j)' /\ ScheduledOK(j)'
        BY <1>2, <2>1, <3>1, <3>3 DEF ClaimOK, CopyOK, ScheduledOK, Serving
      <4> QED
        BY <4>3, <4>4
    <3> QED
      BY <3>2, <3>3
  <2> QED
    BY <2>3, <2>4 DEF CronInv, JobsOK
<1> QED
  BY <1>3, <1>4

\* A store written by the service with the variables of the clock and the runs left alone.
LEMMA StoresKept ==
  ASSUME CronInv, Fit(jobs', used'), Fit(copies', used'), jobsFile' \in {jobs', jobsFile},
         faults' \in {faults, faults + 1}, used \subseteq used', used' \subseteq JobIds,
         lapsed' \subseteq JobIds, batch' \subseteq batch, cur' \in batch' \cup {NoJob},
         ~Serving => DOMAIN copies' = {},
         UNCHANGED <<nowMS, service, cli, runs>>
  PROVE  StoresOK'
<1>1. faults' \in Nat
  BY Facts
<1>2. Fit(jobsFile', used') /\ Fit(cli'.jobs, used')
  BY Facts, FitMore
<1>3. cli' = [jobs |-> cli'.jobs, open |-> cli'.open] /\ cli'.open \in BOOLEAN
  BY Facts
<1> QED
  BY <1>1, <1>2, <1>3, Facts DEF StoresOK, Serving

LEMMA EndKeeps == ASSUME CronInv, JobEnd PROVE CronInv'
<1> DEFINE c == ComputeNext(cur, nowMS)
<1>1. /\ cur \in batch /\ cur \in JobIds /\ batch' = batch \ {cur} /\ cur' = NoJob
      /\ UNCHANGED <<nowMS, service, copies, cli, used, runs>>
  BY Facts DEF JobEnd
<1>2. Serving
  BY <1>1, Facts
<1>3. CASE cur \notin DOMAIN jobs
  <2>1. UNCHANGED <<jobs, jobsFile, faults, lapsed>>
    BY <1>3 DEF JobEnd
  <2>2. StoresOK'
    BY <1>1, <2>1, Facts, StoresKept
  <2>3. ASSUME NEW j \in JobIds PROVE RunsOK(j)' /\ ClaimOK(j)' /\ CopyOK(j)' /\ ScheduledOK(j)'
    <3>1. RunsOK(j) /\ ClaimOK(j) /\ CopyOK(j) /\ ScheduledOK(j)
      BY DEF CronInv, JobsOK
    <3>2. RunsOK(j)'
      BY <1>1, <2>1, <3>1 DEF RunsOK
    <3>3. ClaimOK(j)' /\ CopyOK(j)' /\ ScheduledOK(j)'
      BY <1>1, <1>3, <2>1, <3>1 DEF ClaimOK, CopyOK, ScheduledOK, Serving
    <3> QED
      BY <3>2, <3>3
  <2> QED
    BY <2>2, <2>3 DEF CronInv, JobsOK
<1>4. CASE cur \in DOMAIN jobs
  <2>1. /\ jobs' = Finished(cur) /\ jobsFile' \in {jobs', jobsFile}
        /\ faults' \in {faults, faults + 1}
        /\ lapsed' = IF ~OneTime(cur) /\ c = Never THEN lapsed \cup {cur} ELSE lapsed
    BY <1>4 DEF JobEnd, SaveStore
  <2>2. /\ Fit(jobs', used)
        /\ SameBut(jobs', jobs, cur)
        /\ OneTime(cur) /\ cur \notin Kept => cur \notin DOMAIN jobs'
        /\ OneTime(cur) /\ cur \in Kept => jobs'[cur].enabled = FALSE /\ jobs'[cur].next = Never
        /\ ~OneTime(cur) => jobs'[cur].next = c
    <3>1. CASE OneTime(cur) /\ cur \in Kept
      <4> DEFINE x == [enabled |-> FALSE, next |-> Never]
      <4>1. jobs' = WithJob(jobs, cur, x)
        BY <2>1, <3>1 DEF Finished
      <4>2. GoodJob(cur, x) /\ cur \in used /\ x.enabled = FALSE /\ x.next = Never
        BY <1>1, <1>4, Facts, FitHas, GoodJobs
      <4> HIDE DEF x
      <4>3. /\ Fit(jobs', used) /\ DOMAIN jobs' = DOMAIN jobs \cup {cur} /\ jobs'[cur] = x
            /\ SameBut(jobs', jobs, cur)
        <5> DEFINE w == WithJob(jobs, cur, x)
        <5>1. Fit(jobs, used) /\ cur \in JobIds /\ cur \in used /\ GoodJob(cur, x)
          BY <1>1, <4>2, Facts
        <5>2. /\ Fit(w, used) /\ DOMAIN w = DOMAIN jobs \cup {cur} /\ w[cur] = x
              /\ SameBut(w, jobs, cur)
          BY <5>1, FitWith
        <5> QED
          BY <4>1, <5>2
      <4> QED
        BY <1>4, <3>1, <4>2, <4>3
    <3>2. CASE OneTime(cur) /\ cur \notin Kept
      <4>1. jobs' = Without(jobs, cur)
        BY <2>1, <3>2 DEF Finished
      <4> QED
        <5> DEFINE w == Without(jobs, cur)
        <5>1. /\ Fit(w, used) /\ DOMAIN w = DOMAIN jobs \ {cur}
              /\ SameBut(w, jobs, cur)
          BY Facts, FitWithout
        <5> HIDE DEF w
        <5> QED
          BY <3>2, <4>1, <5>1 DEF w
    <3>3. CASE ~OneTime(cur)
      <4> DEFINE x == [jobs[cur] EXCEPT !.next = c]
      <4>1. jobs' = [jobs EXCEPT ![cur] = x]
        BY <2>1, <3>3 DEF Finished
      <4>2. c \in Nat
        BY <1>1, Facts, ComputeNextIs
      <4>3. /\ jobs[cur] = [enabled |-> jobs[cur].enabled, next |-> jobs[cur].next]
            /\ jobs[cur].enabled \in BOOLEAN
        BY <1>4, Facts, FitHas
      <4>4. x = [enabled |-> jobs[cur].enabled, next |-> c]
        BY <4>3
      <4>5. GoodJob(cur, x) /\ x.next = c
        BY <3>3, <4>2, <4>3, <4>4, JobType DEF GoodJob
      <4> HIDE DEF x, c
      <4>6. /\ Fit(jobs', used) /\ DOMAIN jobs' = DOMAIN jobs /\ jobs'[cur] = x
            /\ SameBut(jobs', jobs, cur)
        BY <1>4, <4>1, <4>5, Facts, FitExcept
      <4> QED
        BY <3>3, <4>5, <4>6
    <3> QED
      BY <3>1, <3>2, <3>3
  <2> HIDE DEF c
  <2>3. lapsed \subseteq lapsed' /\ lapsed' \subseteq JobIds
    BY <1>1, <2>1, Facts
  <2>4. StoresOK'
    BY <1>1, <2>1, <2>2, <2>3, Facts, StoresKept
  <2>5. ASSUME NEW j \in JobIds PROVE RunsOK(j)' /\ ClaimOK(j)' /\ CopyOK(j)' /\ ScheduledOK(j)'
    <3>1. RunsOK(j) /\ ClaimOK(j) /\ CopyOK(j) /\ ScheduledOK(j)
      BY DEF CronInv, JobsOK
    <3>2. RunsOK(j)'
      BY <1>1, <3>1 DEF RunsOK
    <3>3. CASE j # cur
      <4>1. j \in DOMAIN jobs' <=> j \in DOMAIN jobs
        BY <2>2, <3>3 DEF SameBut
      <4>2. j \in DOMAIN jobs => jobs'[j] = jobs[j]
        BY <2>2, <3>3 DEF SameBut
      <4> QED
        BY <1>1, <2>3, <3>1, <3>2, <3>3, <4>1, <4>2 DEF ClaimOK, CopyOK, ScheduledOK, Serving
    <3>4. CASE j = cur
      <4>1. runs[j] = 1 => OneTime(j)
        BY <3>1 DEF RunsOK
      <4>2. ClaimOK(j)'
        BY <1>1, <2>2, <3>1, <3>4, <4>1 DEF ClaimOK, Serving
      <4>3. CopyOK(j)'
        BY <1>1, <2>2, <2>3, <3>1, <3>4, <4>1 DEF CopyOK
      <4>4. ScheduledOK(j)'
        BY <1>1, <2>1, <2>2, <3>1, <3>4 DEF ScheduledOK
      <4> QED
        BY <3>2, <4>2, <4>3, <4>4
    <3> QED
      BY <3>3, <3>4
  <2> QED
    BY <2>4, <2>5 DEF CronInv, JobsOK
<1> QED
  BY <1>3, <1>4

\* What an operation on job j leaves alone.
LEMMA OtherJobs ==
  ASSUME CronInv, NEW j \in JobIds, NEW k \in JobIds, k # j,
         SameBut(jobs', jobs, j), copies' = copies \/ SameBut(copies', copies, j),
         lapsed \subseteq lapsed', used \subseteq used',
         UNCHANGED <<nowMS, service, batch, cur, runs>>
  PROVE  RunsOK(k)' /\ ClaimOK(k)' /\ CopyOK(k)' /\ ScheduledOK(k)'
<1>1. RunsOK(k) /\ ClaimOK(k) /\ CopyOK(k) /\ ScheduledOK(k)
  BY DEF CronInv, JobsOK
<1>a. (k \in DOMAIN jobs' <=> k \in DOMAIN jobs) /\ (k \in DOMAIN jobs => jobs'[k] = jobs[k])
  BY DEF SameBut
<1>b. k \in DOMAIN copies' => k \in DOMAIN copies /\ copies'[k] = copies[k]
  BY DEF SameBut
<1>2. RunsOK(k)' /\ ClaimOK(k)'
  BY <1>1, <1>a DEF RunsOK, ClaimOK, Serving
<1>3. CopyOK(k)' /\ ScheduledOK(k)'
  BY <1>1, <1>a, <1>b DEF CopyOK, ScheduledOK
<1> QED
  BY <1>2, <1>3

LEMMA AddKeeps == ASSUME CronInv, NEW j \in JobIds, AddJob(j) PROVE CronInv'
<1> DEFINE x == NewJob(j)
           w == WithJob(jobs, j, x)
           v == WithJob(copies, j, x)
<1>1. /\ Serving /\ j \notin used /\ used' = used \cup {j} /\ jobs' = w /\ lapsed' = Computed(j)
      /\ jobsFile' \in {jobs', jobsFile} /\ faults' \in {faults, faults + 1}
      /\ copies' = copies \/ copies' = v
      /\ UNCHANGED <<nowMS, service, batch, cur, cli, runs>>
  BY DEF AddJob, SaveStore
<1>2. j \in used' /\ used \subseteq used' /\ used' \subseteq JobIds
  BY <1>1, Facts
<1>3. /\ lapsed \subseteq lapsed' /\ lapsed' \subseteq JobIds
      /\ ComputeNext(j, nowMS) = Never => j \in lapsed'
  BY <1>1, Facts DEF Computed
<1>4. GoodJob(j, x) /\ x.next = ComputeNext(j, nowMS)
  BY Facts, GoodJobs
<1>5. Fit(jobs, used') /\ Fit(copies, used')
  BY <1>2, Facts, FitMore
<1> HIDE DEF x
<1>6. /\ Fit(w, used') /\ DOMAIN w = DOMAIN jobs \cup {j} /\ w[j] = x
      /\ SameBut(w, jobs, j)
  <2>1. Fit(jobs, used') /\ j \in JobIds /\ j \in used' /\ GoodJob(j, x)
    BY <1>2, <1>4, <1>5
  <2> DEFINE U == used'
  <2> HIDE DEF U
  <2>2. Fit(jobs, U) /\ j \in U
    BY <2>1 DEF U
  <2>3. /\ Fit(w, U) /\ DOMAIN w = DOMAIN jobs \cup {j} /\ w[j] = x
        /\ SameBut(w, jobs, j)
    BY <2>1, <2>2, FitWith
  <2> QED
    BY <2>3 DEF U
<1>7. /\ Fit(v, used') /\ DOMAIN v = DOMAIN copies \cup {j} /\ v[j] = x
      /\ SameBut(v, copies, j)
  <2>1. Fit(copies, used') /\ j \in JobIds /\ j \in used' /\ GoodJob(j, x)
    BY <1>2, <1>4, <1>5
  <2> DEFINE U == used'
  <2> HIDE DEF U
  <2>2. Fit(copies, U) /\ j \in U
    BY <2>1 DEF U
  <2>3. /\ Fit(v, U) /\ DOMAIN v = DOMAIN copies \cup {j} /\ v[j] = x
        /\ SameBut(v, copies, j)
    BY <2>1, <2>2, FitWith
  <2> QED
    BY <2>3 DEF U
<1> HIDE DEF w, v
<1>8. StoresOK'
  <2>1. Fit(jobs', used') /\ Fit(copies', used')
    BY <1>1, <1>5, <1>6, <1>7
  <2> QED
    BY <1>1, <1>2, <1>3, <2>1, Facts, StoresKept
<1>9. ASSUME NEW k \in JobIds PROVE RunsOK(k)' /\ ClaimOK(k)' /\ CopyOK(k)' /\ ScheduledOK(k)'
  <2>1. CASE k # j
    <3>1. SameBut(jobs', jobs, j) /\ (copies' = copies \/ SameBut(copies', copies, j))
      BY <1>1, <1>6, <1>7
    <3> QED
      BY <1>1, <1>2, <1>3, <2>1, <3>1, OtherJobs
  <2>2. CASE k = j
    <3>1. RunsOK(j) /\ ClaimOK(j) /\ j \notin Kept
      BY <1>1, Facts DEF CronInv, JobsOK
    <3>2. runs[j] # 1 /\ j \notin batch
      BY <1>1, <3>1 DEF RunsOK, ClaimOK
    <3>3. j \notin DOMAIN copies
      BY <1>1, Facts, FitHas
    <3>4. jobs'[j] = x /\ (j \in DOMAIN copies' => copies'[j] = x)
      BY <1>1, <1>6, <1>7, <3>3
    <3>5. RunsOK(j)' /\ ClaimOK(j)'
      BY <1>1, <1>2, <3>1, <3>2 DEF RunsOK, ClaimOK
    <3>6. CopyOK(j)'
      BY <1>1, <1>3, <1>4, <3>1, <3>2, <3>4 DEF CopyOK
    <3>7. ScheduledOK(j)'
      BY <1>3, <1>4, <3>4 DEF ScheduledOK
    <3> QED
      BY <2>2, <3>5, <3>6, <3>7
  <2> QED
    BY <2>1, <2>2
<1> QED
  BY <1>8, <1>9 DEF CronInv, JobsOK

\* The copy may give a job that is running its one time back: it is removed when it ends.
LEMMA UpdateKeeps == ASSUME CronInv, NEW j \in JobIds, UpdateJob(j) PROVE CronInv'
<1> DEFINE v == Without(copies, j)
           w == [jobs EXCEPT ![j] = copies[j]]
<1>1. /\ j \in DOMAIN copies /\ copies' = v
      /\ IF j \in DOMAIN jobs THEN jobs' = w ELSE jobs' = jobs
      /\ jobsFile' \in {jobs', jobsFile} /\ faults' \in {faults, faults + 1}
      /\ UNCHANGED <<nowMS, service, batch, cur, cli, used, runs, lapsed>>
  BY DEF UpdateJob, SaveStore
<1>2. /\ Fit(v, used) /\ DOMAIN v = DOMAIN copies \ {j}
      /\ SameBut(v, copies, j)
  BY Facts, FitWithout
<1>3. GoodJob(j, copies[j])
  BY <1>1, Facts, FitHas
<1>4. ASSUME j \in DOMAIN jobs
      PROVE  /\ Fit(w, used) /\ DOMAIN w = DOMAIN jobs /\ w[j] = copies[j]
             /\ SameBut(w, jobs, j)
  <2>1. Fit(jobs, used) /\ j \in DOMAIN jobs
    BY <1>4, Facts
  <2> DEFINE x == copies[j]
  <2>2. GoodJob(j, x)
    BY <1>3
  <2> HIDE DEF x
  <2>3. /\ Fit([jobs EXCEPT ![j] = x], used) /\ DOMAIN [jobs EXCEPT ![j] = x] = DOMAIN jobs
        /\ [jobs EXCEPT ![j] = x][j] = x
        /\ SameBut([jobs EXCEPT ![j] = x], jobs, j)
    BY <2>1, <2>2, FitExcept
  <2> QED
    BY <2>3 DEF x
<1> HIDE DEF v, w
<1>5. /\ Fit(jobs', used') /\ DOMAIN jobs' = DOMAIN jobs
      /\ SameBut(jobs', jobs, j)
      /\ j \in DOMAIN jobs => jobs'[j] = copies[j]
  <2>1. CASE j \in DOMAIN jobs
    BY <1>1, <1>4, <2>1
  <2>2. CASE j \notin DOMAIN jobs
    <3>1. jobs' = jobs
      BY <1>1, <2>2
    <3>2. SameBut(jobs', jobs, j)
      BY <3>1 DEF SameBut
    <3> QED
      BY <1>1, <2>2, <3>1, <3>2, Facts
  <2> QED
    BY <2>1, <2>2
<1>6. StoresOK'
  <2>1. Fit(copies', used') /\ (~Serving => DOMAIN copies' = {})
    BY <1>1, <1>2, Facts
  <2> QED
    BY <1>1, <1>5, <2>1, Facts, StoresKept
<1>7. ASSUME NEW k \in JobIds PROVE RunsOK(k)' /\ ClaimOK(k)' /\ CopyOK(k)' /\ ScheduledOK(k)'
  <2>1. CASE k # j
    <3>1. SameBut(jobs', jobs, j) /\ SameBut(copies', copies, j)
      BY <1>1, <1>2, <1>5
    <3> QED
      BY <1>1, <2>1, <3>1, OtherJobs
  <2>2. CASE k = j
    <3>1. RunsOK(j) /\ ClaimOK(j) /\ CopyOK(j)
      BY DEF CronInv, JobsOK
    <3>2. RunsOK(j)'
      BY <1>1, <3>1 DEF RunsOK
    <3>3. ClaimOK(j)'
      BY <1>1, <1>5, <3>1 DEF ClaimOK, CopyOK, Serving
    <3>4. CopyOK(j)'
      BY <1>1, <1>2 DEF CopyOK
    <3>5. ScheduledOK(j)'
      BY <1>1, <1>5, <3>1 DEF ScheduledOK, CopyOK
    <3> QED
      BY <2>2, <3>2, <3>3, <3>4, <3>5
  <2> QED
    BY <2>1, <2>2
<1> QED
  BY <1>6, <1>7 DEF CronInv, JobsOK

LEMMA RemoveKeeps == ASSUME CronInv, NEW j \in JobIds, RemoveJob(j) PROVE CronInv'
<1> DEFINE w == Without(jobs, j)
<1>1. /\ jobs' = w /\ jobsFile' \in {jobs', jobsFile} /\ faults' \in {faults, faults + 1}
      /\ UNCHANGED <<nowMS, service, batch, cur, copies, cli, used, runs, lapsed>>
  BY DEF RemoveJob, SaveStore
<1>2. /\ Fit(w, used) /\ DOMAIN w = DOMAIN jobs \ {j}
      /\ SameBut(w, jobs, j)
  BY Facts, FitWithout
<1> HIDE DEF w
<1>3. StoresOK'
  BY <1>1, <1>2, Facts, StoresKept
<1>4. ASSUME NEW k \in JobIds PROVE RunsOK(k)' /\ ClaimOK(k)' /\ CopyOK(k)' /\ ScheduledOK(k)'
  <2>1. CASE k # j
    <3>1. SameBut(jobs', jobs, j)
      BY <1>1, <1>2
    <3> QED
      BY <1>1, <2>1, <3>1, OtherJobs
  <2>2. CASE k = j
    <3>1. RunsOK(j) /\ ClaimOK(j) /\ CopyOK(j) /\ j \notin DOMAIN jobs'
      BY <1>1, <1>2 DEF CronInv, JobsOK
    <3> QED
      BY <1>1, <2>2, <3>1 DEF RunsOK, ClaimOK, CopyOK, ScheduledOK
  <2> QED
    BY <2>1, <2>2
<1> QED
  BY <1>3, <1>4 DEF CronInv, JobsOK

\* A job that has run is past its time: enabled again, it gets no next run.
LEMMA EnableKeeps ==
  ASSUME CronInv, NEW j \in JobIds, NEW on \in BOOLEAN, EnableJob(j, on)
  PROVE  CronInv'
<1> DEFINE x == Switched(j, on)
           w == WithJob(jobs, j, x)
<1>1. /\ j \in DOMAIN jobs /\ jobs' = w /\ lapsed' = IF on THEN Computed(j) ELSE lapsed
      /\ jobsFile' \in {jobs', jobsFile} /\ faults' \in {faults, faults + 1}
      /\ UNCHANGED <<nowMS, service, batch, cur, copies, cli, used, runs>>
  BY DEF EnableJob, SaveStore
<1>2. /\ GoodJob(j, x) /\ x.enabled = on
      /\ x.next = IF on THEN ComputeNext(j, nowMS) ELSE Never
  BY Facts, GoodJobs
<1>3. /\ lapsed \subseteq lapsed' /\ lapsed' \subseteq JobIds
      /\ on /\ ComputeNext(j, nowMS) = Never => j \in lapsed'
  BY <1>1, Facts DEF Computed
<1>4. j \in used
  BY <1>1, Facts, FitHas
<1> HIDE DEF x
<1>5. /\ Fit(w, used) /\ DOMAIN w = DOMAIN jobs \cup {j} /\ w[j] = x
      /\ SameBut(w, jobs, j)
  <2>1. Fit(jobs, used) /\ j \in JobIds /\ j \in used /\ GoodJob(j, x)
    BY <1>2, <1>4, Facts
  <2>2. /\ Fit(WithJob(jobs, j, x), used) /\ DOMAIN WithJob(jobs, j, x) = DOMAIN jobs \cup {j}
        /\ WithJob(jobs, j, x)[j] = x /\ SameBut(WithJob(jobs, j, x), jobs, j)
    <3> HIDE DEF w
    <3> QED
      BY <2>1, FitWith
  <2> QED
    BY <2>2
<1> HIDE DEF w
<1>6. StoresOK'
  BY <1>1, <1>3, <1>5, Facts, StoresKept
<1>7. ASSUME NEW k \in JobIds PROVE RunsOK(k)' /\ ClaimOK(k)' /\ CopyOK(k)' /\ ScheduledOK(k)'
  <2>1. CASE k # j
    <3>1. SameBut(jobs', jobs, j)
      BY <1>1, <1>5
    <3> QED
      BY <1>1, <1>3, <2>1, <3>1, OtherJobs
  <2>2. CASE k = j
    <3>1. RunsOK(j) /\ ClaimOK(j) /\ CopyOK(j)
      BY DEF CronInv, JobsOK
    <3>2. RunsOK(j)'
      BY <1>1, <3>1 DEF RunsOK
    <3>3. runs[j] = 1 => x.next = Never
      BY <1>2, <3>1, Facts, ComputeNextIs DEF RunsOK
    <3>4. ClaimOK(j)'
      BY <1>1, <1>5, <3>1, <3>3 DEF ClaimOK, Serving
    <3>5. CopyOK(j)'
      BY <1>1, <1>3, <3>1 DEF CopyOK
    <3>6. ScheduledOK(j)'
      BY <1>1, <1>2, <1>3, <1>5 DEF ScheduledOK
    <3> QED
      BY <2>2, <3>2, <3>4, <3>5, <3>6
  <2> QED
    BY <2>1, <2>2
<1> QED
  BY <1>6, <1>7 DEF CronInv, JobsOK

LEMMA CronInvStep == CronInv /\ [CronNext]_cronVars => CronInv'
<1> SUFFICES ASSUME CronInv, [CronNext]_cronVars PROVE CronInv'
  OBVIOUS
<1>1. CASE Tick \/ Load \/ StopCron \/ GatewayDies \/ CliLoad
  BY <1>1, OutsideKeeps
<1>2. CASE StartCron
  BY <1>2, StartKeeps
<1>3. CASE CheckJobs
  BY <1>3, CheckKeeps
<1>4. CASE JobBegin
  BY <1>4, BeginKeeps
<1>5. CASE JobEnd
  BY <1>5, EndKeeps
<1>6. ASSUME NEW j \in JobIds, AddJob(j) PROVE CronInv'
  BY <1>6, AddKeeps
<1>7. ASSUME NEW j \in JobIds, UpdateJob(j) PROVE CronInv'
  BY <1>7, UpdateKeeps
<1>8. ASSUME NEW j \in JobIds, RemoveJob(j) PROVE CronInv'
  BY <1>8, RemoveKeeps
<1>9. ASSUME NEW j \in JobIds, NEW on \in BOOLEAN, EnableJob(j, on) PROVE CronInv'
  BY <1>9, EnableKeeps
<1>10. ASSUME NEW j \in JobIds,
              CliAdd(j) \/ CliRemove(j) \/ (\E on \in BOOLEAN : CliEnable(j, on))
       PROVE  CronInv'
  BY <1>10, CliOpsKeep
<1>11. CASE UNCHANGED cronVars
  <2>1. StoresOK'
    BY <1>11 DEF cronVars, CronInv, StoresOK, Serving
  <2>2. JobsOK'
    BY <1>11 DEF cronVars, CronInv, JobsOK, RunsOK, ClaimOK, CopyOK, ScheduledOK, Serving
  <2> QED
    BY <2>1, <2>2 DEF CronInv
<1> QED
  BY <1>1, <1>2, <1>3, <1>4, <1>5, <1>6, <1>7, <1>8, <1>9, <1>10, <1>11 DEF CronNext

\* The stores keep their types, and the job being executed belongs to the batch.
THEOREM CronTypeCorrect == CronSpec => []CronTypeOK
<1>1. CronInv => CronTypeOK
  BY DEF CronInv, StoresOK, CronTypeOK, Fit
<1> QED
  BY <1>1, CronInvInit, CronInvStep, PTL DEF CronSpec

\* No one-time job is handed to the agent twice, and a running service forgets none that is
\* enabled, whatever saves fail, whenever the gateway dies, and whatever cron commands and
\* late updates write over.
THEOREM JobsAreKept == CronSpec => []JobsKept
<1>1. CronInv => JobsKept
  BY DEF CronInv, JobsOK, RunsOK, ScheduledOK, JobsKept, OneTimeRunsOnce, EnabledIsScheduled,
    StoresOK, Fit, IsStore
<1> QED
  BY <1>1, CronInvInit, CronInvStep, PTL DEF CronSpec

\* The part of RemovedStep about one job.
ReturnOK(j) ==
  /\ Serving /\ Serving' /\ j \notin DOMAIN jobs => j \notin DOMAIN jobs'
  /\ j \in DOMAIN jobsFile' => j \in DOMAIN jobsFile \cup DOMAIN jobs \cup DOMAIN cli.jobs
  /\ JobAbsent(j) => JobAbsent(j)'

\* Every write of a store adds at most a job whose id is new, and every reading of the
\* file belongs to a process that begins.
LEMMA NoJobReturns == [CronNext]_cronVars => [RemovedStep]_cronVars
<1> SUFFICES ASSUME CronNext PROVE RemovedStep
  OBVIOUS
<1> SUFFICES ASSUME NEW j \in used PROVE ReturnOK(j)
  BY DEF RemovedStep, ReturnOK
<1> USE DEF ReturnOK, JobAbsent, Serving
<1>1. CASE Tick \/ Load \/ StopCron \/ GatewayDies \/ CliLoad \/ JobBegin
  BY <1>1 DEF Tick, Load, StopCron, GatewayDies, CliLoad, JobBegin, NoJobs
<1>2. CASE StartCron
  BY <1>2 DEF StartCron, Recomputed
<1>3. CASE CheckJobs
  BY <1>3 DEF CheckJobs, SaveStore
<1>4. CASE JobEnd
  BY <1>4 DEF JobEnd, Finished, SaveStore, WithJob, Without
<1>5. ASSUME NEW k \in JobIds, AddJob(k) PROVE ReturnOK(j)
  BY <1>5 DEF AddJob, SaveStore, WithJob
<1>6. ASSUME NEW k \in JobIds, UpdateJob(k) PROVE ReturnOK(j)
  BY <1>6 DEF UpdateJob, SaveStore
<1>7. ASSUME NEW k \in JobIds, RemoveJob(k) PROVE ReturnOK(j)
  BY <1>7 DEF RemoveJob, SaveStore, Without
<1>8. ASSUME NEW k \in JobIds, NEW on \in BOOLEAN, EnableJob(k, on) PROVE ReturnOK(j)
  BY <1>8 DEF EnableJob, SaveStore, WithJob
<1>9. ASSUME NEW k \in JobIds, CliAdd(k) PROVE ReturnOK(j)
  BY <1>9 DEF CliAdd, CliWrite, SaveStore, WithJob, Closed
<1>10. ASSUME NEW k \in JobIds, CliRemove(k) PROVE ReturnOK(j)
  BY <1>10 DEF CliRemove, CliWrite, SaveStore, Without, Closed
<1>11. ASSUME NEW k \in JobIds, NEW on \in BOOLEAN, CliEnable(k, on) PROVE ReturnOK(j)
  BY <1>11 DEF CliEnable, CliWrite, SaveStore, WithJob, Closed
<1> QED
  BY <1>1, <1>2, <1>3, <1>4, <1>5, <1>6, <1>7, <1>8, <1>9, <1>10, <1>11 DEF CronNext

\* A removed job comes back only from a store that still holds it, and into memory
\* only with a new process.
THEOREM RemovedReturnOnlyFromStores == CronSpec => ReturnsOnlyFromStore
BY NoJobReturns, PTL DEF CronSpec, ReturnsOnlyFromStore

(***************************************************************************)
(* Subagents                                                               *)
(***************************************************************************)

\* A task is spawned once: a round waits only for one that is idle, and no two for the same.
SpawnsOK ==
  \A r \in Rounds :
    /\ round[r] # "spawning" => wants[r] = NoTask
    /\ round[r] = "spawning" => wants[r] \in SubTasks /\ task[wants[r]] = "idle"
    /\ \A q \in Rounds : wants[q] = wants[r] /\ wants[r] # NoTask => q = r

\* The task that holds the lock is publishing, and was the last to end.
LockOK ==
  /\ \A t \in SubTasks : task[t] = "publishing" <=> smLock = t
  /\ smLock # NoTask => ended # <<>> /\ ended[Len(ended)] = smLock

\* A task ends once, and what is announced ended before the task that holds the lock.
EndedOK ==
  /\ \A a \in 1..Len(ended) : task[ended[a]] \in {"publishing", "over"}
  /\ \A a, b \in 1..Len(ended) : ended[a] = ended[b] => a = b
  /\ \A i \in 1..Len(announced) :
       \E a \in 1..Len(ended) : ended[a] = announced[i] /\ (smLock # NoTask => a < Len(ended))

InOrder ==
  \A i, k \in 1..Len(announced) :
    i < k => /\ announced[i] # announced[k]
             /\ \E a, b \in 1..Len(ended) : a < b /\ ended[a] = announced[i] /\ ended[b] = announced[k]

SaInv == SaTypeOK /\ SpawnsOK /\ LockOK /\ EndedOK /\ InOrder

LEMMA SaInvInit == SaInit => SaInv
<1> SUFFICES ASSUME SaInit PROVE SaInv
  OBVIOUS
<1>a. /\ inbound = <<>> /\ ended = <<>> /\ announced = <<>> /\ users = 0
      /\ iteration = [t \in SubTasks |-> 0] /\ task = [t \in SubTasks |-> "idle"]
      /\ spawnedBy = [t \in SubTasks |-> LoopRound] /\ smLock = NoTask
  BY DEF SaInit
<1>b. /\ MaxIterations \in Nat /\ InboundSize \in Nat /\ MaxUsers \in Nat
      /\ \A t \in SubTasks : t # NoTask
  BY SaAssumption DEF SaAssumption
<1>1. SaTypeOK
  <2>1. inbound \in Seq(SubTasks \cup {User}) /\ ended \in Seq(SubTasks) /\ announced \in Seq(SubTasks)
    BY <1>a
  <2>2. Len(inbound) <= InboundSize
    BY <1>a, <1>b
  <2>3. iteration \in [SubTasks -> 0..MaxIterations] /\ users \in 0..MaxUsers
    BY <1>a, <1>b
  <2>4. spawnedBy \in [SubTasks -> Rounds]
    BY <1>a DEF Rounds
  <2> QED
    BY <2>1, <2>2, <2>3, <2>4 DEF SaInit, SaTypeOK
<1>2. SpawnsOK
  BY DEF SaInit, SpawnsOK
<1>3. LockOK /\ EndedOK /\ InOrder
  <2>1. Len(ended) = 0 /\ Len(announced) = 0
    BY <1>a
  <2>2. /\ \A t \in SubTasks : task[t] = "idle"
        /\ \A i \in 1..0 : FALSE
    BY <1>a
  <2> QED
    BY <1>a, <1>b, <2>1, <2>2 DEF LockOK, EndedOK, InOrder
<1> QED
  BY <1>1, <1>2, <1>3 DEF SaInv

LEMMA AppendIs ==
  ASSUME NEW S, NEW s \in Seq(S), NEW x \in S
  PROVE  /\ Append(s, x) \in Seq(S) /\ Len(Append(s, x)) = Len(s) + 1 /\ Len(s) \in Nat
         /\ Append(s, x)[Len(s) + 1] = x
         /\ \A i \in 1..Len(s) : Append(s, x)[i] = s[i]
OBVIOUS

LEMMA RoomForOne ==
  ASSUME NEW S, NEW s \in Seq(S), NEW x \in S, NEW n \in Nat, Len(s) < n
  PROVE  Append(s, x) \in Seq(S) /\ Len(Append(s, x)) <= n
BY AppendIs

LEMMA SaTypeStep == SaTypeOK /\ [SaNext]_saVars => SaTypeOK'
<1> SUFFICES ASSUME SaTypeOK, [SaNext]_saVars PROVE SaTypeOK'
  OBVIOUS
<1> USE DEF SaTypeOK
<1>a. MaxIterations \in Nat /\ InboundSize \in Nat /\ MaxUsers \in Nat
  BY SaAssumption DEF SaAssumption
<1>1. CASE UserMessage
  <2>1. inbound' \in Seq(SubTasks \cup {User}) /\ Len(inbound') <= InboundSize
    <3>1. inbound \in Seq(SubTasks \cup {User}) /\ inbound' = Append(inbound, User) /\ Len(inbound) < InboundSize
      BY <1>1 DEF UserMessage, Room
    <3> HIDE DEF SaTypeOK
    <3> QED
      BY <1>a, <3>1, RoomForOne
  <2>2. users' \in 0..MaxUsers
    <3>1. users \in 0..MaxUsers /\ users < MaxUsers /\ users' = users + 1
      BY <1>1 DEF UserMessage
    <3> HIDE DEF SaTypeOK
    <3> QED
      BY <1>a, <3>1
  <2> QED
    BY <1>1, <2>1, <2>2 DEF UserMessage
<1>2. CASE LoopTake
  <2>1. inbound' \in Seq(SubTasks \cup {User}) /\ Len(inbound') <= InboundSize
    <3>1. /\ inbound \in Seq(SubTasks \cup {User}) /\ inbound' = Tail(inbound) /\ inbound # <<>>
          /\ Len(inbound) <= InboundSize
      BY <1>2 DEF LoopTake
    <3> HIDE DEF SaTypeOK
    <3> QED
      BY <1>a, <3>1
  <2> QED
    BY <1>2, <2>1 DEF LoopTake
<1>3. CASE DirectStart
  BY <1>3 DEF DirectStart
<1>4. CASE Shutdown
  BY <1>4 DEF Shutdown
<1>5. ASSUME NEW r \in Rounds, RoundEnd(r) PROVE SaTypeOK'
  BY <1>5 DEF RoundEnd
<1>6. ASSUME NEW r \in Rounds, SpawnDo(r) PROVE SaTypeOK'
  BY <1>6 DEF SpawnDo
<1>7. ASSUME NEW r \in Rounds, NEW t \in SubTasks, SpawnCall(r, t) PROVE SaTypeOK'
  BY <1>7 DEF SpawnCall
<1>8. ASSUME NEW t \in SubTasks, TaskBegin(t) PROVE SaTypeOK'
  BY <1>8 DEF TaskBegin
<1>9. ASSUME NEW t \in SubTasks, TaskIterate(t) PROVE SaTypeOK'
  <2>1. /\ iteration \in [SubTasks -> 0..MaxIterations] /\ iteration[t] < MaxIterations
        /\ iteration' = [iteration EXCEPT ![t] = @ + 1]
    BY <1>9 DEF TaskIterate
  <2>2. iteration' \in [SubTasks -> 0..MaxIterations]
    <3> HIDE DEF SaTypeOK
    <3> QED
      BY <1>a, <2>1
  <2> QED
    BY <1>9, <2>2 DEF TaskIterate
<1>10. ASSUME NEW t \in SubTasks, TaskLoopEnds(t) PROVE SaTypeOK'
  BY <1>10 DEF TaskLoopEnds
<1>11. ASSUME NEW t \in SubTasks, TaskLock(t) PROVE SaTypeOK'
  <2>1. ended' \in Seq(SubTasks)
    <3>1. ended \in Seq(SubTasks) /\ ended' = Append(ended, t)
      BY <1>11 DEF TaskLock
    <3> HIDE DEF SaTypeOK
    <3> QED
      BY <1>a, <3>1
  <2>2. PICK s \in {"completed", "failed", "canceled"} : status' = [status EXCEPT ![t] = s]
    BY <1>11 DEF TaskLock
  <2> QED
    BY <1>11, <2>1, <2>2 DEF TaskLock
<1>12. ASSUME NEW t \in SubTasks, TaskPublish(t) PROVE SaTypeOK'
  <2>1. inbound' \in Seq(SubTasks \cup {User}) /\ Len(inbound') <= InboundSize
    <3>1. /\ inbound \in Seq(SubTasks \cup {User}) /\ inbound' = Append(inbound, t)
          /\ Len(inbound) < InboundSize
      BY <1>12 DEF TaskPublish, Room
    <3> HIDE DEF SaTypeOK
    <3> QED
      BY <1>a, <3>1, RoomForOne
  <2>2. announced' \in Seq(SubTasks)
    <3>1. announced \in Seq(SubTasks) /\ announced' = Append(announced, t)
      BY <1>12 DEF TaskPublish
    <3> HIDE DEF SaTypeOK
    <3> QED
      BY <1>a, <3>1
  <2> QED
    BY <1>12, <2>1, <2>2 DEF TaskPublish, Unlock
<1>13. ASSUME NEW t \in SubTasks, TaskGivesUp(t) PROVE SaTypeOK'
  BY <1>13 DEF TaskGivesUp, Unlock
<1>14. CASE UNCHANGED saVars
  BY <1>14 DEF saVars
<1> QED
  BY <1>1, <1>2, <1>3, <1>4, <1>5, <1>6, <1>7, <1>8, <1>9, <1>10, <1>11, <1>12, <1>13, <1>14
     DEF SaNext

LEMMA SpawnsStep == SaTypeOK /\ SpawnsOK /\ [SaNext]_saVars => SpawnsOK'
<1> SUFFICES ASSUME SaTypeOK, SpawnsOK, [SaNext]_saVars PROVE SpawnsOK'
  OBVIOUS
<1> USE SaAssumption DEF SaAssumption, SaTypeOK
<1>1. CASE UNCHANGED <<round, wants, task>>
  BY <1>1 DEF SpawnsOK
<1>2. CASE LoopTake \/ DirectStart
  <2>1. PICK r \in Rounds : round[r] = "idle" /\ round' = [round EXCEPT ![r] = "running"]
    BY <1>2 DEF LoopTake, DirectStart, Rounds
  <2>2. UNCHANGED <<wants, task>>
    BY <1>2 DEF LoopTake, DirectStart
  <2> QED
    BY <2>1, <2>2 DEF SpawnsOK
<1>3. ASSUME NEW r \in Rounds, RoundEnd(r) PROVE SpawnsOK'
  BY <1>3 DEF RoundEnd, SpawnsOK
<1>4. ASSUME NEW r \in Rounds, NEW t \in SubTasks, SpawnCall(r, t) PROVE SpawnsOK'
  <2>1. /\ round' = [round EXCEPT ![r] = "spawning"] /\ wants' = [wants EXCEPT ![r] = t]
        /\ task' = task /\ task[t] = "idle" /\ \A q \in Rounds : wants[q] # t
    BY <1>4 DEF SpawnCall
  <2>2. DOMAIN round = Rounds /\ DOMAIN wants = Rounds
    OBVIOUS
  <2> HIDE DEF SaTypeOK, SaAssumption
  <2>3. /\ \A q \in Rounds : round'[q] = IF q = r THEN "spawning" ELSE round[q]
        /\ \A q \in Rounds : wants'[q] = IF q = r THEN t ELSE wants[q]
    BY <2>1, <2>2
  <2>4. NoTask \notin SubTasks
    BY SaAssumption DEF SaAssumption
  <2> QED
    BY <2>1, <2>3, <2>4 DEF SpawnsOK
<1>5. ASSUME NEW r \in Rounds, SpawnDo(r) PROVE SpawnsOK'
  BY <1>5 DEF SpawnDo, SpawnsOK
<1>6. ASSUME NEW t \in SubTasks,
             TaskBegin(t) \/ TaskLoopEnds(t) \/ TaskLock(t) \/ TaskPublish(t) \/ TaskGivesUp(t)
      PROVE  SpawnsOK'
  <2>1. UNCHANGED <<round, wants>> /\ task[t] # "idle"
    BY <1>6 DEF TaskBegin, TaskLoopEnds, TaskLock, TaskPublish, TaskGivesUp
  <2>2. \A q \in SubTasks : q # t => task'[q] = task[q]
    BY <1>6 DEF TaskBegin, TaskLoopEnds, TaskLock, TaskPublish, TaskGivesUp, Unlock
  <2> QED
    BY <2>1, <2>2 DEF SpawnsOK
<1> QED
  BY <1>1, <1>2, <1>3, <1>4, <1>5, <1>6
     DEF SaNext, saVars, UserMessage, Shutdown, TaskIterate

\* While the lock, the histories and the tasks that publish or are over stay as they are.
LEMMA OrderKept ==
  ASSUME SaInv, UNCHANGED <<smLock, ended, announced>>,
         \A t \in SubTasks : task[t] \in {"publishing", "over"} => task'[t] = task[t],
         \A t \in SubTasks : task'[t] = "publishing" => task[t] = "publishing"
  PROVE  LockOK' /\ EndedOK' /\ InOrder'
<1>1. LockOK'
  BY DEF SaInv, SaTypeOK, LockOK
<1>2. EndedOK'
  <2>1. \A a \in 1..Len(ended) : ended[a] \in SubTasks
    <3>1. ended \in Seq(SubTasks)
      BY DEF SaInv, SaTypeOK
    <3> QED
      BY <3>1
  <2> QED
    BY <2>1 DEF SaInv, EndedOK
<1>3. InOrder'
  BY DEF SaInv, InOrder
<1> QED
  BY <1>1, <1>2, <1>3

LEMMA LockKeeps ==
  ASSUME SaInv, NEW t \in SubTasks, TaskLock(t)
  PROVE  LockOK' /\ EndedOK' /\ InOrder'
<1> DEFINE n == Len(ended)
<1>1. /\ smLock = NoTask /\ smLock' = t /\ task[t] = "ending"
      /\ task' = [task EXCEPT ![t] = "publishing"]
      /\ ended' = Append(ended, t) /\ announced' = announced
  BY DEF TaskLock
<1>2. /\ n \in Nat /\ Len(ended') = n + 1 /\ ended'[n + 1] = t
      /\ \A a \in 1..n : ended'[a] = ended[a] /\ ended[a] \in SubTasks
      /\ ended' \in Seq(SubTasks)
  <2>1. ended \in Seq(SubTasks)
    BY DEF SaInv, SaTypeOK
  <2> QED
    BY <1>1, <2>1, AppendIs
<1>3. task \in [SubTasks -> {"idle", "spawned", "looping", "ending", "publishing", "over"}]
  BY DEF SaInv, SaTypeOK
<1>4. t # NoTask
  BY SaAssumption DEF SaAssumption
<1>5. \A q \in SubTasks : task'[q] = IF q = t THEN "publishing" ELSE task[q]
  BY <1>1, <1>3
<1>6. \A q \in SubTasks : task[q] # "publishing"
  BY <1>1, <1>4, SaAssumption DEF SaInv, LockOK, SaAssumption
<1>7. LockOK'
  <2>1. ended' # <<>> /\ ended'[Len(ended')] = t
    BY <1>2
  <2> QED
    BY <1>1, <1>4, <1>5, <1>6, <2>1 DEF LockOK
<1>8. \A a \in 1..n : ended[a] # t
  BY <1>1 DEF SaInv, EndedOK
<1>9. EndedOK'
  <2>1. ASSUME NEW a \in 1..(n + 1) PROVE task'[ended'[a]] \in {"publishing", "over"}
    <3>1. CASE a = n + 1
      BY <1>2, <1>5, <3>1
    <3>2. CASE a # n + 1
      <4>1. a \in 1..n
        BY <1>2, <3>2
      <4> QED
        BY <1>2, <1>5, <4>1 DEF SaInv, EndedOK
    <3> QED
      BY <3>1, <3>2
  <2>2. ASSUME NEW a \in 1..(n + 1), NEW b \in 1..(n + 1), ended'[a] = ended'[b] PROVE a = b
    <3>1. CASE a = n + 1 /\ b = n + 1
      BY <3>1
    <3>2. CASE a = n + 1 /\ b # n + 1
      <4>1. b \in 1..n
        BY <1>2, <3>2
      <4> QED
        BY <1>2, <1>8, <2>2, <3>2, <4>1
    <3>3. CASE a # n + 1 /\ b = n + 1
      <4>1. a \in 1..n
        BY <1>2, <3>3
      <4> QED
        BY <1>2, <1>8, <2>2, <3>3, <4>1
    <3>4. CASE a # n + 1 /\ b # n + 1
      <4>1. a \in 1..n /\ b \in 1..n
        BY <1>2, <3>4
      <4> QED
        BY <1>2, <2>2, <4>1 DEF SaInv, EndedOK
    <3> QED
      BY <3>1, <3>2, <3>3, <3>4
  <2>3. ASSUME NEW i \in 1..Len(announced)
        PROVE  \E a \in 1..(n + 1) : ended'[a] = announced[i] /\ a < n + 1
    <3>1. PICK a \in 1..n : ended[a] = announced[i]
      BY DEF SaInv, EndedOK
    <3>2. a \in 1..(n + 1) /\ a < n + 1 /\ ended'[a] = announced[i]
      BY <1>2, <3>1
    <3> QED
      BY <3>2
  <2> QED
    BY <1>1, <1>2, <2>1, <2>2, <2>3 DEF EndedOK
<1>10. InOrder'
  <2>1. ASSUME NEW i \in 1..Len(announced), NEW k \in 1..Len(announced), i < k
        PROVE  /\ announced[i] # announced[k]
               /\ \E a, b \in 1..(n + 1) :
                    a < b /\ ended'[a] = announced[i] /\ ended'[b] = announced[k]
    <3>1. /\ announced[i] # announced[k]
          /\ \E a, b \in 1..n : a < b /\ ended[a] = announced[i] /\ ended[b] = announced[k]
      BY <2>1 DEF SaInv, InOrder
    <3>2. PICK a \in 1..n, b \in 1..n : a < b /\ ended[a] = announced[i] /\ ended[b] = announced[k]
      BY <3>1
    <3>3. a \in 1..(n + 1) /\ b \in 1..(n + 1) /\ ended'[a] = announced[i] /\ ended'[b] = announced[k]
      BY <1>2, <3>2
    <3> QED
      BY <3>1, <3>2, <3>3
  <2> QED
    BY <1>1, <1>2, <2>1 DEF InOrder
<1> QED
  BY <1>7, <1>9, <1>10

LEMMA UnlockIs ==
  ASSUME SaInv, NEW t \in SubTasks, task[t] = "publishing", Unlock(t), ended' = ended
  PROVE  /\ smLock = t /\ smLock' = NoTask /\ LockOK'
         /\ \A a \in 1..Len(ended) : task'[ended[a]] \in {"publishing", "over"}
<1>1. /\ task' = [task EXCEPT ![t] = "over"] /\ smLock' = NoTask /\ smLock = t
      /\ task \in [SubTasks -> {"idle", "spawned", "looping", "ending", "publishing", "over"}]
  BY DEF Unlock, SaInv, SaTypeOK, LockOK
<1>2. \A q \in SubTasks : task'[q] # "publishing" /\ q # NoTask
  BY <1>1, SaAssumption DEF SaInv, LockOK, SaAssumption
<1>3. \A a \in 1..Len(ended) : ended[a] \in SubTasks
  <2>1. ended \in Seq(SubTasks)
    BY DEF SaInv, SaTypeOK
  <2> QED
    BY <2>1
<1>4. LockOK'
  BY <1>1, <1>2 DEF LockOK
<1>5. \A a \in 1..Len(ended) : task'[ended[a]] \in {"publishing", "over"}
  BY <1>1, <1>3 DEF SaInv, EndedOK
<1> QED
  BY <1>1, <1>4, <1>5

LEMMA GiveUpKeeps ==
  ASSUME SaInv, NEW t \in SubTasks, TaskGivesUp(t)
  PROVE  LockOK' /\ EndedOK' /\ InOrder'
<1>1. task[t] = "publishing" /\ Unlock(t) /\ ended' = ended /\ announced' = announced
  BY DEF TaskGivesUp
<1>2. /\ smLock' = NoTask /\ LockOK'
      /\ \A a \in 1..Len(ended) : task'[ended[a]] \in {"publishing", "over"}
  BY <1>1, UnlockIs
<1>3. EndedOK'
  BY <1>1, <1>2 DEF SaInv, EndedOK
<1>4. InOrder'
  <2>1. InOrder /\ ended' = ended /\ announced' = announced
    BY <1>1 DEF SaInv
  <2> QED
    BY <2>1 DEF InOrder
<1> QED
  BY <1>2, <1>3, <1>4

\* The announcement is that of the last task that ended; those before it ended before.
LEMMA PublishKeeps ==
  ASSUME SaInv, NEW t \in SubTasks, TaskPublish(t)
  PROVE  LockOK' /\ EndedOK' /\ InOrder'
<1> DEFINE m == Len(announced)
           n == Len(ended)
<1>1. /\ task[t] = "publishing" /\ Unlock(t) /\ ended' = ended
      /\ announced' = Append(announced, t)
  BY DEF TaskPublish
<1>2. /\ smLock = t /\ smLock' = NoTask /\ LockOK' /\ t # NoTask
      /\ \A a \in 1..n : task'[ended[a]] \in {"publishing", "over"}
  BY <1>1, UnlockIs, SaAssumption DEF SaAssumption
<1>3. /\ m \in Nat /\ Len(announced') = m + 1 /\ announced'[m + 1] = t
      /\ \A i \in 1..m : announced'[i] = announced[i]
  <2>1. announced \in Seq(SubTasks)
    BY DEF SaInv, SaTypeOK
  <2> QED
    BY <1>1, <2>1, AppendIs
<1>4. n \in Nat /\ n # 0 /\ ended[n] = t
  <2>1. ended \in Seq(SubTasks) /\ ended # <<>> /\ ended[Len(ended)] = t
    BY <1>2 DEF SaInv, SaTypeOK, LockOK
  <2> QED
    BY <2>1
<1>5. \A i \in 1..m : \E a \in 1..n : ended[a] = announced[i] /\ a < n
  BY <1>2 DEF SaInv, EndedOK
<1>6. \A a, b \in 1..n : ended[a] = ended[b] => a = b
  BY DEF SaInv, EndedOK
<1>7. EndedOK'
  <2>1. ASSUME NEW i \in 1..(m + 1) PROVE \E a \in 1..n : ended[a] = announced'[i]
    <3>1. CASE i = m + 1
      BY <1>3, <1>4, <3>1
    <3>2. CASE i # m + 1
      <4>1. i \in 1..m
        BY <1>3, <3>2
      <4> QED
        BY <1>3, <1>5, <4>1
    <3> QED
      BY <3>1, <3>2
  <2> QED
    BY <1>1, <1>2, <1>3, <1>6, <2>1 DEF EndedOK
<1>8. InOrder'
  <2>1. ASSUME NEW i \in 1..(m + 1), NEW k \in 1..(m + 1), i < k
        PROVE  /\ announced'[i] # announced'[k]
               /\ \E a, b \in 1..n :
                    a < b /\ ended[a] = announced'[i] /\ ended[b] = announced'[k]
    <3>1. i \in 1..m
      BY <1>3, <2>1
    <3>2. CASE k = m + 1
      <4>1. PICK a \in 1..n : ended[a] = announced[i] /\ a < n
        BY <1>5, <3>1
      <4>2. n \in 1..n /\ ended[n] = announced'[k] /\ ended[a] = announced'[i]
        BY <1>3, <1>4, <3>1, <3>2, <4>1
      <4>3. announced'[i] # announced'[k]
        BY <1>4, <1>6, <4>1, <4>2
      <4> QED
        BY <4>1, <4>2, <4>3
    <3>3. CASE k # m + 1
      <4>1. k \in 1..m
        BY <1>3, <3>3
      <4>2. announced'[i] = announced[i] /\ announced'[k] = announced[k]
        BY <1>3, <3>1, <4>1
      <4> QED
        BY <2>1, <3>1, <4>1, <4>2 DEF SaInv, InOrder
    <3> QED
      BY <3>2, <3>3
  <2>2. ended' = ended /\ Len(announced') = m + 1
    BY <1>1, <1>3
  <2>3. ASSUME NEW i \in 1..Len(announced)', NEW k \in 1..Len(announced)', i < k
        PROVE  /\ announced'[i] # announced'[k]
               /\ \E a, b \in 1..Len(ended)' :
                    a < b /\ ended'[a] = announced'[i] /\ ended'[b] = announced'[k]
    <3>1. i \in 1..(m + 1) /\ k \in 1..(m + 1)
      BY <2>2
    <3> HIDE DEF m
    <3>2. /\ announced'[i] # announced'[k]
          /\ \E a, b \in 1..n : a < b /\ ended[a] = announced'[i] /\ ended[b] = announced'[k]
      BY <2>1, <2>3, <3>1
    <3> QED
      BY <2>2, <3>2
  <2> QED
    BY <2>3 DEF InOrder
<1> QED
  BY <1>2, <1>7, <1>8

LEMMA SaInvStep == SaInv /\ [SaNext]_saVars => SaInv'
<1> SUFFICES ASSUME SaInv, [SaNext]_saVars PROVE SaInv'
  OBVIOUS
<1>1. SaTypeOK' /\ SpawnsOK'
  BY SaTypeStep, SpawnsStep DEF SaInv
<1> SUFFICES LockOK' /\ EndedOK' /\ InOrder'
  BY <1>1 DEF SaInv
<1>2. ASSUME UNCHANGED <<smLock, ended, announced, task>> PROVE LockOK' /\ EndedOK' /\ InOrder'
  BY <1>2, OrderKept
<1>3. ASSUME NEW r \in Rounds, SpawnDo(r) PROVE LockOK' /\ EndedOK' /\ InOrder'
  <2>1. /\ wants[r] \in SubTasks /\ task[wants[r]] = "idle"
        /\ task' = [task EXCEPT ![wants[r]] = "spawned"]
        /\ UNCHANGED <<smLock, ended, announced>>
    BY <1>3 DEF SpawnDo, SaInv, SpawnsOK
  <2>2. \A q \in SubTasks : task'[q] = IF q = wants[r] THEN "spawned" ELSE task[q]
    BY <2>1 DEF SaInv, SaTypeOK
  <2> QED
    BY <2>1, <2>2, OrderKept
<1>4. ASSUME NEW t \in SubTasks, TaskBegin(t) \/ TaskLoopEnds(t)
      PROVE  LockOK' /\ EndedOK' /\ InOrder'
  <2>1. /\ task[t] \in {"spawned", "looping"} /\ UNCHANGED <<smLock, ended, announced>>
        /\ \E s \in {"over", "looping", "ending"} : task' = [task EXCEPT ![t] = s]
    BY <1>4 DEF TaskBegin, TaskLoopEnds
  <2>2. PICK s \in {"over", "looping", "ending"} :
          \A q \in SubTasks : task'[q] = IF q = t THEN s ELSE task[q]
    BY <2>1 DEF SaInv, SaTypeOK
  <2> QED
    BY <2>1, <2>2, OrderKept
<1> QED
  BY <1>2, <1>3, <1>4, LockKeeps, PublishKeeps, GiveUpKeeps
     DEF SaNext, saVars, UserMessage, LoopTake, DirectStart, Shutdown, RoundEnd, SpawnCall, TaskIterate

\* The variables of rounds and tasks keep their types.
THEOREM SaTypeCorrect == SaSpec => []SaTypeOK
<1>1. SaInv => SaTypeOK
  BY DEF SaInv
<1> QED
  BY <1>1, SaInvInit, SaInvStep, PTL DEF SaSpec

\* The agent hears of its tasks in the order in which they ended, and of none twice.
THEOREM AnnouncementsInOrder == SaSpec => []AnnouncedInOrder
<1>1. SaInv => AnnouncedInOrder
  <2> SUFFICES ASSUME SaInv PROVE AnnouncedInOrder
    OBVIOUS
  <2>1. ended \in Seq(SubTasks) /\ announced \in Seq(SubTasks) /\ InOrder
    BY DEF SaInv, SaTypeOK
  <2>2. DOMAIN ended = 1..Len(ended) /\ DOMAIN announced = 1..Len(announced)
    BY <2>1
  <2> SUFFICES ASSUME NEW i \in DOMAIN announced, NEW k \in DOMAIN announced, i < k
               PROVE  /\ announced[i] # announced[k]
                      /\ \E a, b \in DOMAIN ended :
                           a < b /\ ended[a] = announced[i] /\ ended[b] = announced[k]
    BY DEF AnnouncedInOrder
  <2>3. /\ announced[i] # announced[k]
        /\ \E a, b \in 1..Len(ended) :
             a < b /\ ended[a] = announced[i] /\ ended[b] = announced[k]
    <3>1. i \in 1..Len(announced) /\ k \in 1..Len(announced)
      BY <2>2
    <3> QED
      BY <2>1, <3>1, Zenon DEF InOrder
  <2> QED
    BY <2>2, <2>3
<1> QED
  BY <1>1, SaInvInit, SaInvStep, PTL DEF SaSpec

(***************************************************************************)
(* The media store: the three maps agree, what resolves is on disk, and no  *)
(* file leaks                                                               *)
(***************************************************************************)

\* Every step keeps the types.
LEMMA TypeStep == TypeOK /\ [Next]_vars => TypeOK'
<1> SUFFICES ASSUME TypeOK, [Next]_vars PROVE TypeOK'
  OBVIOUS
<1> USE MediaAssumption, CleanerAssumption DEF MediaAssumption, CleanerAssumption, Deleters
<1>1. ASSUME NEW r \in Refs, Download(r) PROVE TypeOK'
  BY <1>1 DEF Download, TypeOK
<1>2. ASSUME NEW r \in Refs, StoreStat(r) PROVE TypeOK'
  BY <1>2 DEF StoreStat, TypeOK
<1>3. ASSUME NEW r \in Refs, StoreInsert(r) PROVE TypeOK'
  BY <1>3 DEF StoreInsert, TypeOK
<1>4. ASSUME NEW r \in Refs, Age(r) PROVE TypeOK'
  BY <1>4 DEF Age, TypeOK
<1>5. ASSUME NEW d \in Releasers, NEW s \in Scopes, Release(d, s) PROVE TypeOK'
  BY <1>5 DEF Release, TypeOK
<1>6. CASE Clean
  <2>1. /\ scopeToRefs' \in [Scopes -> SUBSET Refs]
        /\ scopes' \subseteq Scopes
    BY <1>6 DEF Clean, DropExpired, DropEmptyScopes, LeftInScope, TypeOK
  <2>2. toRemove' \in [Deleters -> SUBSET Paths]
    BY <1>6 DEF Clean, CleanerTakes, Expiring, TypeOK
  <2>3. /\ files' \subseteq Paths
        /\ store' \in [Refs -> {"idle", "downloaded", "found", "failed", "stored"}]
        /\ refs' \subseteq Refs
        /\ refToScope' \in [Refs -> Scopes \cup {NoScope}]
        /\ expired' \subseteq Refs
        /\ cleaner' \in {"new", "on", "off"}
        /\ stopped' \in BOOLEAN
        /\ kept' \subseteq Paths
    BY <1>6 DEF Clean, DropExpired, Expiring, TypeOK
  <2> QED BY <2>1, <2>2, <2>3 DEF TypeOK
<1>7. ASSUME NEW d \in Deleters, NEW p \in Paths, Remove(d, p) PROVE TypeOK'
  BY <1>7 DEF Remove, TypeOK
<1>8. CASE Start \/ Stop \/ CleanerEnds
  BY <1>8 DEF Start, Stop, CleanerEnds, TypeOK
<1>9. CASE UNCHANGED vars
  BY <1>9 DEF vars, TypeOK
<1> QED BY <1>1, <1>2, <1>3, <1>4, <1>5, <1>6, <1>7, <1>8, <1>9 DEF Next

\* The store of a gateway is well typed in every state.
THEOREM TypeCorrect == Spec => []TypeOK
<1>1. Init => TypeOK
  BY DEF Init, TypeOK
<1> QED BY <1>1, TypeStep, PTL DEF Spec

-----------------------------------------------------------------------------
(* The maps.                                                               *)

\* An entry is made by a Store call that has returned.
EntriesStored == \A r \in refs : store[r] = "stored"

\* MapsAgree needs it: a call that is about to insert has no entry yet, so that
\* it cannot leave a second one behind.
MapsInv == MapsAgree /\ EntriesStored

LEMMA MapsStep == TypeOK /\ MapsInv /\ [Next]_vars => MapsInv'
<1> SUFFICES ASSUME TypeOK, MapsInv, [Next]_vars PROVE MapsInv'
  OBVIOUS
<1> USE MediaAssumption, CleanerAssumption DEF MediaAssumption, CleanerAssumption
<1>1. ASSUME NEW r \in Refs, Download(r) PROVE MapsInv'
  BY <1>1 DEF Download, MapsInv, MapsAgree, EntriesStored, TypeOK
<1>2. ASSUME NEW r \in Refs, StoreStat(r) PROVE MapsInv'
  BY <1>2 DEF StoreStat, MapsInv, MapsAgree, EntriesStored, TypeOK
<1>3. ASSUME NEW r \in Refs, StoreInsert(r) PROVE MapsInv'
  <2>1. r \notin refs /\ refToScope[r] = NoScope
    BY <1>3 DEF StoreInsert, MapsInv, MapsAgree, EntriesStored, TypeOK
  <2>2. EntriesStored'
    BY <1>3 DEF StoreInsert, MapsInv, EntriesStored, TypeOK
  <2>3. \A q \in Refs : q \in refs' <=> refToScope'[q] # NoScope
    BY <1>3, <2>1 DEF StoreInsert, MapsInv, MapsAgree, TypeOK
  <2>4. \A q \in Refs, s \in Scopes : q \in scopeToRefs'[s] <=> refToScope'[q] = s
    BY <1>3, <2>1 DEF StoreInsert, MapsInv, MapsAgree, TypeOK
  <2>5. \A s \in Scopes : s \in scopes' <=> scopeToRefs'[s] # {}
    BY <1>3, <2>1 DEF StoreInsert, MapsInv, MapsAgree, TypeOK
  <2> QED BY <2>2, <2>3, <2>4, <2>5 DEF MapsInv, MapsAgree
<1>4. ASSUME NEW r \in Refs, Age(r) PROVE MapsInv'
  BY <1>4 DEF Age, MapsInv, MapsAgree, EntriesStored
<1>5. ASSUME NEW d \in Releasers, NEW s \in Scopes, Release(d, s) PROVE MapsInv'
  <2>1. EntriesStored'
    BY <1>5 DEF Release, MapsInv, EntriesStored
  <2>2. \A q \in Refs : q \in refs' <=> refToScope'[q] # NoScope
    BY <1>5 DEF Release, MapsInv, MapsAgree, TypeOK
  <2>3. \A q \in Refs, t \in Scopes : q \in scopeToRefs'[t] <=> refToScope'[q] = t
    BY <1>5 DEF Release, MapsInv, MapsAgree, TypeOK
  <2>4. \A t \in Scopes : t \in scopes' <=> scopeToRefs'[t] # {}
    BY <1>5 DEF Release, MapsInv, MapsAgree, TypeOK
  <2> QED BY <2>1, <2>2, <2>3, <2>4 DEF MapsInv, MapsAgree
<1>6. CASE Clean
  <2> USE DEF Clean, DropExpired
  <2>1. EntriesStored'
    BY <1>6 DEF MapsInv, EntriesStored
  <2>2. \A q \in Refs : q \in refs' <=> refToScope'[q] # NoScope
    BY <1>6 DEF MapsInv, MapsAgree, TypeOK
  <2>3. \A q \in Refs, t \in Scopes : q \in scopeToRefs'[t] <=> refToScope'[q] = t
    BY <1>6 DEF LeftInScope, MapsInv, MapsAgree, TypeOK
  <2>4. \A t \in Scopes : t \in scopes' <=> scopeToRefs'[t] # {}
    BY <1>6 DEF DropEmptyScopes, LeftInScope, MapsInv, MapsAgree, TypeOK
  <2> QED BY <2>1, <2>2, <2>3, <2>4 DEF MapsInv, MapsAgree
<1>7. ASSUME NEW d \in Deleters, NEW p \in Paths, Remove(d, p) PROVE MapsInv'
  BY <1>7 DEF Remove, MapsInv, MapsAgree, EntriesStored
<1>8. CASE Start \/ Stop \/ CleanerEnds
  BY <1>8 DEF Start, Stop, CleanerEnds, MapsInv, MapsAgree, EntriesStored
<1>9. CASE UNCHANGED vars
  BY <1>9 DEF vars, MapsInv, MapsAgree, EntriesStored
<1> QED BY <1>1, <1>2, <1>3, <1>4, <1>5, <1>6, <1>7, <1>8, <1>9 DEF Next

LEMMA MapsAlways == Spec => [](TypeOK /\ MapsInv)
<1>1. Init => MapsInv
  BY CleanerAssumption DEF Init, MapsInv, MapsAgree, EntriesStored, CleanerAssumption
<1> QED BY <1>1, TypeCorrect, MapsStep, PTL DEF Spec

\* The three maps of the store describe one relation after any calls of Store,
\* ReleaseAll and CleanExpired.
THEOREM MapsAgreeHolds == Spec => []MapsAgree
<1> QED BY MapsAlways, PTL DEF MapsInv

-----------------------------------------------------------------------------
(* The files.                                                              *)

\* Between os.Stat and the insertion the file stays.
FoundThere == \A r \in Refs : store[r] = "found" => PathOf[r] \in files

\* What a deleter has still to remove belonged to an entry that is gone.
DoomedDead ==
  \A d \in Deleters : \A p \in toRemove[d] :
    \E q \in Refs : PathOf[q] = p /\ store[q] = "stored" /\ q \notin refs

LiveThere == \A r \in refs : PathOf[r] \in files

FileInv == FoundThere /\ DoomedDead /\ LiveThere

\* The second phase of a release runs without the lock; it is harmless because
\* the file of a dead entry is nobody else's.
LEMMA FileStep ==
  ASSUME DistinctPaths, TypeOK, MapsInv, FileInv, [Next]_vars
  PROVE  FileInv'
<1> USE MediaAssumption, CleanerAssumption DEF MediaAssumption, CleanerAssumption, Deleters
<1>1. ASSUME NEW r \in Refs, Download(r) PROVE FileInv'
  BY <1>1 DEF Download, FileInv, FoundThere, DoomedDead, LiveThere, TypeOK
<1>2. ASSUME NEW r \in Refs, StoreStat(r) PROVE FileInv'
  BY <1>2 DEF StoreStat, FileInv, FoundThere, DoomedDead, LiveThere, TypeOK
<1>3. ASSUME NEW r \in Refs, StoreInsert(r) PROVE FileInv'
  <2>1. DoomedDead'
    BY <1>3 DEF StoreInsert, FileInv, DoomedDead, TypeOK
  <2> QED BY <1>3, <2>1 DEF StoreInsert, FileInv, FoundThere, LiveThere, TypeOK
<1>4. ASSUME NEW r \in Refs, Age(r) PROVE FileInv'
  BY <1>4 DEF Age, FileInv, FoundThere, DoomedDead, LiveThere
<1>5. ASSUME NEW d \in Releasers, NEW s \in Scopes, Release(d, s) PROVE FileInv'
  <2>1. ASSUME NEW e \in Deleters, NEW p \in toRemove'[e]
        PROVE  \E q \in Refs : PathOf[q] = p /\ store'[q] = "stored" /\ q \notin refs'
    <3>1. CASE e = d
      <4>1. PICK q \in scopeToRefs[s] \cap refs : p = PathOf[q]
        BY <1>5, <2>1, <3>1 DEF Release, TypeOK
      <4> QED BY <1>5, <4>1 DEF Release, MapsInv, EntriesStored, TypeOK
    <3>2. CASE e # d
      BY <1>5, <2>1, <3>2 DEF Release, FileInv, DoomedDead, TypeOK
    <3> QED BY <3>1, <3>2
  <2> QED BY <1>5, <2>1 DEF Release, FileInv, FoundThere, DoomedDead, LiveThere
<1>6. CASE Clean
  <2> USE DEF Clean, DropExpired
  <2>1. ASSUME NEW e \in Deleters, NEW p \in toRemove'[e]
        PROVE  \E q \in Refs : PathOf[q] = p /\ store'[q] = "stored" /\ q \notin refs'
    <3>1. CASE e = Cleaner
      <4>1. PICK q \in Expiring : p = PathOf[q]
        BY <1>6, <2>1, <3>1 DEF CleanerTakes, TypeOK
      <4> QED BY <1>6, <4>1 DEF Expiring, MapsInv, EntriesStored, TypeOK
    <3>2. CASE e # Cleaner
      <4>1. p \in toRemove[e]
        BY <1>6, <2>1, <3>2 DEF CleanerTakes, TypeOK
      <4> QED BY <1>6, <4>1 DEF FileInv, DoomedDead
    <3> QED BY <3>1, <3>2
  <2> QED BY <1>6, <2>1 DEF FileInv, FoundThere, DoomedDead, LiveThere
<1>7. ASSUME NEW d \in Deleters, NEW p \in Paths, Remove(d, p) PROVE FileInv'
  <2>1. PICK q \in Refs : PathOf[q] = p /\ store[q] = "stored" /\ q \notin refs
    BY <1>7 DEF Remove, FileInv, DoomedDead
  <2>2. FoundThere' /\ LiveThere'
    BY <1>7, <2>1 DEF Remove, DistinctPaths, FileInv, FoundThere, LiveThere, TypeOK
  <2>3. DoomedDead'
    BY <1>7 DEF Remove, FileInv, DoomedDead, TypeOK
  <2> QED BY <2>2, <2>3 DEF FileInv
<1>8. CASE Start \/ Stop \/ CleanerEnds
  BY <1>8 DEF Start, Stop, CleanerEnds, FileInv, FoundThere, DoomedDead, LiveThere
<1>9. CASE UNCHANGED vars
  BY <1>9 DEF vars, FileInv, FoundThere, DoomedDead, LiveThere
<1> QED BY <1>1, <1>2, <1>3, <1>4, <1>5, <1>6, <1>7, <1>8, <1>9 DEF Next

\* What a live reference names is on disk, whatever deleters are between their
\* two phases.
THEOREM ResolvesHolds == Spec => []ResolvesToFile
<1>1. CASE DistinctPaths
  <2>1. Init => FileInv
    BY DEF Init, FileInv, FoundThere, DoomedDead, LiveThere
  <2>2. TypeOK /\ MapsInv /\ FileInv /\ [Next]_vars => FileInv'
    BY <1>1, FileStep
  <2>3. FileInv => ResolvesToFile
    BY DEF FileInv, LiveThere, ResolvesToFile
  <2> QED BY <2>1, <2>2, <2>3, MapsAlways, PTL DEF Spec
<1>2. CASE ~DistinctPaths
  <2>1. ResolvesToFile
    BY <1>2 DEF ResolvesToFile
  <2> QED BY <2>1, PTL
<1> QED BY <1>1, <1>2

-----------------------------------------------------------------------------
(* No leak.                                                                *)

\* NoFileLeaks is inductive: the step that takes an entry out of the maps hands
\* its file to a deleter that had none, and the step that takes a file from a
\* deleter removes it or records the failure.
LEMMA LeakStep ==
  ASSUME DistinctPaths, TypeOK, NoFileLeaks, [Next]_vars
  PROVE  NoFileLeaks'
<1> DEFINE Accounted(r) ==
      r \in refs \/ (\E d \in Deleters : PathOf[r] \in toRemove[d]) \/ PathOf[r] \in kept
<1> SUFFICES ASSUME NEW r \in Refs, store'[r] = "stored", PathOf[r] \in files'
             PROVE  Accounted(r)'
  BY DEF NoFileLeaks
<1>0. store[r] = "stored" /\ PathOf[r] \in files => Accounted(r)
  BY DEF NoFileLeaks
<1> USE MediaAssumption, CleanerAssumption DEF MediaAssumption, CleanerAssumption, Deleters
<1>1. ASSUME NEW q \in Refs, Download(q) PROVE Accounted(r)'
  BY <1>0, <1>1 DEF Download, DistinctPaths, TypeOK
<1>2. ASSUME NEW q \in Refs, StoreStat(q) PROVE Accounted(r)'
  BY <1>0, <1>2 DEF StoreStat, TypeOK
<1>3. ASSUME NEW q \in Refs, StoreInsert(q) PROVE Accounted(r)'
  BY <1>0, <1>3 DEF StoreInsert, TypeOK
<1>4. ASSUME NEW q \in Refs, Age(q) PROVE Accounted(r)'
  BY <1>0, <1>4 DEF Age
<1>5. ASSUME NEW d \in Releasers, NEW s \in Scopes, Release(d, s) PROVE Accounted(r)'
  <2>1. CASE r \in refs
    BY <1>5, <2>1 DEF Release, TypeOK
  <2>2. ASSUME NEW e \in Deleters, PathOf[r] \in toRemove[e] PROVE Accounted(r)'
    BY <1>5, <2>2 DEF Release, TypeOK
  <2>3. CASE PathOf[r] \in kept
    BY <1>5, <2>3 DEF Release
  <2> QED BY <1>0, <1>5, <2>1, <2>2, <2>3 DEF Release
<1>6. CASE Clean
  <2> USE DEF Clean, DropExpired, CleanerTakes
  <2>1. CASE r \in refs
    BY <1>6, <2>1 DEF TypeOK
  <2>2. ASSUME NEW e \in Deleters, PathOf[r] \in toRemove[e] PROVE Accounted(r)'
    BY <1>6, <2>2 DEF TypeOK
  <2>3. CASE PathOf[r] \in kept
    BY <1>6, <2>3
  <2> QED BY <1>0, <1>6, <2>1, <2>2, <2>3
<1>7. ASSUME NEW d \in Deleters, NEW p \in Paths, Remove(d, p) PROVE Accounted(r)'
  <2>1. CASE p = PathOf[r]
    BY <1>7, <2>1 DEF Remove
  <2>2. CASE p # PathOf[r]
    BY <1>0, <1>7, <2>2 DEF Remove, TypeOK
  <2> QED BY <2>1, <2>2
<1>8. CASE Start \/ Stop \/ CleanerEnds
  BY <1>0, <1>8 DEF Start, Stop, CleanerEnds
<1>9. CASE UNCHANGED vars
  BY <1>0, <1>9 DEF vars
<1> QED BY <1>1, <1>2, <1>3, <1>4, <1>5, <1>6, <1>7, <1>8, <1>9 DEF Next

\* A file of a finished Store call is on disk only while its entry lives, while
\* a deleter is about to remove it, or because a removal failed.
THEOREM NoLeakHolds == Spec => []NoFileLeaks
<1>1. CASE DistinctPaths
  <2>1. Init => NoFileLeaks
    BY DEF Init, NoFileLeaks
  <2>2. TypeOK /\ NoFileLeaks /\ [Next]_vars => NoFileLeaks'
    BY <1>1, LeakStep
  <2> QED BY <2>1, <2>2, TypeCorrect, PTL DEF Spec
<1>2. CASE ~DistinctPaths
  <2>1. NoFileLeaks
    BY <1>2 DEF NoFileLeaks
  <2> QED BY <2>1, PTL
<1> QED BY <1>1, <1>2

\* The three together: the store's maps, its references and the files on disk agree,
\* whatever Store, ReleaseAll, CleanExpired and the deleters do in between.
THEOREM FilesAccountedHolds == Spec => []FilesAccounted
<1>1. MapsAgree /\ ResolvesToFile /\ NoFileLeaks => FilesAccounted
  BY DEF FilesAccounted
<1> QED BY <1>1, MapsAgreeHolds, ResolvesHolds, NoLeakHolds, PTL
=============================================================================
