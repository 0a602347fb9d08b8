-------------------------- MODULE SessionHistory --------------------------
(***************************************************************************)
(* One session of an agent: pkg/session/manager.go as pkg/agent/loop.go    *)
(* uses it.  Rounds append messages; a context error makes a round rewrite *)
(* the history (forceCompression); a background goroutine replaces the     *)
(* older part by a summary (summarizeSession); Save snapshots the session  *)
(* under the lock and writes the file after it.  Each SessionManager call  *)
(* is atomic, and what lies between two calls is not.                      *)
(*                                                                         *)
(* A message is its number and its role; a summary is the set of messages  *)
(* the model was shown for it.  The oversized-message guard is left out.   *)
(***************************************************************************)
EXTENDS Naturals, Sequences, FiniteSets

CONSTANTS
  Rounds,       \* goroutines that run rounds on this session
  Chatting,     \* those whose rounds have EnableSummary
  Summarizers,  \* background goroutines that may run summarizeSession
  MaxMessages,  \* bound on the messages of a behaviour
  MaxCalls,     \* bound on the tool calls of one LLM response
  Keep,         \* messages that summarizeSession keeps (4)
  Threshold,    \* history length that triggers it (20)
  MultiPart,    \* messages it summarizes in one batch (10)
  CompressMin,  \* history length forceCompression leaves alone (4)
  MaxRetries,   \* compressions per LLM call (2); 0: no call fails for its size
  Persistent,   \* whether the manager has a storage directory
  MayCrash      \* whether the process may stop at any point and restart

ASSUME SessionAssumption ==
  /\ Chatting \subseteq Rounds
  /\ Rounds \cap Summarizers = {}
  /\ {MaxMessages, MaxCalls, Threshold, MultiPart, CompressMin,
      MaxRetries} \subseteq Nat
  /\ Keep \in Nat \ {0}
  /\ CompressMin >= 2
  /\ {Persistent, MayCrash} \subseteq BOOLEAN

Ids == 1..MaxMessages
Roles == {"user", "assistant", "call", "tool"}
Procs == Rounds \cup Summarizers

VARIABLES
  history,   \* session.Messages
  summary,   \* session.Summary, as the messages it was made from
  last,      \* number of the last message ever added
  disk,      \* the session file: history and summary
  pc,        \* pc[p]: the step of goroutine p
  trigger,   \* trigger[r]: the user message of r's round
  pending,   \* pending[r]: tool results r has still to add
  retry,     \* retry[r]: compressions made for its LLM call
  copy,      \* copy[p]: the session as p read it last
  guard,     \* al.summarizing holds the key of this session
  talk,      \* history: messages that are not tool results
  late,      \* history: number of messages added (or put back by a compression that
             \* had read them) while a summary was under way
  excused    \* history: messages dropped by forceCompression, by a crash or by a
             \* summary made in two batches

vars == <<history, summary, last, disk, pc, trigger, pending, retry, copy,
          guard, talk, late, excused>>

Image(h, s) == [history |-> h, summary |-> s]
Empty == Image(<<>>, {})
IdsOf(h) == {h[i].id : i \in DOMAIN h}
LastOf(h, n) == IF Len(h) <= n THEN h ELSE SubSeq(h, Len(h) - n + 1, Len(h))

Init ==
  /\ history = <<>>
  /\ summary = {}
  /\ last = 0
  /\ disk = Empty
  /\ pc = [p \in Procs |-> "idle"]
  /\ trigger = [r \in Rounds |-> 0]
  /\ pending = [r \in Rounds |-> 0]
  /\ retry = [r \in Rounds |-> 0]
  /\ copy = [p \in Procs |-> Empty]
  /\ guard = FALSE
  /\ talk = {}
  /\ late = 0
  /\ excused = {}

Goto(p, step) == pc' = [pc EXCEPT ![p] = step]

\* Summarizers that have read the session and not yet truncated it.
SummaryUnderWay == \E s \in Summarizers : pc[s] \in {"ask", "set", "truncate"}

\* AddMessage, AddFullMessage.  A message added while a summary is under way
\* pushes one that the summary has not seen out of the last Keep.
Add(role) ==
  /\ last < MaxMessages
  /\ last' = last + 1
  /\ history' = Append(history, [id |-> last + 1, role |-> role])
  /\ talk' = IF role = "tool" THEN talk ELSE talk \cup {last + 1}
  /\ late' = IF SummaryUnderWay THEN late + 1 ELSE late

-----------------------------------------------------------------------------
(* A round: runAgentLoop and runLLMIteration                               *)

RoundBegin(r) ==
  /\ pc[r] = "idle"
  /\ Add("user")
  /\ trigger' = [trigger EXCEPT ![r] = last + 1]
  /\ Goto(r, "llm")
  /\ UNCHANGED <<summary, disk, pending, retry, copy, guard, excused>>

\* The assistant message with its tool calls, then one result per call.
RoundCalls(r) ==
  /\ pc[r] = "llm"
  /\ Add("call")
  /\ \E n \in 1..MaxCalls : pending' = [pending EXCEPT ![r] = n]
  /\ Goto(r, "tools")
  /\ retry' = [retry EXCEPT ![r] = 0]
  /\ UNCHANGED <<summary, disk, trigger, copy, guard, excused>>

RoundResult(r) ==
  /\ pc[r] = "tools"
  /\ Add("tool")
  /\ pending' = [pending EXCEPT ![r] = @ - 1]
  /\ Goto(r, IF pending[r] = 1 THEN "llm" ELSE "tools")
  /\ UNCHANGED <<summary, disk, trigger, retry, copy, guard, excused>>

\* The LLM call fails: the round ends without a Save.
RoundFails(r) ==
  /\ pc[r] = "llm"
  /\ trigger' = [trigger EXCEPT ![r] = 0]
  /\ Goto(r, "idle")
  /\ retry' = [retry EXCEPT ![r] = 0]
  /\ UNCHANGED <<history, summary, last, disk, pending, copy, guard, talk, late,
                 excused>>

RoundAnswer(r) ==
  /\ pc[r] = "llm"
  /\ Add("assistant")
  /\ trigger' = [trigger EXCEPT ![r] = 0]
  /\ Goto(r, "save")
  /\ retry' = [retry EXCEPT ![r] = 0]
  /\ UNCHANGED <<summary, disk, pending, copy, guard, excused>>

\* Mutant of RoundCheck: nobody looks whether a summary is under way.
RoundCheckUnguarded(r) ==
  /\ pc[r] = "check"
  /\ \E long \in BOOLEAN :
     IF (Len(history) > Threshold \/ long) /\ \E s \in Summarizers : pc[s] = "idle"
     THEN \E s \in Summarizers :
            /\ pc[s] = "idle"
            /\ pc' = [pc EXCEPT ![s] = "read", ![r] = "idle"]
     ELSE Goto(r, "idle")
  /\ guard' = guard
  /\ UNCHANGED <<history, summary, last, disk, trigger, pending, retry, copy, talk,
                 late,
                 excused>>

\* maybeSummarize: one summarizer per session at a time.  Messages are too many, or
\* too long by estimateTokens, which any of them may be.
RoundCheck(r) ==
  /\ pc[r] = "check"
  /\ \E long \in BOOLEAN :
     IF (Len(history) > Threshold \/ long) /\ ~guard
     THEN \E s \in Summarizers :
            /\ pc[s] = "idle"
            /\ pc' = [pc EXCEPT ![s] = "read", ![r] = "idle"]
            /\ guard' = TRUE
     ELSE Goto(r, "idle") /\ UNCHANGED guard
  /\ UNCHANGED <<history, summary, last, disk, trigger, pending, retry, copy, talk,
                 late, excused>>

-----------------------------------------------------------------------------
(* forceCompression                                                        *)

\* The first message, the second half of what lies between, the last message.
Compressed(h) ==
  LET between == SubSeq(h, 2, Len(h) - 1)
      mid == Len(between) \div 2
  IN <<h[1]>> \o SubSeq(between, mid + 1, Len(between)) \o <<h[Len(h)]>>

CompressRead(r) ==
  /\ pc[r] = "llm"
  /\ retry[r] < MaxRetries
  /\ Len(history) > CompressMin
  /\ retry' = [retry EXCEPT ![r] = @ + 1]
  /\ copy' = [copy EXCEPT ![r] = Image(Compressed(history), {})]
  /\ Goto(r, "setHistory")
  /\ UNCHANGED <<history, summary, last, disk, trigger, pending, guard, talk, late,
                 excused>>

CompressWrite(r) ==
  /\ pc[r] = "setHistory"
  /\ history' = copy[r].history
  /\ excused' = excused \cup (IdsOf(history) \ IdsOf(history'))
  /\ late' = IF SummaryUnderWay
             THEN late + Cardinality(IdsOf(history') \ IdsOf(history)) ELSE late
  /\ Goto(r, "saveCompressed")
  /\ UNCHANGED <<summary, last, disk, trigger, pending, retry, copy, guard, talk>>

-----------------------------------------------------------------------------
(* Save                                                                    *)

Renaming == [save |-> "rename", saveCompressed |-> "renameCompressed",
             saveSummary |-> "renameSummary"]

AfterSave(p, step) == CASE step = "renameCompressed" -> "llm"
                        [] step = "renameSummary" -> "release"
                        [] OTHER -> IF p \in Chatting THEN "check" ELSE "idle"

\* Without a storage directory Save returns at once.
SaveSnapshot(p) ==
  /\ pc[p] \in DOMAIN Renaming
  /\ IF Persistent
     THEN /\ copy' = [copy EXCEPT ![p] = Image(history, summary)]
          /\ Goto(p, Renaming[pc[p]])
     ELSE /\ copy' = [copy EXCEPT ![p] = Empty]
          /\ Goto(p, AfterSave(p, Renaming[pc[p]]))
  /\ UNCHANGED <<history, summary, last, disk, trigger, pending, retry, guard, talk,
                 late, excused>>

\* The temporary file is complete and renamed over the session file, or some
\* file operation failed and the session file stays as it was.
SaveRename(p) ==
  /\ pc[p] \in {Renaming[s] : s \in DOMAIN Renaming}
  /\ disk' \in {disk, copy[p]}
  /\ copy' = [copy EXCEPT ![p] = Empty]
  /\ Goto(p, AfterSave(p, pc[p]))
  /\ UNCHANGED <<history, summary, last, trigger, pending, retry, guard, talk, late,
                 excused>>

-----------------------------------------------------------------------------
(* summarizeSession                                                        *)

\* Mutant of ToSummarize: the last message to summarize is left out.
ToSummarizeOneLess(h) ==
  {h[i].id : i \in {i \in 1..Len(h) : i + Keep < Len(h) /\ h[i].role # "tool"}}

\* The user and assistant messages before the last Keep.
ToSummarize(h) ==
  {h[i].id : i \in {i \in 1..Len(h) : i + Keep <= Len(h) /\ h[i].role # "tool"}}

\* Mutant of SummaryRead: the history is truncated before the LLM is asked.
SummaryReadTruncating(s) ==
  /\ pc[s] = "read"
  /\ copy' = [copy EXCEPT ![s] = Image(history, summary)]
  /\ history' = LastOf(history, Keep)
  /\ Goto(s, IF ToSummarize(history) = {} THEN "release" ELSE "ask")
  /\ UNCHANGED <<summary, last, disk, trigger, pending, retry, guard, talk, late,
                 excused>>

SummaryRead(s) ==
  /\ pc[s] = "read"
  /\ copy' = [copy EXCEPT ![s] = Image(history, summary)]
  /\ Goto(s, IF ToSummarize(history) = {} THEN "release" ELSE "ask")
  /\ UNCHANGED <<history, summary, last, disk, trigger, pending, retry, guard, talk,
                 late, excused>>

\* One batch together with the existing summary; or, for many messages, two
\* batches without it, each of which may fail, and a merge that falls back to
\* joining them.
SummaryAsk(s) ==
  LET ids == ToSummarize(copy[s].history) IN
  /\ pc[s] = "ask"
  /\ IF Cardinality(ids) <= MultiPart
     THEN copy' = [copy EXCEPT ![s].summary = @ \cup ids] /\ UNCHANGED excused
     ELSE \E i \in ids :
            LET part1 == {j \in ids : j < i} IN
            /\ Cardinality(part1) = Cardinality(ids) \div 2
            /\ \E part \in {{}, part1, ids \ part1, ids} :
                 /\ copy' = [copy EXCEPT ![s].summary = part]
                 /\ excused' = excused \cup ((copy[s].summary \cup ids) \ part)
  /\ Goto(s, "set")
  /\ UNCHANGED <<history, summary, last, disk, trigger, pending, retry, guard, talk, late>>

\* Mutant of SummaryFails: the early return keeps the guard.
SummaryFailsHolding(s) ==
  /\ pc[s] = "ask"
  /\ Goto(s, "idle")
  /\ UNCHANGED <<history, summary, last, disk, trigger, pending, retry, copy, guard,
                 talk, late, excused>>

\* The single batch fails, or the answer (of the merge, for two batches) is empty:
\* nothing is changed.
SummaryFails(s) ==
  /\ pc[s] = "ask"
  /\ Goto(s, "release")
  /\ UNCHANGED <<history, summary, last, disk, trigger, pending, retry, copy, guard,
                 talk, late, excused>>

SummarySet(s) ==
  /\ pc[s] = "set"
  /\ summary' = copy[s].summary
  /\ Goto(s, "truncate")
  /\ UNCHANGED <<history, last, disk, trigger, pending, retry, copy, guard, talk,
                 late, excused>>

SummaryTruncate(s) ==
  /\ pc[s] = "truncate"
  /\ history' = LastOf(history, Keep)
  /\ Goto(s, "saveSummary")
  /\ UNCHANGED <<summary, last, disk, trigger, pending, retry, copy, guard, talk,
                 late, excused>>

SummaryRelease(s) ==
  /\ pc[s] = "release"
  /\ guard' = FALSE
  /\ copy' = [copy EXCEPT ![s] = Empty]
  /\ Goto(s, "idle")
  /\ UNCHANGED <<history, summary, last, disk, trigger, pending, retry, talk, late,
                 excused>>

-----------------------------------------------------------------------------
\* The process dies and starts again: loadSessions reads the file.
Crash ==
  /\ MayCrash
  /\ history' = disk.history
  /\ summary' = disk.summary
  /\ excused' = excused \cup (talk \ (IdsOf(disk.history) \cup disk.summary))
  /\ pc' = [p \in Procs |-> "idle"]
  /\ trigger' = [r \in Rounds |-> 0]
  /\ pending' = [r \in Rounds |-> 0]
  /\ retry' = [r \in Rounds |-> 0]
  /\ copy' = [p \in Procs |-> Empty]
  /\ guard' = FALSE
  /\ UNCHANGED <<last, disk, talk, late>>

Round(r) == \/ RoundBegin(r)
            \/ RoundCalls(r)
            \/ RoundResult(r)
            \/ RoundFails(r)
            \/ RoundAnswer(r)
            \/ RoundCheck(r)
            \/ CompressRead(r)
            \/ CompressWrite(r)

Summarize(s) == \/ SummaryRead(s)
                \/ SummaryAsk(s)
                \/ SummaryFails(s)
                \/ SummarySet(s)
                \/ SummaryTruncate(s)
                \/ SummaryRelease(s)

Save(p) == SaveSnapshot(p) \/ SaveRename(p)

Next == \/ \E r \in Rounds : Round(r)
        \/ \E s \in Summarizers : Summarize(s)
        \/ \E p \in Procs : Save(p)
        \/ Crash

Spec == Init /\ [][Next]_vars

\* The LLM calls of a summary end (they have a timeout of 120 s) and so do the
\* file operations.
FairSpec == Spec /\ \A s \in Summarizers : WF_vars(Summarize(s) \/ Save(s))

-----------------------------------------------------------------------------
(* Properties                                                              *)

Messages == [id : Ids, role : Roles]
Images == [history : Seq(Messages), summary : SUBSET Ids]
Steps == {"idle", "llm", "tools", "save", "rename", "check", "setHistory",
          "saveCompressed", "renameCompressed", "read", "ask", "set", "truncate", "saveSummary",
          "renameSummary", "release"}

TypeOK ==
  /\ Image(history, summary) \in Images
  /\ disk \in Images
  /\ last \in 0..MaxMessages
  /\ pc \in [Procs -> Steps]
  /\ trigger \in [Rounds -> 0..MaxMessages]
  /\ pending \in [Rounds -> 0..MaxCalls]
  /\ retry \in [Rounds -> 0..MaxRetries]
  /\ copy \in [Procs -> Images]
  /\ guard \in BOOLEAN
  /\ late \in Nat
  /\ talk \subseteq Ids /\ excused \subseteq Ids

Increasing(h) == \A i, j \in DOMAIN h : i < j => h[i].id < h[j].id

\* Whatever rounds, compressions, summaries and crashes do to each other, the
\* history in memory and the one in the file are in order and repeat nothing.
HistoryInOrder == Increasing(history) /\ Increasing(disk.history)

\* Truncating after a summary forgets at most as many messages as came in
\* while the summary was written; apart from those, memory forgets nothing but
\* what forceCompression dropped, a crash lost, or a summary in two batches left
\* out (the old summary, and a batch whose LLM call failed).
ForgetsAtMostLate ==
  Cardinality(talk \ (IdsOf(history) \cup summary \cup excused)) <= late

\* Both: what concurrent rounds, compressions and summaries may do to a history.
HistoryKept == HistoryInOrder /\ ForgetsAtMostLate

\* The same for the session file, up to the last message it has seen: no Save
\* falls between truncating the history and storing its summary.
FileForgetsAtMostLate ==
  LET seen == IdsOf(disk.history) \cup disk.summary
      due == {m \in talk : \E n \in seen : m <= n}
  IN Cardinality(due \ (seen \cup excused)) <= late

\* While one batch is enough, a summary is only replaced by one made from it:
\* two summaries of a session never overtake each other.  (A crash goes back to
\* the file; two batches are made without the old summary.)
SummaryGrows == [][summary \subseteq summary' \/ summary' = disk.summary]_vars

\* What forceCompression's comment says it keeps: while a round is on, the
\* user's trigger is in the history its next LLM call is built from.
TriggerKept == \A r \in Rounds : pc[r] = "llm" => trigger[r] \in IdsOf(history)

\* The guard of a session is given back, or it would never be summarized again.
GuardReleased == guard ~> ~guard

=============================================================================
