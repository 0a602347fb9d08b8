---------------------------- MODULE PromptCache ----------------------------
(***************************************************************************)
(* pkg/agent/context.go: the cached system prompt of an agent.  A round     *)
(* takes it if no source file has changed since it was built, by existence  *)
(* and modification time; otherwise it builds it anew.  Meanwhile the       *)
(* agent's tools and the user write the files, from which the code looks    *)
(* one at a time.  Several writes can fall in one tick of the file system's *)
(* clock, and a file that is replaced by a rename has the time at which its *)
(* temporary file was written.                                              *)
(***************************************************************************)
EXTENDS Naturals, Sequences

CONSTANTS
  Tracked,    \* AGENTS.md, ..., MEMORY.md: existence and time are compared
  Skills,     \* files inside skills/: only their time is
  Notes,      \* daily notes: in the prompt, and not looked at
  Callers,    \* rounds that want the prompt
  MaxWrites,  \* bound on the number of writes and removals
  MaxClock    \* bound on the clock

Files == Tracked \cup Skills \cup Notes
Compared == Tracked \cup Skills

VARIABLES
  clock,
  log,       \* the writes so far, [file, now, at, on]: the time the file got, and when;
             \* contents are numbered, 0 is no file
  content,   \* content[f]
  mtime,     \* mtime[f]
  cache,     \* cachedSystemPrompt, cachedAt, existedAtCache: [valid, text, at, existed],
             \* and as history when (the length of the log when) each text was read
  promptPc,  \* promptPc[c]: "idle", "checking", "locking", "rechecking", "statting", "reading",
             \* "served"
  todo,      \* todo[c]: files that this step of c has not yet looked at
  built,     \* built[c]: what c has put together, or the cache that it was given
  start      \* history, start[c]: Len(log) when the call of c began

pcVars == <<clock, log, content, mtime, cache, promptPc, todo, built, start>>

Nothing == [valid |-> FALSE, text |-> [f \in Files |-> 0], when |-> [f \in Files |-> 0],
            at |-> 0, existed |-> {}]

PcInit ==
  /\ clock = 1 /\ log = <<>>
  /\ content = [f \in Files |-> 0] /\ mtime = [f \in Files |-> 0]
  /\ cache = Nothing
  /\ promptPc = [c \in Callers |-> "idle"] /\ todo = [c \in Callers |-> {}]
  /\ built = [c \in Callers |-> Nothing] /\ start = [c \in Callers |-> 0]

-----------------------------------------------------------------------------
(* The file system                                                         *)

\* The file has another content, or none (now = 0), and the time at.
Put(f, now, at) ==
  /\ Len(log) < MaxWrites /\ now \in {0, Len(log) + 1} /\ now # content[f]
  /\ log' = Append(log, [file |-> f, now |-> now, at |-> at, on |-> clock])
  /\ content' = [content EXCEPT ![f] = now]
  /\ mtime' = [mtime EXCEPT ![f] = at]
  /\ UNCHANGED <<clock, cache, promptPc, todo, built, start>>

\* The user writes in the file, or removes it.
Edit(f, now) == Put(f, now, clock)

\* WriteFileAtomic renames a temporary file, written at an earlier tick or in this one.
WriteFile(f, at) == Put(f, Len(log) + 1, at)

Tick ==
  /\ clock < MaxClock /\ clock' = clock + 1
  /\ UNCHANGED <<log, content, mtime, cache, promptPc, todo, built, start>>

-----------------------------------------------------------------------------
(* BuildSystemPromptWithCache                                              *)

Exists(f) == content[f] # 0

\* fileChangedSince and skillFilesModifiedSince.
ChangedSince(f) ==
  \/ f \in Tracked /\ (Exists(f) # (f \in cache.existed))
  \/ Exists(f) /\ mtime[f] > cache.at

Writers == {c \in Callers : promptPc[c] \in {"rechecking", "statting", "reading"}}
Readers == {c \in Callers : promptPc[c] = "checking"}

\* The read lock.  Without a cache the look at the files is left out.
Ask(c) ==
  /\ promptPc[c] = "idle" /\ Writers = {}
  /\ promptPc' = [promptPc EXCEPT ![c] = IF cache.valid THEN "checking" ELSE "locking"]
  /\ todo' = [todo EXCEPT ![c] = Compared]
  /\ start' = [start EXCEPT ![c] = Len(log)]
  /\ UNCHANGED <<clock, log, content, mtime, cache, built>>

\* sourceFilesChangedLocked looks at one file.
Check(c, f) ==
  /\ promptPc[c] \in {"checking", "rechecking"} /\ f \in todo[c]
  /\ IF ChangedSince(f)
     THEN IF promptPc[c] = "checking"
          THEN promptPc' = [promptPc EXCEPT ![c] = "locking"] /\ UNCHANGED <<todo, built>>
          ELSE /\ promptPc' = [promptPc EXCEPT ![c] = "statting"]
               /\ todo' = [todo EXCEPT ![c] = Compared]
               /\ built' = [built EXCEPT ![c] = Nothing]
     ELSE todo' = [todo EXCEPT ![c] = @ \ {f}] /\ UNCHANGED <<promptPc, built>>
  /\ UNCHANGED <<clock, log, content, mtime, cache, start>>

\* Nothing has changed: the cache is the answer.
ServeCached(c) ==
  /\ promptPc[c] \in {"checking", "rechecking"} /\ todo[c] = {}
  /\ built' = [built EXCEPT ![c] = cache]
  /\ promptPc' = [promptPc EXCEPT ![c] = "served"]
  /\ UNCHANGED <<clock, log, content, mtime, cache, todo, start>>

\* The write lock, and under it the second look.
Lock(c) ==
  /\ promptPc[c] = "locking" /\ Writers = {} /\ Readers = {}
  /\ promptPc' = [promptPc EXCEPT ![c] = IF cache.valid THEN "rechecking" ELSE "statting"]
  /\ todo' = [todo EXCEPT ![c] = Compared]
  /\ built' = [built EXCEPT ![c] = Nothing]
  /\ UNCHANGED <<clock, log, content, mtime, cache, start>>

\* buildCacheBaseline looks at one file.
Stat(c, f) ==
  /\ promptPc[c] = "statting" /\ f \in todo[c]
  /\ built' = [built EXCEPT ![c] =
       [valid |-> @.valid, text |-> @.text, when |-> @.when,
        at |-> IF Exists(f) /\ mtime[f] > @.at THEN mtime[f] ELSE @.at,
        existed |-> IF Exists(f) /\ f \in Tracked THEN @.existed \cup {f} ELSE @.existed]]
  /\ todo' = [todo EXCEPT ![c] = @ \ {f}]
  /\ UNCHANGED <<clock, log, content, mtime, cache, promptPc, start>>

\* BuildSystemPrompt begins ...
StartReading(c) ==
  /\ promptPc[c] = "statting" /\ todo[c] = {}
  /\ promptPc' = [promptPc EXCEPT ![c] = "reading"]
  /\ todo' = [todo EXCEPT ![c] = Files]
  /\ UNCHANGED <<clock, log, content, mtime, cache, built, start>>

WithText(b, f) ==
  [valid |-> b.valid, text |-> [b.text EXCEPT ![f] = content[f]],
   when |-> [b.when EXCEPT ![f] = Len(log)], at |-> b.at, existed |-> b.existed]

\* ... and reads one file.
Read(c, f) ==
  /\ promptPc[c] = "reading" /\ f \in todo[c]
  /\ built' = [built EXCEPT ![c] = WithText(built[c], f)]
  /\ todo' = [todo EXCEPT ![c] = @ \ {f}]
  /\ UNCHANGED <<clock, log, content, mtime, cache, promptPc, start>>

\* Mutant of Baseline: the baseline is taken after the prompt is built.
BaselineAfter(c) ==
  LET there == {f \in Compared : Exists(f)} IN
  [at |-> IF there = {} THEN 0 ELSE mtime[CHOOSE f \in there : \A g \in there : mtime[g] <= mtime[f]],
   existed |-> there \cap Tracked]

\* What the cache will be compared with; an empty workspace has an early time.
Baseline(c) == [at |-> built[c].at, existed |-> built[c].existed]

Publish(c) ==
  /\ promptPc[c] = "reading" /\ todo[c] = {}
  /\ cache' = [valid |-> TRUE, text |-> built[c].text, when |-> built[c].when,
               at |-> Baseline(c).at, existed |-> Baseline(c).existed]
  /\ built' = [built EXCEPT ![c] = cache']
  /\ promptPc' = [promptPc EXCEPT ![c] = "served"]
  /\ UNCHANGED <<clock, log, content, mtime, todo, start>>

Return(c) ==
  /\ promptPc[c] = "served"
  /\ promptPc' = [promptPc EXCEPT ![c] = "idle"]
  /\ built' = [built EXCEPT ![c] = Nothing]
  /\ start' = [start EXCEPT ![c] = 0]
  /\ UNCHANGED <<clock, log, content, mtime, cache, todo>>

PcNext ==
  \/ Tick
  \/ \E f \in Files : \/ \E now \in 0..MaxWrites : Edit(f, now)
                     \/ \E at \in 1..clock : WriteFile(f, at)
  \/ \E c \in Callers :
       \/ Ask(c) \/ ServeCached(c) \/ Lock(c) \/ StartReading(c) \/ Publish(c) \/ Return(c)
       \/ \E f \in Files : Check(c, f) \/ Stat(c, f) \/ Read(c, f)

PcSpec == PcInit /\ [][PcNext]_pcVars

-----------------------------------------------------------------------------
Entry == [valid : BOOLEAN, text : [Files -> Nat], when : [Files -> Nat], at : Nat,
          existed : SUBSET Tracked]

PcTypeOK ==
  /\ clock \in Nat
  /\ log \in Seq([file : Files, now : Nat, at : Nat, on : Nat])
  /\ content \in [Files -> Nat] /\ mtime \in [Files -> Nat]
  /\ cache \in Entry /\ built \in [Callers -> Entry]
  /\ promptPc \in [Callers -> {"idle", "checking", "locking", "rechecking", "statting",
                               "reading", "served"}]
  /\ todo \in [Callers -> SUBSET Files] /\ start \in [Callers -> Nat]

\* f was v when the log l had m writes.
WasAt(l, f, v, m) ==
  \/ v = 0 /\ \A k \in 1..m : l[k].file # f
  \/ \E i \in 1..m : /\ l[i].file = f /\ l[i].now = v
                     /\ \A k \in (i + 1)..m : l[k].file # f

\* What existence and time do not show of a write: one in the very tick of the newest file
\* of the baseline, a rename that brought a time before the baseline, and a removal where
\* the baseline does not know of the file, in a skill or created while the prompt was built.
Invisible(write, entry) ==
  \/ write.at = entry.at
  \/ write.at < entry.at /\ write.at < write.on
  \/ write.now = 0 /\ write.file \notin entry.existed

\* With m writes, f is from one since it was read that cannot be seen.
Missed(l, f, entry, m) ==
  \E i \in 1..m : /\ i > entry.when[f] /\ l[i].file = f /\ Invisible(l[i], entry)
                 /\ \A k \in (i + 1)..m : l[k].file # f

\* With n writes or at a later moment f was as the entry has it, or did not show its change.
CurrentFrom(l, n, f, entry) ==
  \E m \in n..Len(l) : WasAt(l, f, entry.text[f], m) \/ Missed(l, f, entry, m)

\* A prompt that is served has each file as it was at some moment of the call, unless what it
\* was then came from an invisible write after the file had been read.
PromptIsCurrent ==
  \A c \in Callers : promptPc[c] = "served" =>
    \A f \in Compared : CurrentFrom(log, start[c], f, built[c])

\* Not so in the code: daily notes are part of the prompt and not compared, and the
\* invisible writes are not noticed.
PromptIsAlwaysCurrent ==
  \A c \in Callers : promptPc[c] = "served" =>
    \A f \in Files : \E m \in start[c]..Len(log) : WasAt(log, f, built[c].text[f], m)
=============================================================================
