----------------------------- MODULE MediaStore -----------------------------
(***************************************************************************)
(* pkg/media/store.go: FileMediaStore keeps three maps under one lock, refs,*)
(* scopeToRefs and refToScope, and the files they name on disk.  ReleaseAll *)
(* and CleanExpired work in two phases: entries leave the maps under the    *)
(* lock, files are removed after it.                                        *)
(*                                                                          *)
(* A ref is named by the Store call that makes it (refs are fresh UUIDs),   *)
(* and PathOf and ScopeOf say what that call stores and where.              *)
(***************************************************************************)
EXTENDS Naturals, FiniteSets

CONSTANTS
  Refs,      \* Store calls, each with the ref it would return
  Paths,     \* files
  Scopes,    \* channel:chatID:messageID
  PathOf,    \* PathOf[r]: the localPath argument of call r
  ScopeOf,   \* ScopeOf[r]: its scope argument
  Releasers  \* goroutines that call ReleaseAll

ASSUME MediaAssumption ==
  /\ PathOf \in [Refs -> Paths]
  /\ ScopeOf \in [Refs -> Scopes]

NoScope == "none"
Cleaner == "cleaner"
ASSUME CleanerAssumption == Cleaner \notin Releasers /\ NoScope \notin Scopes

Deleters == Releasers \cup {Cleaner}

VARIABLES
  files,       \* files on disk
  store,       \* store[r]: the step of Store call r
  refs,        \* keys of s.refs
  scopeToRefs, \* scopeToRefs[s]: the refs of scope s
  scopes,      \* keys of s.scopeToRefs
  refToScope,  \* refToScope[r]: scope of r, NoScope if it has none
  expired,     \* refs whose entry is older than MaxAge
  toRemove,    \* toRemove[d]: files deleter d has still to remove
  cleaner,     \* the cleanup goroutine: "new", "on", "off"
  stopped,     \* s.stop is closed
  kept         \* history: files whose removal failed

vars == <<files, store, refs, scopeToRefs, scopes, refToScope, expired, toRemove,
          cleaner, stopped, kept>>

Init ==
  /\ files = {}
  /\ store = [r \in Refs |-> "idle"]
  /\ refs = {}
  /\ scopeToRefs = [s \in Scopes |-> {}]
  /\ scopes = {}
  /\ refToScope = [r \in Refs |-> NoScope]
  /\ expired = {}
  /\ toRemove = [d \in Deleters |-> {}]
  /\ cleaner = "new"
  /\ stopped = FALSE
  /\ kept = {}

-----------------------------------------------------------------------------
\* A channel has downloaded a file.
Download(r) ==
  /\ store[r] = "idle"
  /\ files' = files \cup {PathOf[r]}
  /\ store' = [store EXCEPT ![r] = "downloaded"]
  /\ UNCHANGED <<refs, scopeToRefs, scopes, refToScope, expired, toRemove, cleaner,
                 stopped, kept>>

\* Store: os.Stat, before the lock is taken.
StoreStat(r) ==
  /\ store[r] = "downloaded"
  /\ store' = [store EXCEPT ![r] = IF PathOf[r] \in files THEN "found" ELSE "failed"]
  /\ UNCHANGED <<files, refs, scopeToRefs, scopes, refToScope, expired, toRemove,
                 cleaner, stopped, kept>>

\* Store: the three map updates under the lock.
StoreInsert(r) ==
  /\ store[r] = "found"
  /\ store' = [store EXCEPT ![r] = "stored"]
  /\ refs' = refs \cup {r}
  /\ scopes' = scopes \cup {ScopeOf[r]}
  /\ scopeToRefs' = [scopeToRefs EXCEPT ![ScopeOf[r]] = @ \cup {r}]
  /\ refToScope' = [refToScope EXCEPT ![r] = ScopeOf[r]]
  /\ UNCHANGED <<files, expired, toRemove, cleaner, stopped, kept>>

\* Time passes: the entry of r is now older than MaxAge.
Age(r) ==
  /\ r \in refs
  /\ expired' = expired \cup {r}
  /\ UNCHANGED <<files, store, refs, scopeToRefs, scopes, refToScope, toRemove, cleaner,
                 stopped, kept>>

\* Mutant of Release: it looks the paths up after the entries are deleted.
ReleaseDeletingFirst(d, s) ==
  LET gone == scopeToRefs[s] IN
  /\ d \in Releasers
  /\ toRemove[d] = {}
  /\ s \in scopes
  /\ refs' = refs \ gone
  /\ toRemove' = [toRemove EXCEPT ![d] = {PathOf[r] : r \in gone \cap refs'}]
  /\ refToScope' = [r \in Refs |-> IF r \in gone THEN NoScope ELSE refToScope[r]]
  /\ scopeToRefs' = [scopeToRefs EXCEPT ![s] = {}]
  /\ scopes' = scopes \ {s}
  /\ UNCHANGED <<files, store, expired, cleaner, stopped, kept>>

\* ReleaseAll, phase 1.
Release(d, s) ==
  LET gone == scopeToRefs[s] IN
  /\ d \in Releasers
  /\ toRemove[d] = {}
  /\ s \in scopes
  /\ toRemove' = [toRemove EXCEPT ![d] = {PathOf[r] : r \in gone \cap refs}]
  /\ refs' = refs \ gone
  /\ refToScope' = [r \in Refs |-> IF r \in gone THEN NoScope ELSE refToScope[r]]
  /\ scopeToRefs' = [scopeToRefs EXCEPT ![s] = {}]
  /\ scopes' = scopes \ {s}
  /\ UNCHANGED <<files, store, expired, cleaner, stopped, kept>>

\* CleanExpired, phase 1: the maps without the expired entries.
Expiring == refs \cap expired
LeftInScope == [s \in Scopes |-> {r \in scopeToRefs[s] : ~(r \in Expiring /\ refToScope[r] = s)}]

DropExpired ==
  /\ cleaner = "on"
  /\ toRemove[Cleaner] = {}
  /\ Expiring # {}
  /\ refs' = refs \ Expiring
  /\ refToScope' = [r \in Refs |-> IF r \in Expiring THEN NoScope ELSE refToScope[r]]
  /\ scopeToRefs' = LeftInScope
  /\ UNCHANGED <<files, store, expired, stopped, kept>>

\* A scope that has no entry left goes with its last one.
DropEmptyScopes == scopes' = {s \in scopes : LeftInScope[s] # {} \/ scopeToRefs[s] = {}}

CleanerTakes(rs) == toRemove' = [toRemove EXCEPT ![Cleaner] = {PathOf[r] : r \in rs}]

\* Mutants of Clean: one that leaves empty scopes, one that collects the path of
\* every entry it looks at, one whose goroutine cleans only once.
CleanKeepingScopes ==
  DropExpired /\ CleanerTakes(Expiring) /\ UNCHANGED <<scopes, cleaner>>

CleanCollectingAll ==
  DropExpired /\ CleanerTakes(refs) /\ DropEmptyScopes /\ UNCHANGED cleaner

CleanOnce ==
  DropExpired /\ CleanerTakes(Expiring) /\ DropEmptyScopes /\ cleaner' = "off"

\* CleanExpired, phase 1, on a tick of the cleanup goroutine.
Clean ==
  DropExpired /\ CleanerTakes(Expiring) /\ DropEmptyScopes /\ UNCHANGED cleaner

\* Phase 2 of both: os.Remove of one file, which may fail.
Remove(d, p) ==
  /\ p \in toRemove[d]
  /\ toRemove' = [toRemove EXCEPT ![d] = @ \ {p}]
  /\ \/ files' = files \ {p} /\ UNCHANGED kept
     \/ kept' = kept \cup {p} /\ UNCHANGED files
  /\ UNCHANGED <<store, refs, scopeToRefs, scopes, refToScope, expired, cleaner, stopped>>

\* Start runs the goroutine once; Stop closes the channel once; the goroutine
\* ends when it is back at its select.
Start ==
  /\ cleaner = "new"
  /\ cleaner' = "on"
  /\ UNCHANGED <<files, store, refs, scopeToRefs, scopes, refToScope, expired, toRemove,
                 stopped, kept>>

Stop ==
  /\ ~stopped
  /\ stopped' = TRUE
  /\ UNCHANGED <<files, store, refs, scopeToRefs, scopes, refToScope, expired, toRemove,
                 cleaner, kept>>

CleanerEnds ==
  /\ cleaner = "on"
  /\ stopped
  /\ toRemove[Cleaner] = {}
  /\ cleaner' = "off"
  /\ UNCHANGED <<files, store, refs, scopeToRefs, scopes, refToScope, expired, toRemove,
                 stopped, kept>>

Next ==
  \/ \E r \in Refs : Download(r) \/ StoreStat(r) \/ StoreInsert(r) \/ Age(r)
  \/ \E d \in Releasers, s \in Scopes : Release(d, s)
  \/ Clean
  \/ \E d \in Deleters, p \in Paths : Remove(d, p)
  \/ Start \/ Stop \/ CleanerEnds

Spec == Init /\ [][Next]_vars

\* Time passes, the cleaner's ticker fires and removals are carried out.
FairSpec ==
  /\ Spec
  /\ \A r \in Refs : WF_vars(Age(r))
  /\ WF_vars(Clean)
  /\ WF_vars(CleanerEnds)
  /\ \A d \in Deleters : WF_vars(\E p \in Paths : Remove(d, p))

-----------------------------------------------------------------------------
(* Properties                                                              *)

TypeOK ==
  /\ files \subseteq Paths
  /\ store \in [Refs -> {"idle", "downloaded", "found", "failed", "stored"}]
  /\ refs \subseteq Refs
  /\ scopeToRefs \in [Scopes -> SUBSET Refs]
  /\ scopes \subseteq Scopes
  /\ refToScope \in [Refs -> Scopes \cup {NoScope}]
  /\ expired \subseteq Refs
  /\ toRemove \in [Deleters -> SUBSET Paths]
  /\ cleaner \in {"new", "on", "off"}
  /\ stopped \in BOOLEAN
  /\ kept \subseteq Paths

\* The three maps describe one relation: a ref has a scope exactly when it is
\* stored, it is in the set of that scope and of no other, and no scope is kept
\* with an empty set.
MapsAgree ==
  /\ \A r \in Refs : r \in refs <=> refToScope[r] # NoScope
  /\ \A r \in Refs, s \in Scopes : r \in scopeToRefs[s] <=> refToScope[r] = s
  /\ \A s \in Scopes : s \in scopes <=> scopeToRefs[s] # {}

DistinctPaths == \A q, r \in Refs : PathOf[q] = PathOf[r] => q = r

\* A ref that resolves names a file that is there, as long as no file is stored
\* twice: the second phase of a release never removes a file of a live entry.
ResolvesToFile == DistinctPaths => \A r \in refs : PathOf[r] \in files

\* No file outlives its entry unnoticed: once its Store call has returned, a
\* file is there only with an entry, or with a deleter that will remove it, or
\* because a removal failed.
NoFileLeaks ==
  \A r \in Refs : DistinctPaths /\ store[r] = "stored" /\ PathOf[r] \in files =>
    r \in refs \/ (\E d \in Deleters : PathOf[r] \in toRemove[d]) \/ PathOf[r] \in kept

\* What three maps, the files and the deleters' lists say of each other.
FilesAccounted == MapsAgree /\ ResolvesToFile /\ NoFileLeaks

\* While the cleanup goroutine runs, every stored file is given up: its entry
\* leaves the maps and the file the disk.
EverythingExpires ==
  \A r \in Refs : (r \in refs /\ cleaner = "on") ~>
    ((r \notin refs /\ PathOf[r] \notin files \ kept) \/ stopped)

=============================================================================
