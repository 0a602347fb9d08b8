----------------------------- MODULE SkillSearch -----------------------------
(***************************************************************************)
(* Searching for skills: the find_skills tool (pkg/tools/skills_search.go),*)
(* which asks all registries at once (pkg/skills/registry.go) and keeps    *)
(* answers in a cache that also answers similar queries                    *)
(* (pkg/skills/search_cache.go).  Several rounds share the tool.           *)
(***************************************************************************)
EXTENDS Naturals, Sequences, SequencesExt, FiniteSets

CONSTANTS
  Calls,         \* calls of the tool, numbered as they begin
  Queries,       \* sequences of letters
  Limits,        \* what a call may give as limit
  Registries,    \* the registries
  Offers,        \* Offers[r]: the results of registry r, each [slug, score]
  MaxConcurrent, \* searches at a time in one SearchAll
  MaxEntries,    \* size of the cache
  TTL,           \* how long an entry is used
  MaxNow         \* bound on the time

VARIABLES
  clock,     \* the time
  entries,   \* the cache: entries[query] = [results, createdAt]
  order,     \* its keys, the least recently used first
  call,      \* call[k]: [step, query, limit, merged, answer]
  asking,    \* asking[k]: the registries that hold a slot of call k
  waiting,   \* waiting[k]: those that have not had one
  failed     \* failed[k]: those that have failed

vars == <<clock, entries, order, call, asking, waiting, failed>>

Init ==
  /\ clock = 0 /\ entries = <<>> /\ order = <<>>
  /\ call = [k \in Calls |-> [step |-> "idle", query |-> <<>>, limit |-> 0,
                              merged |-> <<>>, answer |-> <<>>]]
  /\ asking = [k \in Calls |-> {}] /\ waiting = asking /\ failed = asking

-----------------------------------------------------------------------------
(* The cache                                                               *)

Trigrams(q) == {SubSeq(q, i, i + 2) : i \in 1..(Len(q) - 2)}

\* Jaccard similarity as a fraction; two queries without trigrams are alike.
Similarity(q, r) ==
  LET a == Trigrams(q)  b == Trigrams(r) IN
  IF a \cup b = {} THEN <<1, 1>> ELSE <<Cardinality(a \cap b), Cardinality(a \cup b)>>
AtLeast(s, t) == s[1] * t[2] >= t[1] * s[2]
AlikeEnough == <<7, 10>>

IsFresh(q) == clock - entries[q].createdAt < TTL

\* Get, the entries that may answer q: its own, or one of the most similar.
Hits(q) ==
  IF q \in DOMAIN entries /\ IsFresh(q) THEN {q}
  ELSE {r \in {s \in DOMAIN entries : IsFresh(s)} :
          /\ AtLeast(Similarity(q, r), AlikeEnough)
          /\ \A s \in DOMAIN entries :
               IsFresh(s) => AtLeast(Similarity(q, r), Similarity(q, s))}

MoveToEnd(keys, q) == Append(SelectSeq(keys, LAMBDA k : k # q), q)

\* Mutant of Put: an entry that is renewed is listed a second time.
PutTwice(q, results) ==
  LET live == SelectSeq(order, LAMBDA k : k \in DOMAIN entries /\ IsFresh(k))
      kept == IF q \in ToSet(live) \/ Len(live) < MaxEntries THEN live ELSE Tail(live)
  IN /\ order' = Append(kept, q)
     /\ entries' = [k \in ToSet(kept) \cup {q} |->
                      IF k = q THEN [results |-> results, createdAt |-> clock] ELSE entries[k]]

\* Put: expired entries go, then the oldest of a full cache.
Put(q, results) ==
  LET live == SelectSeq(order, LAMBDA k : k \in DOMAIN entries /\ IsFresh(k))
      kept == IF q \in ToSet(live) \/ Len(live) < MaxEntries THEN live ELSE Tail(live)
  IN /\ order' = MoveToEnd(kept, q)
     /\ entries' = [k \in ToSet(kept) \cup {q} |->
                      IF k = q THEN [results |-> results, createdAt |-> clock] ELSE entries[k]]

-----------------------------------------------------------------------------
(* A call of the tool                                                      *)

Step(k, from, changes) == call[k].step = from /\ call' = [call EXCEPT ![k] = changes]

Begin(k, q, n) ==
  /\ call[k].step = "idle" /\ \A j \in Calls : j < k => call[j].step # "idle"
  /\ \/ /\ Hits(q) # {}
        /\ \E r \in Hits(q) :
             /\ Step(k, "idle", [step |-> "cached", query |-> q, limit |-> n,
                                 merged |-> <<>>, answer |-> entries[r].results])
             /\ order' = MoveToEnd(order, r)
        /\ UNCHANGED waiting
     \/ /\ Hits(q) = {}
        /\ Step(k, "idle", [call[k] EXCEPT !.step = "searching", !.query = q, !.limit = n])
        /\ waiting' = [waiting EXCEPT ![k] = Registries]
        /\ UNCHANGED order
  /\ UNCHANGED <<clock, entries, asking, failed>>

\* A goroutine for each registry waits for a slot.
Acquire(k, r) ==
  /\ r \in waiting[k] /\ Cardinality(asking[k]) < MaxConcurrent
  /\ asking' = [asking EXCEPT ![k] = @ \cup {r}]
  /\ waiting' = [waiting EXCEPT ![k] = @ \ {r}]
  /\ UNCHANGED <<clock, entries, order, call, failed>>

Answers(k, r) ==
  /\ r \in asking[k]
  /\ asking' = [asking EXCEPT ![k] = @ \ {r}]
  /\ call' = [call EXCEPT ![k].merged = @ \o Offers[r]]
  /\ UNCHANGED <<clock, entries, order, waiting, failed>>

\* The registry fails, or the round's context ends, also before there is a slot.
Fails(k, r) ==
  /\ r \in asking[k] \cup waiting[k]
  /\ asking' = [asking EXCEPT ![k] = @ \ {r}]
  /\ waiting' = [waiting EXCEPT ![k] = @ \ {r}]
  /\ failed' = [failed EXCEPT ![k] = @ \cup {r}]
  /\ UNCHANGED <<clock, entries, order, call>>

\* sortByScoreDesc is an insertion sort: equal scores keep their order.
Ranked(results) ==
  LET place[n \in 0..Len(results)] ==
        IF n = 0 THEN <<>>
        ELSE LET done == place[n - 1]
                 ahead == Cardinality({i \in DOMAIN done : done[i].score >= results[n].score})
             IN InsertAt(done, ahead + 1, results[n])
  IN place[Len(results)]

Clamped(results, n) == IF n > 0 /\ Len(results) > n THEN SubSeq(results, 1, n) ELSE results

\* All have answered: the best are the answer, and go into the cache unless there is
\* none.  A call fails when every registry has.
Finish(k) ==
  LET best == Clamped(Ranked(call[k].merged), call[k].limit) IN
  /\ waiting[k] = {} /\ asking[k] = {}
  /\ Step(k, "searching", IF failed[k] = Registries THEN [call[k] EXCEPT !.step = "error"]
                          ELSE [call[k] EXCEPT !.step = "found", !.merged = <<>>, !.answer = best])
  /\ IF failed[k] # Registries /\ best # <<>> THEN Put(call[k].query, best)
     ELSE UNCHANGED <<entries, order>>
  /\ UNCHANGED <<clock, asking, waiting, failed>>

Tick ==
  /\ clock < MaxNow
  /\ clock' = clock + 1
  /\ UNCHANGED <<entries, order, call, asking, waiting, failed>>

Next ==
  \/ Tick
  \/ \E k \in Calls :
       \/ \E q \in Queries, n \in Limits : Begin(k, q, n)
       \/ \E r \in Registries : Acquire(k, r) \/ Answers(k, r) \/ Fails(k, r)
       \/ Finish(k)

Spec == Init /\ [][Next]_vars

-----------------------------------------------------------------------------
(* Properties                                                              *)

TypeOK ==
  /\ clock \in 0..MaxNow /\ DOMAIN entries \subseteq Queries /\ order \in Seq(Queries)
  /\ \A k \in Calls : call[k].step \in {"idle", "searching", "cached", "found", "error"}
  /\ \A k \in Calls : asking[k] \cup waiting[k] \cup failed[k] \subseteq Registries

\* The keys and their order are the same, each once, and no more than the cache holds:
\* an eviction, by age or by use, never leaves one without the other.
CacheIsOrdered ==
  /\ ToSet(order) = DOMAIN entries /\ Len(order) = Cardinality(DOMAIN entries)
  /\ Len(order) <= MaxEntries

\* The registries that have answered call k.
Answered(k) == Registries \ failed[k]

\* A search returns what its registries offer: nothing they did not, nothing twice, the
\* best first, and all of it unless the limit leaves some that are no better.
BestFirst(k) ==
  LET offered == UNION {ToSet(Offers[r]) : r \in Answered(k)}
      given == call[k].answer
  IN /\ ToSet(given) \subseteq offered /\ Cardinality(ToSet(given)) = Len(given)
     /\ \A i, j \in DOMAIN given : i < j => given[i].score >= given[j].score
     /\ \A o \in offered \ ToSet(given) :
          Len(given) = call[k].limit /\ \A i \in DOMAIN given : given[i].score >= o.score

\* A cached answer is one that a search of some call found, for a query that is the same,
\* shares trigrams with this one, or like this one has none.
CachedIsFound(k) ==
  \E j \in Calls : /\ call[j].step = "found" /\ call[j].answer = call[k].answer
                   /\ AtLeast(Similarity(call[j].query, call[k].query), AlikeEnough)

\* What the tool returns and what the cache keeps: the conditions above.
SearchSound ==
  /\ CacheIsOrdered
  /\ \A k \in Calls : call[k].step = "found" => BestFirst(k)
  /\ \A k \in Calls : call[k].step = "cached" => CachedIsFound(k)

=============================================================================
