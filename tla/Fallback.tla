------------------------------ MODULE Fallback ------------------------------
(***************************************************************************)
(* pkg/providers/fallback.go and cooldown.go, and the retries around them   *)
(* in runLLMIteration (pkg/agent/loop.go): each request walks its chain of  *)
(* candidates; the failures of a provider bar it for a while, for all       *)
(* requests of the process.                                                 *)
(*                                                                          *)
(* Time is in minutes and stands still until something the code compares    *)
(* with the clock is due.  A candidate is its provider; an error is what    *)
(* ClassifyError makes of it.                                               *)
(***************************************************************************)
EXTENDS Naturals, Sequences

CONSTANTS
  LLMCalls,    \* concurrent LLM calls
  Providers,
  Chain,       \* Chain[r]: the providers of the candidates of request r
  Cancellable, \* those of the agent loop, which share a context; cron's has no end
  Window,      \* failureWindow, in minutes
  LLMRetries,  \* maxRetries of runLLMIteration
  MaxFailures, \* bound on the number of failures that are marked
  MaxNow       \* bound on the clock

\* No cooldown is longer than the failure window: both are a day at most.
ASSUME FbAssumption ==
  /\ Chain \in [LLMCalls -> Seq(Providers)] /\ Cancellable \subseteq LLMCalls
  /\ Window \in Nat /\ Window >= 24 * 60
  /\ LLMRetries \in Nat /\ MaxFailures \in Nat /\ MaxNow \in Nat

Lesser(a, b) == IF a < b THEN a ELSE b
Greater(a, b) == IF a > b THEN a ELSE b
Zero == 0      \* time.Time{}
Retriable == {"billing", "other"}  \* auth, rate_limit, timeout and overloaded are one

VARIABLES
  now,
  entry,    \* entry[p]: the cooldownEntry of provider p
  ctxDone,  \* requests whose context is cancelled
  call,     \* call[r]: [step, i, retry]: where request r is in its chain
  attempts, \* attempts[r]: "skipped" or the reason, for each candidate so far
  outcome,  \* outcome[r]: "none", "ok", "canceled", "aborted", "exhausted"
  barred,   \* history, barred[p]: end of the last cooldown a failure has set
  lifted,   \* history: providers that a success has cleared since their last failure
  failures  \* number of failures marked

fbVars == <<now, entry, ctxDone, call, attempts, outcome, barred, lifted, failures>>

NoEntry == [errors |-> 0, billing |-> 0, coolEnd |-> Zero, disabled |-> Zero, last |-> Zero]
FreshCall == [step |-> "next", i |-> 1, retry |-> 0]

FbInit ==
  /\ now = 1
  /\ entry = [p \in Providers |-> NoEntry]
  /\ ctxDone = {}
  /\ call = [r \in LLMCalls |-> FreshCall]
  /\ attempts = [r \in LLMCalls |-> <<>>]
  /\ outcome = [r \in LLMCalls |-> "none"]
  /\ barred = [p \in Providers |-> Zero] /\ lifted = {} /\ failures = 0

-----------------------------------------------------------------------------
(* The cooldown tracker                                                    *)

\* 1, 5, 25 and then 60 minutes.
StandardCooldown(n) == Lesser(60, 5 ^ Lesser(n - 1, 3))

\* 5, 10, 20 and then 24 hours.
BillingCooldown(n) == Lesser(24, 5 * 2 ^ Lesser(n - 1, 10)) * 60

\* Mutant of IsAvailable: a billing disable is not looked at.
IsAvailableStandard(p) == entry[p].coolEnd <= now

IsAvailable(p) == entry[p].disabled <= now /\ entry[p].coolEnd <= now

\* MarkFailure: the entry of p afterwards.  The counters start again when the last
\* failure is longer ago than the window.
Marked(p, reason) ==
  LET e == entry[p]
      stale == e.last # Zero /\ now - e.last > Window
      errors == (IF stale THEN 0 ELSE e.errors) + 1
      billing == IF stale THEN 0 ELSE e.billing
  IN IF reason = "billing"
     THEN [errors |-> errors, billing |-> billing + 1, coolEnd |-> e.coolEnd,
           disabled |-> now + BillingCooldown(billing + 1), last |-> now]
     ELSE [errors |-> errors, billing |-> billing, coolEnd |-> now + StandardCooldown(errors),
           disabled |-> e.disabled, last |-> now]

MarkFailure(p, reason) ==
  /\ entry' = [entry EXCEPT ![p] = Marked(p, reason)]
  /\ barred' = [barred EXCEPT ![p] = Greater(entry'[p].coolEnd, entry'[p].disabled)]
  /\ lifted' = lifted \ {p}
  /\ failures' = failures + 1

\* MarkSuccess: everything but LastFailure is cleared.
MarkSuccess(p) ==
  /\ entry' = [entry EXCEPT ![p] = [NoEntry EXCEPT !.last = entry[p].last]]
  /\ lifted' = lifted \cup {p}
  /\ UNCHANGED <<barred, failures>>

-----------------------------------------------------------------------------
(* Execute                                                                 *)

Candidate(r) == Chain[r][call[r].i]
End(r, o) ==
  /\ outcome' = [outcome EXCEPT ![r] = o]
  /\ call' = [call EXCEPT ![r].step = "done"]

\* The next candidate: the context and then the cooldown are looked at.
ChainCancelled(r) ==
  /\ call[r].step = "next" /\ call[r].i <= Len(Chain[r]) /\ r \in ctxDone
  /\ End(r, "canceled")
  /\ UNCHANGED <<now, entry, ctxDone, attempts, barred, lifted, failures>>

Skip(r) ==
  /\ call[r].step = "next" /\ call[r].i <= Len(Chain[r]) /\ r \notin ctxDone
  /\ ~IsAvailable(Candidate(r))
  /\ attempts' = [attempts EXCEPT ![r] = Append(@, "skipped")]
  /\ call' = [call EXCEPT ![r].i = @ + 1]
  /\ UNCHANGED <<now, entry, ctxDone, outcome, barred, lifted, failures>>

Try(r) ==
  /\ call[r].step = "next" /\ call[r].i <= Len(Chain[r]) /\ r \notin ctxDone
  /\ IsAvailable(Candidate(r))
  /\ call' = [call EXCEPT ![r].step = "running"]
  /\ UNCHANGED <<now, entry, ctxDone, attempts, outcome, barred, lifted, failures>>

\* A response counts even if the context was cancelled meanwhile.
Succeed(r) ==
  /\ call[r].step = "running"
  /\ MarkSuccess(Candidate(r))
  /\ End(r, "ok")
  /\ UNCHANGED <<now, ctxDone, attempts, barred, failures>>

\* A cancelled context, an unclassified error and a format error end the chain.
Abort(r) ==
  /\ call[r].step = "running"
  /\ attempts' = [attempts EXCEPT ![r] = Append(@, "aborted")]
  /\ End(r, IF r \in ctxDone THEN "canceled" ELSE "aborted")
  /\ UNCHANGED <<now, entry, ctxDone, barred, lifted, failures>>

\* Any other error bars the provider and the chain goes on.
Fail(r, reason) ==
  /\ call[r].step = "running" /\ r \notin ctxDone /\ failures < MaxFailures
  /\ MarkFailure(Candidate(r), reason)
  /\ attempts' = [attempts EXCEPT ![r] = Append(@, reason)]
  /\ call' = [call EXCEPT ![r] = [step |-> "next", i |-> @.i + 1, retry |-> @.retry]]
  /\ UNCHANGED <<now, ctxDone, outcome>>

\* The chain is over: the aggregate error ends the call, or, if the text of an
\* attempt's error reads like a time-out, runLLMIteration starts it again.
Exhaust(r) ==
  /\ call[r].step = "next" /\ call[r].i > Len(Chain[r])
  /\ \/ End(r, "exhausted") /\ UNCHANGED attempts
     \/ /\ call[r].retry < LLMRetries /\ \E k \in DOMAIN attempts[r] : attempts[r][k] = "other"
        /\ call' = [call EXCEPT ![r] = [FreshCall EXCEPT !.retry = call[r].retry + 1]]
        /\ attempts' = [attempts EXCEPT ![r] = <<>>]
        /\ UNCHANGED outcome
  /\ UNCHANGED <<now, entry, ctxDone, barred, lifted, failures>>

\* A chain that was cut off: a context error makes runLLMIteration compress the
\* history and start again; the next LLM call of the process is a new one.
Again(r) ==
  /\ call[r].step = "done" /\ r \notin ctxDone
  /\ \/ outcome[r] = "aborted" /\ call[r].retry < LLMRetries
        /\ call' = [call EXCEPT ![r] = [FreshCall EXCEPT !.retry = call[r].retry + 1]]
     \/ call' = [call EXCEPT ![r] = FreshCall]
  /\ attempts' = [attempts EXCEPT ![r] = <<>>]
  /\ outcome' = [outcome EXCEPT ![r] = "none"]
  /\ UNCHANGED <<now, entry, ctxDone, barred, lifted, failures>>

Cancel ==
  /\ ctxDone = {}
  /\ ctxDone' = Cancellable
  /\ UNCHANGED <<now, entry, call, attempts, outcome, barred, lifted, failures>>

\* The moments at which a comparison with the clock changes.
Moments ==
  UNION {{entry[p].coolEnd, entry[p].disabled, entry[p].last + Window,
          entry[p].last + Window + 1} : p \in Providers}

Pass ==
  /\ now' \in {t \in Moments : t > now /\ t <= MaxNow}
  /\ UNCHANGED <<entry, ctxDone, call, attempts, outcome, barred, lifted, failures>>

-----------------------------------------------------------------------------
FbNext ==
  \/ Pass \/ Cancel
  \/ \E r \in LLMCalls :
       \/ ChainCancelled(r) \/ Skip(r) \/ Try(r) \/ Succeed(r) \/ Abort(r)
       \/ \E reason \in Retriable : Fail(r, reason)
       \/ Exhaust(r) \/ Again(r)

FbSpec == FbInit /\ [][FbNext]_fbVars

-----------------------------------------------------------------------------
FbTypeOK ==
  /\ now \in Nat /\ failures \in Nat
  /\ entry \in [Providers -> [errors : Nat, billing : Nat, coolEnd : Nat, disabled : Nat,
                              last : Nat]]
  /\ ctxDone \subseteq LLMCalls /\ lifted \subseteq Providers
  /\ call \in [LLMCalls -> [step : {"next", "running", "done"}, i : Nat, retry : 0..LLMRetries]]
  /\ attempts \in [LLMCalls -> Seq(Retriable \cup {"skipped", "aborted"})]
  /\ outcome \in [LLMCalls -> {"none", "ok", "canceled", "aborted", "exhausted"}]
  /\ barred \in [Providers -> Nat]

\* A provider that has failed is called again before its cooldown is over only if
\* another call, under way when it failed, has succeeded meanwhile; and without such a
\* success a further failure never lets it back earlier, although the counters start
\* again after the failure window.
CooldownStep ==
  /\ \A r \in LLMCalls :
       call[r].step = "next" /\ call'[r].step = "running"
         => now >= barred[Candidate(r)] \/ Candidate(r) \in lifted
  /\ \A p \in Providers : p \notin lifted => barred'[p] >= barred[p]

CooldownHolds == [][CooldownStep]_fbVars

\* A request reports that all its candidates failed only when it has an attempt for
\* each of them, and no provider has been called twice in one walk of the chain.
ExhaustedMeansAll ==
  \A r \in LLMCalls :
    /\ outcome[r] = "exhausted" => Len(attempts[r]) = Len(Chain[r])
    /\ Len(attempts[r]) <= Len(Chain[r])

\* Not so in the code: the candidates of a chain that name the same provider share its
\* cooldown, so that the failure of the primary model skips its fallbacks.
FallbackTried ==
  \A r \in LLMCalls :
    outcome[r] = "exhausted" =>
      \A i, k \in DOMAIN attempts[r] :
        i < k /\ attempts[r][i] \in Retriable => attempts[r][k] # "skipped"
=============================================================================
