---------------------------- MODULE Credentials ----------------------------
(***************************************************************************)
(* The credential file (pkg/auth) and the auth methods in the configuration*)
(* under all who change them: the token sources of the Codex and           *)
(* Antigravity providers, which refresh a token when a request needs it,   *)
(* the auth commands, and the launcher's login handlers.  Each of them     *)
(* reads the whole file, changes one entry and writes the whole file back; *)
(* no lock spans the two, and the processes may be different ones.         *)
(*                                                                         *)
(* A credential is the number of its access token, the number of its       *)
(* refresh token (0: none) and whether its project id is known.            *)
(***************************************************************************)
EXTENDS Naturals, Sequences, FiniteSets

CONSTANTS
  AuthProviders,  \* keys of the credential file
  Rotating,       \* providers whose issuer replaces the refresh token at every refresh
  Projects,       \* providers whose requests need a project id (google-antigravity)
  AuthProcs,      \* goroutines and processes at work on the files
  Stored,         \* sequence of the providers the file has a credential of at first
  States,         \* OAuth states the launcher may generate
  MaxOps,         \* bound on the operations of a behaviour
  MaxIssued       \* bound on the tokens an issuer hands out

ASSUME AuthAssumption ==
  /\ Rotating \subseteq AuthProviders /\ Projects \subseteq AuthProviders
  /\ Stored \in Seq(AuthProviders)
  /\ MaxOps \in Nat /\ MaxIssued \in Nat /\ Len(Stored) <= MaxIssued

VARIABLES
  file,      \* auth.json: the credential of each provider, or None
  config,    \* config.json: the providers whose auth_method is set
  accepted,  \* refresh tokens the issuers accept
  issued,    \* number of the last token handed out
  due,       \* access tokens that have less than five minutes left
  task,      \* task[q]: what q is doing
  sessions,  \* oauthSessions: states waiting for their callback
  active,    \* activeDeviceSession: the process that polls for it
  ops,       \* operations begun
  redeemed,  \* history: how often each state led to an exchange
  out,       \* history: providers logged out and not logged in again
  lapsed,    \* history: providers whose entry was written over by a process that
             \* had not seen it, or whose new tokens were lost on the way
  unsure     \* history: providers whose auth_method could not be brought up to date,
             \* or was written over by a process that had not seen it

crVars == <<file, config, accepted, issued, due, task, sessions, active, ops, redeemed,
          out, lapsed, unsure>>

None == [access |-> 0, refresh |-> 0, project |-> FALSE]
Fresh(n) == [access |-> n, refresh |-> n, project |-> FALSE]
Nobody == "nobody"
NoProvider == "no provider"

Work(kind, x, step) ==
  [kind |-> kind, step |-> step, provider |-> x, cred |-> None, base |-> None,
   store |-> [y \in AuthProviders |-> None], methods |-> {}]
Idle == Work("none", NoProvider, "idle")

CrInit ==
  /\ file = [x \in AuthProviders |-> 
              IF \E n \in DOMAIN Stored : Stored[n] = x
              THEN Fresh(CHOOSE n \in DOMAIN Stored : Stored[n] = x) ELSE None]
  /\ config = {Stored[n] : n \in DOMAIN Stored}
  /\ accepted = DOMAIN Stored /\ issued = Len(Stored) /\ due = {}
  /\ task = [q \in AuthProcs |-> Idle]
  /\ sessions = {} /\ active = Nobody
  /\ ops = 0
  /\ redeemed = [s \in States |-> 0]
  /\ out = {} /\ lapsed = {} /\ unsure = {}

At(q, step) == task[q].step = step
X(q) == task[q].provider
Set(q, record) == task' = [task EXCEPT ![q] = record]
Moved(q, step) == [task[q] EXCEPT !.step = step]
GoOn(q, step) == Set(q, Moved(q, step))
Done(q) == Set(q, Idle)

BeginWork(q, kind, x, step) ==
  /\ At(q, "idle") /\ ops < MaxOps
  /\ ops' = ops + 1
  /\ Set(q, Work(kind, x, step))

Lost(xs) == lapsed' = lapsed \cup xs

-----------------------------------------------------------------------------
(* Token sources                                                           *)

NeedsRefresh(cred) == cred.access \in due

\* What follows once the token is good: Antigravity looks up a missing project.
AfterToken(q, cred) ==
  IF task[q].kind = "use" /\ X(q) \in Projects /\ ~cred.project THEN "project" ELSE "idle"

Continue(q, cred, step) ==
  IF step = "idle" THEN Done(q)
  ELSE Set(q, [[Moved(q, step) EXCEPT !.cred = cred] EXCEPT !.base = cred])

\* createCodexTokenSource, createAntigravityTokenSource, authModelsCmd: the
\* credential is read; without one the request fails.
UseBegin(q) ==
  /\ \E x \in AuthProviders, kind \in {"use", "models"} :
       /\ kind = "models" => x \in Projects
       /\ BeginWork(q, kind, x, "get")
  /\ UNCHANGED <<file, config, accepted, issued, due, sessions, active, redeemed, out,
                 lapsed, unsure>>

UseGet(q) ==
  LET cred == file[X(q)] IN
  /\ At(q, "get")
  /\ IF cred = None THEN Done(q)
     ELSE \/ Continue(q, cred, IF NeedsRefresh(cred) /\ cred.refresh # 0 THEN "refresh"
                               ELSE AfterToken(q, cred))
          \/ NeedsRefresh(cred) /\ cred.refresh = 0 /\ Done(q)   \* expired
  /\ UNCHANGED <<file, config, accepted, issued, due, sessions, active, ops, redeemed,
                 out, lapsed, unsure>>

\* Mutant of Refreshed: a response without a refresh token leaves none.
RefreshedBare(cred, access, refresh) ==
  [access |-> access, refresh |-> refresh, project |-> cred.project]

\* RefreshAccessToken: what the response leaves out is taken from the old one.
Refreshed(cred, access, refresh) ==
  [access |-> access, refresh |-> IF refresh = 0 THEN cred.refresh ELSE refresh,
   project |-> cred.project]

\* The issuer answers, refuses an old token, cannot be reached, or its answer is lost.
UseRefresh(q) ==
  LET cred == task[q].cred IN
  /\ At(q, "refresh")
  /\ \/ Done(q) /\ UNCHANGED <<accepted, issued, lapsed, unsure>>
     \/ /\ cred.refresh \in accepted /\ issued < MaxIssued
        /\ issued' = issued + 1
        /\ accepted' = IF X(q) \in Rotating
                       THEN (accepted \ {cred.refresh}) \cup {issued'} ELSE accepted
        /\ \/ Done(q) /\ Lost({X(q)})
           \/ /\ Set(q, [Moved(q, "load") EXCEPT !.cred =
                           Refreshed(cred, issued', IF X(q) \in Rotating THEN issued' ELSE 0)])
              /\ UNCHANGED lapsed
  /\ UNCHANGED <<file, config, due, sessions, active, ops, redeemed, out, unsure>>

\* FetchAntigravityProjectID: when it fails a fixed project is used and not saved.
UseProject(q) ==
  /\ At(q, "project")
  /\ \/ Done(q)
     \/ Set(q, [Moved(q, "load") EXCEPT !.cred =
                 [access |-> @.access, refresh |-> @.refresh, project |-> TRUE]])
  /\ UNCHANGED <<file, config, accepted, issued, due, sessions, active, ops, redeemed,
                 out, lapsed, unsure>>

-----------------------------------------------------------------------------
(* SetCredential, DeleteCredential, and the configuration                  *)

Polling(q) == task[q].kind \in {"device", "deviceCommand"}

\* A refreshed token that is not stored is gone; a login can be repeated.
Refreshing(q) == task[q].kind \in {"use", "models"}

\* LoadStore; an unreadable file ends the operation.
LoadStore(q) ==
  /\ At(q, "load")
  /\ \/ Set(q, [Moved(q, "save") EXCEPT !.store = file]) /\ UNCHANGED lapsed
     \/ Done(q) /\ Lost(IF Refreshing(q) THEN {X(q)} ELSE {})
  /\ UNCHANGED <<file, config, accepted, issued, due, sessions, active, ops, redeemed, out,
                 unsure>>

\* What q's write takes away without having seen it.
Unseen(q) ==
  {x \in AuthProviders \ {X(q)} : file[x] # task[q].store[x]}
    \cup {x \in {X(q)} : \/ Refreshing(q) /\ file[x] # task[q].base
                         \/ task[q].kind = "logoutAlias" /\ file[x] # task[q].store[x]}

AfterStored(q) ==
  IF Refreshing(q)
  THEN Continue(q, task[q].cred, AfterToken(q, task[q].cred))
  ELSE GoOn(q, "loadConfig")

\* SaveStore: the whole file is replaced, or the write fails and it stays.
SaveStore(q) ==
  /\ At(q, "save")
  /\ \/ /\ file' = IF task[q].kind = "logoutAlias" THEN task[q].store
                 ELSE [task[q].store EXCEPT ![X(q)] = task[q].cred]
        /\ lapsed' = (IF Refreshing(q) \/ task[q].kind = "logoutAlias" THEN lapsed
                        ELSE lapsed \ {X(q)}) \cup Unseen(q)
        /\ out' = CASE task[q].kind = "logout" -> out \cup {X(q)}
                    [] task[q].kind = "login" \/ Polling(q) -> out \ {X(q)}
                    [] OTHER -> out
        /\ AfterStored(q)
     \/ /\ Done(q) /\ Lost(IF Refreshing(q) THEN {X(q)} ELSE {})
        /\ UNCHANGED <<file, out, unsure>>
  /\ UNCHANGED <<config, accepted, issued, due, sessions, active, ops, redeemed, unsure>>

\* updateConfigAfterLogin, clearAuthMethodInConfig and their twins in the auth
\* command: an unreadable configuration is left alone.
About(q) == IF task[q].kind = "logoutAll" THEN AuthProviders ELSE {X(q)}

LoadConfig(q) ==
  /\ At(q, "loadConfig")
  /\ \/ Set(q, [Moved(q, "saveConfig") EXCEPT !.methods = config])
        /\ UNCHANGED unsure
     \/ Done(q) /\ unsure' = unsure \cup About(q)
  /\ UNCHANGED <<file, config, accepted, issued, due, sessions, active, ops, redeemed,
                 out, lapsed>>

\* The method belongs to the credential that is in the file by now.
Matches(x) == (x \in config') = (file[x] # None)

SaveConfig(q) ==
  /\ At(q, "saveConfig")
  /\ \/ /\ config' = CASE task[q].kind \in {"logout", "logoutAlias"} -> task[q].methods \ {X(q)}
                      [] task[q].kind = "logoutAll" -> {}
                      [] OTHER -> task[q].methods \cup {X(q)}
        /\ unsure' = {x \in unsure : x \notin About(q)}
                       \cup {x \in AuthProviders : x \notin About(q)
                               /\ (x \in config) # (x \in task[q].methods)}
                       \cup {x \in About(q) : ~Matches(x)}
     \/ /\ UNCHANGED config /\ unsure' = unsure \cup About(q)
  /\ Done(q)
  /\ UNCHANGED <<file, accepted, issued, due, sessions, active, ops, redeemed, out, lapsed>>

-----------------------------------------------------------------------------
(* Logins and logouts                                                      *)

\* authLoginOpenAI, authLoginGoogleAntigravity, authLoginPasteToken and
\* handleAnthropicLogin: through a browser, by a device code, or with a token as it is.
LoginCommand(q) ==
  /\ \E x \in AuthProviders :
       \/ BeginWork(q, "login", x, "browser")
       \/ BeginWork(q, "login", x, "exchange")
       \/ x \notin Projects /\ BeginWork(q, "deviceCommand", x, "poll")
  /\ UNCHANGED <<file, config, accepted, issued, due, sessions, active, redeemed, out,
                 lapsed, unsure>>

\* LoginBrowser: a callback of the right state or a pasted code; any other answer or
\* five minutes end the login.
Browser(q) ==
  /\ At(q, "browser")
  /\ Done(q) \/ GoOn(q, "exchange")
  /\ UNCHANGED <<file, config, accepted, issued, due, sessions, active, ops, redeemed,
                 out, lapsed, unsure>>

\* pollDeviceCode until it has a code or the deadline passes.
Poll(q) ==
  /\ At(q, "poll")
  /\ Done(q) \/ GoOn(q, "exchange")
  /\ UNCHANGED <<file, config, accepted, issued, due, sessions, active, ops, redeemed,
                 out, lapsed, unsure>>

\* ExchangeCodeForTokens, or a pasted token, which has no refresh token.  An error
\* ends the login, unless it polls.
Exchange(q) ==
  /\ At(q, "exchange")
  /\ \/ /\ IF Polling(q) THEN GoOn(q, "poll") ELSE Done(q)
        /\ UNCHANGED <<accepted, issued>>
     \/ /\ issued < MaxIssued
        /\ issued' = issued + 1
        /\ \E refresh \in {0, issued'}, project \in BOOLEAN :
             /\ project => X(q) \in Projects
             /\ accepted' = accepted \cup ({refresh} \ {0})
             /\ Set(q, [Moved(q, "load") EXCEPT !.cred =
                          [access |-> issued', refresh |-> refresh, project |-> project]])
  /\ UNCHANGED <<file, config, due, sessions, active, ops, redeemed, out, lapsed, unsure>>

\* handleGoogleAntigravityLogin: a state of its own, forgotten after ten minutes.
LoginStart(s) ==
  /\ s \notin sessions /\ redeemed[s] = 0
  /\ sessions' = sessions \cup {s}
  /\ UNCHANGED <<file, config, accepted, issued, due, task, active, ops, redeemed, out,
                 lapsed, unsure>>

SessionExpires(s) ==
  /\ s \in sessions
  /\ sessions' = sessions \ {s}
  /\ UNCHANGED <<file, config, accepted, issued, due, task, active, ops, redeemed, out,
                 lapsed, unsure>>

\* handleOAuthCallback: the state is taken out before the code is exchanged.
OAuthCallback(q, s) ==
  /\ s \in sessions
  /\ sessions' = sessions \ {s}
  /\ redeemed' = [redeemed EXCEPT ![s] = @ + 1]
  /\ \E x \in Projects : BeginWork(q, "login", x, "exchange")
  /\ UNCHANGED <<file, config, accepted, issued, due, active, out, lapsed, unsure>>

DevicePending == active # Nobody /\ task[active].kind = "device" /\ ~At(active, "request")

\* handleOpenAILogin: unless a device login is pending, a code is requested, and the
\* session stored afterwards takes the place of whatever is there by then.
DeviceLogin(q) ==
  /\ ~DevicePending
  /\ \E x \in AuthProviders \ Projects : BeginWork(q, "device", x, "request")
  /\ UNCHANGED <<file, config, accepted, issued, due, sessions, active, redeemed, out,
                 lapsed, unsure>>

DeviceRequest(q) ==
  /\ At(q, "request")
  /\ \/ Done(q) /\ UNCHANGED active
     \/ GoOn(q, "poll") /\ active' = q
  /\ UNCHANGED <<file, config, accepted, issued, due, sessions, ops, redeemed, out,
                 lapsed, unsure>>

\* GET /api/auth/status forgets a device login that has ended.
StatusForgets ==
  /\ active # Nobody /\ ~DevicePending
  /\ active' = Nobody
  /\ UNCHANGED <<file, config, accepted, issued, due, task, sessions, ops, redeemed, out,
                 lapsed, unsure>>

\* authLogoutCmd and POST /api/auth/logout for one provider.
Logout(q) ==
  /\ \E x \in AuthProviders : BeginWork(q, "logout", x, "load")
  /\ UNCHANGED <<file, config, accepted, issued, due, sessions, active, redeemed, out,
                 lapsed, unsure>>

\* authLogoutCmd for the name "antigravity": the key it deletes is never in the
\* file, while the methods it clears are those of google-antigravity.
LogoutAlias(q) ==
  /\ \E x \in Projects : BeginWork(q, "logoutAlias", x, "load")
  /\ UNCHANGED <<file, config, accepted, issued, due, sessions, active, redeemed, out,
                 lapsed, unsure>>

\* authLogoutCmd without a provider: DeleteAllCredentials removes the file.
LogoutAll(q) ==
  /\ BeginWork(q, "logoutAll", NoProvider, "loadConfig")
  /\ file' = [x \in AuthProviders |-> None]
  /\ out' = AuthProviders
  /\ lapsed' = {}
  /\ UNCHANGED <<config, accepted, issued, due, sessions, active, redeemed, unsure>>

\* Time passes: a token in the file comes close to its end.
Ages(x) ==
  /\ file[x] # None /\ file[x].access \notin due
  /\ due' = due \cup {file[x].access}
  /\ UNCHANGED <<file, config, accepted, issued, task, sessions, active, ops, redeemed, out,
                 lapsed, unsure>>

CrNext ==
  \/ \E q \in AuthProcs :
       \/ UseBegin(q) \/ UseGet(q) \/ UseRefresh(q) \/ UseProject(q)
       \/ LoadStore(q) \/ SaveStore(q) \/ LoadConfig(q) \/ SaveConfig(q)
       \/ LoginCommand(q) \/ Browser(q) \/ Poll(q) \/ Exchange(q)
       \/ DeviceLogin(q) \/ DeviceRequest(q)
       \/ Logout(q) \/ LogoutAlias(q) \/ LogoutAll(q)
       \/ \E s \in States : OAuthCallback(q, s)
  \/ StatusForgets
  \/ \E s \in States : LoginStart(s) \/ SessionExpires(s)
  \/ \E x \in AuthProviders : Ages(x)

CrSpec == CrInit /\ [][CrNext]_crVars

-----------------------------------------------------------------------------
(* Properties                                                              *)

Creds == [access : 0..MaxIssued, refresh : 0..MaxIssued, project : BOOLEAN]

CredentialsTypeOK ==
  /\ file \in [AuthProviders -> Creds]
  /\ config \subseteq AuthProviders
  /\ accepted \subseteq 1..MaxIssued /\ issued \in 0..MaxIssued /\ due \subseteq 1..MaxIssued
  /\ sessions \subseteq States /\ active \in AuthProcs \cup {Nobody}
  /\ ops \in 0..MaxOps
  /\ out \subseteq AuthProviders /\ lapsed \subseteq AuthProviders
  /\ unsure \subseteq AuthProviders

\* A refresh token in the file is one its issuer still accepts, or its successor is
\* on its way to the file; and a credential that could be refreshed is replaced by
\* one that can: except where a process wrote over an entry it had not seen or a new
\* token was lost.
OnItsWay(x) ==
  \E q \in AuthProcs : Refreshing(q) /\ X(q) = x /\ task[q].step \in {"load", "save"}

TokenStillGood ==
  \A x \in AuthProviders \ lapsed :
    file[x].refresh # 0 => file[x].refresh \in accepted \/ OnItsWay(x)

RefreshStays ==
  \A q \in AuthProcs : Refreshing(q) /\ task[q].step \in {"load", "save"} =>
    (task[q].base.refresh # 0 => task[q].cred.refresh # 0)

\* Whoever has logged out stays logged out, with the same exceptions.
LoggedOutStays == \A x \in out \ lapsed : file[x] = None

\* No OAuth state is exchanged twice, whatever callbacks come.
StateUsedOnce == \A s \in States : redeemed[s] <= 1

\* The configuration names a method for exactly the providers with a credential,
\* except while one is being changed, after a race or a failed write, and after a
\* logout by the name "antigravity".
ConfigFollows ==
  \A x \in AuthProviders \ (lapsed \cup unsure) :
    \/ x \in config <=> file[x] # None
    \/ \E q \in AuthProcs : ~Refreshing(q) /\ x \in About(q)
                         /\ task[q].step \in {"loadConfig", "saveConfig"}

CredentialsSound ==
  TokenStillGood /\ RefreshStays /\ LoggedOutStays /\ StateUsedOnce /\ ConfigFollows

=============================================================================
