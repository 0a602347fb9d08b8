----------------------------- MODULE McpManager -----------------------------
(***************************************************************************)
(* pkg/mcp/manager.go: Run (pkg/agent/loop.go) connects the configured      *)
(* servers, each on a goroutine, and waits for them; rounds of the loop, of *)
(* cron and of the heartbeat call their tools; Run returns when its context *)
(* has ended, and closes the manager.  The processes of stdio servers have  *)
(* the same context, so most of them are killed before Close comes to their *)
(* sessions.  The protocol, the transports and the environment of a server  *)
(* process are left out: a connection succeeds, fails, and may end.         *)
(***************************************************************************)
EXTENDS Naturals

CONSTANTS
  Servers,  \* enabled servers of the configuration
  ToolCalls \* calls of CallTool

NoServer == "none"

VARIABLES
  loading,  \* LoadFromMCPConfig: "loading", "loaded", "failed"
  connect,  \* connect[s]: "connecting", "connected" (a session), "stored", "failed"
  session,  \* servers with a session that Close has not closed
  gone,     \* servers whose process, or connection, has ended under their session
  servers,  \* keys of m.servers
  runCtx,   \* the context of Run: "live", "ended"
  mcpState, \* the manager: "open", "waiting" (closed is set), "closed"
  closeErrs,\* the servers that Close reports it failed to close
  toolCall, \* toolCall[c]: "idle", "calling", "done", "error", "refused"
  target    \* target[c]: the server of call c

mcpVars == <<loading, connect, session, gone, servers, runCtx, mcpState, closeErrs,
             toolCall, target>>

McpInit ==
  /\ loading = "loading"
  /\ connect = [s \in Servers |-> "connecting"]
  /\ session = {} /\ gone = {} /\ servers = {}
  /\ runCtx = "live" /\ mcpState = "open" /\ closeErrs = {}
  /\ toolCall = [c \in ToolCalls |-> "idle"] /\ target = [c \in ToolCalls |-> NoServer]

\* ConnectServer: the session is made without the lock ...
Connect(s) ==
  /\ connect[s] = "connecting"
  /\ \/ connect' = [connect EXCEPT ![s] = "connected"] /\ session' = session \cup {s}
     \/ connect' = [connect EXCEPT ![s] = "failed"] /\ UNCHANGED session
  /\ UNCHANGED <<loading, gone, servers, runCtx, mcpState, closeErrs, toolCall, target>>

\* ... and stored with it, even if the server is gone by then.
Store(s) ==
  /\ connect[s] = "connected"
  /\ connect' = [connect EXCEPT ![s] = "stored"]
  /\ servers' = servers \cup {s}
  /\ UNCHANGED <<loading, session, gone, runCtx, mcpState, closeErrs, toolCall, target>>

\* All goroutines are over; it is a failure only if no server could be connected.
Loaded ==
  /\ loading = "loading" /\ \A s \in Servers : connect[s] \in {"stored", "failed"}
  /\ loading' = IF servers = {} THEN "failed" ELSE "loaded"
  /\ UNCHANGED <<connect, session, gone, servers, runCtx, mcpState, closeErrs, toolCall,
                 target>>

\* The gateway cancels the context of Run, at any time.
ContextEnds ==
  /\ runCtx = "live"
  /\ runCtx' = "ended"
  /\ UNCHANGED <<loading, connect, session, gone, servers, mcpState, closeErrs, toolCall,
                 target>>

\* A server's process ends, or its connection: by itself at any time, and a stdio
\* server's because exec.CommandContext kills it at the end of the context.
ServerEnds(s) ==
  /\ s \in session \ gone
  /\ gone' = gone \cup {s}
  /\ UNCHANGED <<loading, connect, session, servers, runCtx, mcpState, closeErrs,
                 toolCall, target>>

\* CallTool under the read lock; the tools are registered when loading is over, and
\* other goroutines keep them after the manager is closed.
CallLook(c, s) ==
  /\ toolCall[c] = "idle" /\ loading = "loaded" /\ connect[s] = "stored"
  /\ IF mcpState = "open" /\ s \in servers
     THEN /\ toolCall' = [toolCall EXCEPT ![c] = "calling"]
          /\ target' = [target EXCEPT ![c] = s]
     ELSE toolCall' = [toolCall EXCEPT ![c] = "refused"] /\ UNCHANGED target
  /\ UNCHANGED <<loading, connect, session, gone, servers, runCtx, mcpState, closeErrs>>

\* The call is answered, unless the server is gone, or fails: with the context of a
\* round of Run, or with the server.
CallEnds(c) ==
  /\ toolCall[c] = "calling"
  /\ \/ /\ target[c] \notin gone
        /\ toolCall' = [toolCall EXCEPT ![c] = "done"]
     \/ toolCall' = [toolCall EXCEPT ![c] = "error"]
  /\ UNCHANGED <<loading, connect, session, gone, servers, runCtx, mcpState, closeErrs,
                 target>>

\* Close, deferred by Run, whose loop only the end of the context leaves: first new
\* calls are refused ...
CloseMark ==
  /\ loading = "loaded" /\ mcpState = "open" /\ runCtx = "ended"
  /\ mcpState' = "waiting"
  /\ UNCHANGED <<loading, connect, session, gone, servers, runCtx, closeErrs, toolCall,
                 target>>

\* Mutant of CloseSessions: it does not wait for the calls in flight.
CloseSessionsAtOnce ==
  /\ mcpState = "waiting"
  /\ mcpState' = "closed"
  /\ session' = session \ servers /\ closeErrs' = {}
  /\ servers' = {}
  /\ UNCHANGED <<loading, connect, gone, runCtx, toolCall, target>>

\* ... and when those in flight are over the sessions are closed.  Any of them may
\* fail to close, a killed server's most of all, and some of these stay open; the map
\* is emptied all the same, and the errors go to Run, which logs them.
CloseSessions ==
  /\ mcpState = "waiting" /\ \A c \in ToolCalls : toolCall[c] # "calling"
  /\ mcpState' = "closed"
  /\ \E errs \in SUBSET servers : \E left \in SUBSET errs :
       /\ closeErrs' = errs
       /\ session' = (session \ servers) \cup left
  /\ servers' = {}
  /\ UNCHANGED <<loading, connect, gone, runCtx, toolCall, target>>

McpNext ==
  \/ \E s \in Servers : Connect(s) \/ Store(s) \/ ServerEnds(s)
  \/ Loaded \/ ContextEnds \/ CloseMark \/ CloseSessions
  \/ \E c \in ToolCalls : CallEnds(c) \/ \E s \in Servers : CallLook(c, s)

McpSpec == McpInit /\ [][McpNext]_mcpVars

-----------------------------------------------------------------------------
McpTypeOK ==
  /\ loading \in {"loading", "loaded", "failed"}
  /\ connect \in [Servers -> {"connecting", "connected", "stored", "failed"}]
  /\ session \subseteq Servers /\ gone \subseteq Servers /\ servers \subseteq Servers
  /\ runCtx \in {"live", "ended"}
  /\ mcpState \in {"open", "waiting", "closed"}
  /\ closeErrs \subseteq Servers
  /\ toolCall \in [ToolCalls -> {"idle", "calling", "done", "error", "refused"}]
  /\ target \in [ToolCalls -> Servers \cup {NoServer}]

\* Close takes no session from a call in flight, whenever Run returns (the call may
\* still lose the server itself); and a closed manager has closed every session that
\* was ever made, so no server is left running, but those whose error it reports.
CloseIsClean ==
  /\ \A c \in ToolCalls : toolCall[c] = "calling" => target[c] \in session
  /\ mcpState = "closed" => session \subseteq closeErrs
=============================================================================
