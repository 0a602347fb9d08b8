---------------------------- MODULE SocketServers ----------------------------
(***************************************************************************)
(* The channels that clients dial into: Pico's WebSockets                  *)
(* (pkg/channels/pico/pico.go) and the MaixCam's TCP server                *)
(* (pkg/channels/maixcam/maixcam.go).  Connections come and go, one        *)
(* message is written to all that should have it, and the channel is       *)
(* stopped in the middle of everything.                                    *)
(***************************************************************************)
EXTENDS Naturals, FiniteSets

CONSTANTS
  ServerKinds,  \* "pico", "maixcam"
  Clients,      \* connections, each made at most once
  Listeners,    \* Pico: the clients whose session the message is for
  Leaving,      \* the clients that may leave
  Limit,        \* MaxConnections of the Pico configuration
  SendRetries   \* maxRetries of the manager

ASSUME ServersAssumption ==
  /\ ServerKinds \subseteq {"pico", "maixcam"} /\ IsFiniteSet(Clients)
  /\ Limit \in Nat /\ SendRetries \in Nat

VARIABLES
  kind,          \* the channel, "none" before it is started
  running,       \* BaseChannel's flag
  contextEnded,  \* the channel's context has ended
  stopPc,        \* Stop: "no", its steps, "done"
  stopTodo,      \* Pico: the entries Stop has yet to close
  acceptor,      \* MaixCam: "check", "accept", "add", "done"
  listening,     \* MaixCam: the listener is open
  loopAt,        \* loopAt[c]: where the goroutine of a connection is
  table,         \* the connections map (Pico), the clients map (MaixCam)
  closed,        \* connections closed on this side
  left,          \* clients that have closed theirs
  silent,        \* clients that have vanished without closing it
  count,         \* Pico: connCount
  sendPc,        \* "idle", "writing", "wait" or how the message ended
  owed,          \* the connections there when the attempt began
  visited,       \* those it has come to
  stable,        \* those that could hear when the attempt began
  taken,         \* those whose write went through
  attempt,       \* retries
  heard          \* heard[c]: copies that arrived

svVars == <<kind, running, contextEnded, stopPc, stopTodo, acceptor, listening, loopAt, table,
            closed, left, silent, count, sendPc, owed, visited, stable, taken, attempt, heard>>
channelVars == <<kind, running, contextEnded, stopPc, stopTodo, acceptor, listening>>
connVars == <<loopAt, table, closed, left, silent, count>>
sendVars == <<sendPc, owed, visited, stable, taken, attempt, heard>>

SvInit ==
  /\ kind = "none" /\ running = FALSE /\ contextEnded = FALSE
  /\ stopPc = "no" /\ stopTodo = {} /\ acceptor = "check" /\ listening = FALSE
  /\ loopAt = [c \in Clients |-> "away"]
  /\ table = {} /\ closed = {} /\ left = {} /\ silent = {} /\ count = 0
  /\ sendPc = "idle" /\ owed = {} /\ visited = {} /\ stable = {} /\ taken = {}
  /\ attempt = 0 /\ heard = [c \in Clients |-> 0]

ServerStarts(k) ==
  /\ kind = "none"
  /\ kind' = k /\ running' = TRUE /\ listening' = (k = "maixcam")
  /\ UNCHANGED <<contextEnded, stopPc, stopTodo, acceptor, connVars, sendVars>>

Goes(c, from, to) == loopAt[c] = from /\ loopAt' = [loopAt EXCEPT ![c] = to]

\* MaixCam's Send holds clientsMux from its first write to its last.
Unlocked == kind = "maixcam" => sendPc # "writing"

-----------------------------------------------------------------------------
(* Connections                                                             *)

\* handleWebSocket up to the upgrade, which happens after the limit was looked at.
Knock(c, authentic) ==
  /\ kind = "pico"
  /\ Goes(c, "away", IF running /\ authentic /\ count < Limit THEN "shaking" ELSE "ended")
  /\ UNCHANGED <<channelVars, table, closed, left, silent, count, sendVars>>

Upgrade(c) ==
  /\ IF c \in left THEN Goes(c, "shaking", "ended") /\ UNCHANGED table
     ELSE Goes(c, "shaking", "stored") /\ table' = table \cup {c}
  /\ UNCHANGED <<channelVars, closed, left, silent, count, sendVars>>

Count(c) ==
  /\ Goes(c, "stored", "top")
  /\ count' = count + 1
  /\ UNCHANGED <<channelVars, table, closed, left, silent, sendVars>>

\* acceptConnections: the context, the listener, the map, and again.
AcceptorChecks ==
  /\ kind = "maixcam" /\ acceptor = "check"
  /\ acceptor' = IF contextEnded THEN "done" ELSE "accept"
  /\ UNCHANGED <<kind, running, contextEnded, stopPc, stopTodo, listening, connVars, sendVars>>

Accept(c) ==
  /\ kind = "maixcam" /\ acceptor = "accept" /\ listening
  /\ Goes(c, "away", "accepted")
  /\ acceptor' = "add"
  /\ UNCHANGED <<kind, running, contextEnded, stopPc, stopTodo, listening,
                 table, closed, left, silent, count, sendVars>>

AcceptFails ==
  /\ acceptor = "accept" /\ ~listening
  /\ acceptor' = "done"
  /\ UNCHANGED <<kind, running, contextEnded, stopPc, stopTodo, listening, connVars, sendVars>>

AddClient(c) ==
  /\ Unlocked
  /\ Goes(c, "accepted", "top")
  /\ table' = table \cup {c} /\ acceptor' = "check"
  /\ UNCHANGED <<kind, running, contextEnded, stopPc, stopTodo, listening,
                 closed, left, silent, count, sendVars>>

\* Mutant of Top: the loop does not look at the context.
TopForever(c) ==
  /\ Goes(c, "top", "reading")
  /\ UNCHANGED <<channelVars, table, closed, left, silent, count, sendVars>>

\* readLoop and handleConnection: look at the context, then read.
Top(c) ==
  /\ Goes(c, "top", IF contextEnded THEN "leaving" ELSE "reading")
  /\ UNCHANGED <<channelVars, table, closed, left, silent, count, sendVars>>

\* A message; one that is no JSON is the end of a MaixCam's connection.
Says(c, garbage) ==
  /\ c \notin left \cup silent \cup closed
  /\ Goes(c, "reading", IF garbage /\ kind = "maixcam" THEN "leaving" ELSE "top")
  /\ UNCHANGED <<channelVars, table, closed, left, silent, count, sendVars>>

ReadFails(c) ==
  /\ c \in left \cup closed
  /\ Goes(c, "reading", "leaving")
  /\ UNCHANGED <<channelVars, table, closed, left, silent, count, sendVars>>

\* Pico's read deadline is moved by every pong, and there are pings until the context
\* ends.
DeadlinePasses(c) ==
  /\ kind = "pico" /\ (contextEnded \/ c \in silent)
  /\ Goes(c, "reading", "leaving")
  /\ UNCHANGED <<channelVars, table, closed, left, silent, count, sendVars>>

\* What the goroutine defers.
Close(c) ==
  /\ Goes(c, "leaving", "closed")
  /\ closed' = closed \cup {c}
  /\ UNCHANGED <<channelVars, table, left, silent, count, sendVars>>

Delete(c) ==
  /\ Unlocked
  /\ Goes(c, "closed", IF kind = "pico" THEN "uncount" ELSE "ended")
  /\ table' = table \ {c}
  /\ UNCHANGED <<channelVars, closed, left, silent, count, sendVars>>

Uncount(c) ==
  /\ Goes(c, "uncount", "ended")
  /\ count' = count - 1
  /\ UNCHANGED <<channelVars, table, closed, left, silent, sendVars>>

ClientLeaves(c) ==
  /\ c \in Leaving /\ loopAt[c] \notin {"away", "ended"} /\ c \notin left \cup silent
  /\ \/ left' = left \cup {c} /\ UNCHANGED silent
     \/ silent' = silent \cup {c} /\ UNCHANGED left
  /\ UNCHANGED <<channelVars, loopAt, table, closed, count, sendVars>>

-----------------------------------------------------------------------------
(* Stop                                                                    *)

ServerStops ==
  /\ kind # "none" /\ stopPc = "no"
  /\ running' = FALSE
  /\ stopPc' = IF kind = "pico" THEN "close" ELSE "cancel"
  /\ stopTodo' = IF kind = "pico" THEN table ELSE {}
  /\ UNCHANGED <<kind, contextEnded, acceptor, listening, connVars, sendVars>>

\* Pico ranges over the map; an entry stored meanwhile may be visited or missed.
CloseOne(c) ==
  /\ stopPc = "close" /\ c \in table
  /\ closed' = closed \cup {c} /\ table' = table \ {c} /\ stopTodo' = stopTodo \ {c}
  /\ UNCHANGED <<kind, running, contextEnded, stopPc, acceptor, listening,
                 loopAt, left, silent, count, sendVars>>

EndContext ==
  /\ stopPc = "cancel" \/ (stopPc = "close" /\ stopTodo \cap table = {})
  /\ contextEnded' = TRUE
  /\ stopPc' = IF kind = "pico" THEN "done" ELSE "listener"
  /\ UNCHANGED <<kind, running, stopTodo, acceptor, listening, connVars, sendVars>>

StopListener ==
  /\ stopPc = "listener"
  /\ listening' = FALSE /\ stopPc' = "clients"
  /\ UNCHANGED <<kind, running, contextEnded, stopTodo, acceptor, connVars, sendVars>>

StopClients ==
  /\ stopPc = "clients" /\ Unlocked
  /\ closed' = closed \cup table /\ table' = {} /\ stopPc' = "done"
  /\ UNCHANGED <<kind, running, contextEnded, stopTodo, acceptor, listening,
                 loopAt, left, silent, count, sendVars>>

-----------------------------------------------------------------------------
(* Send, under the worker's retries                                        *)

Good(c) == c \in table \ (closed \cup left \cup silent)
Addressed == IF kind = "pico" THEN Listeners ELSE Clients

\* What the worker makes of an error it may retry.
SendAgain(n) == IF n = SendRetries THEN "failed" ELSE "wait"

\* MaixCam reports an error, of no class, when it has no client.
SendBegin ==
  /\ kind # "none" /\ sendPc \in {"idle", "wait"}
  /\ attempt' = IF sendPc = "wait" THEN attempt + 1 ELSE attempt
  /\ stable' = {c \in Addressed : Good(c)}
  /\ owed' = table \cap Addressed /\ visited' = {} /\ taken' = {}
  /\ sendPc' = IF ~running THEN "notRunning"
               ELSE IF kind = "maixcam" /\ table = {} THEN SendAgain(attempt')
               ELSE "writing"
  /\ UNCHANGED <<channelVars, connVars, heard>>

\* The next entry: for Pico one that was there at the beginning or came since.  A write
\* to a client that is gone may still seem to go through.
WriteTo(c, goesThrough) ==
  /\ sendPc = "writing" /\ c \in (table \cap Addressed) \ visited
  /\ Good(c) => goesThrough
  /\ c \in closed => ~goesThrough
  /\ visited' = visited \cup {c}
  /\ taken' = IF goesThrough THEN taken \cup {c} ELSE taken
  /\ heard' = IF Good(c) THEN [heard EXCEPT ![c] = @ + 1] ELSE heard
  /\ UNCHANGED <<channelVars, connVars, sendPc, owed, stable, attempt>>

\* Mutant of SendEnd: the first write that goes through is the last.
SendEndFirst ==
  /\ sendPc = "writing" /\ (taken # {} \/ owed \cap table \subseteq visited)
  /\ sendPc' = CASE kind = "pico" -> IF taken # {} THEN "ok" ELSE "failed"
                 [] OTHER -> IF taken = visited THEN "ok" ELSE SendAgain(attempt)
  /\ UNCHANGED <<channelVars, connVars, owed, visited, stable, taken, attempt, heard>>

\* Pico reports ErrSendFailed when nobody took the message, MaixCam a temporary error
\* when somebody did not.
SendEnd ==
  /\ sendPc = "writing" /\ owed \cap table \subseteq visited
  /\ sendPc' = CASE kind = "pico" -> IF taken # {} THEN "ok" ELSE "failed"
                 [] OTHER -> IF taken = visited THEN "ok" ELSE SendAgain(attempt)
  /\ UNCHANGED <<channelVars, connVars, owed, visited, stable, taken, attempt, heard>>

-----------------------------------------------------------------------------

Loop(c) ==
  \/ Upgrade(c) \/ Count(c) \/ AddClient(c) \/ Top(c) \/ ReadFails(c)
  \/ DeadlinePasses(c) \/ Close(c) \/ Delete(c) \/ Uncount(c)

StopGoes ==
  ServerStops \/ EndContext \/ StopListener \/ StopClients \/ \E c \in Clients : CloseOne(c)
Writing ==
  SendEnd \/ \E c \in Clients : \E goesThrough \in BOOLEAN : WriteTo(c, goesThrough)
Clientele ==
  \E c \in Clients :
    \/ \E authentic \in BOOLEAN : Knock(c, authentic)
    \/ Accept(c)
    \/ \E garbage \in BOOLEAN : Says(c, garbage)
    \/ ClientLeaves(c)

SvNext ==
  \/ \E k \in ServerKinds : ServerStarts(k)
  \/ Clientele \/ AcceptorChecks \/ AcceptFails
  \/ \E c \in Clients : Loop(c)
  \/ StopGoes \/ SendBegin \/ Writing

\* A goroutine that can go on does, and so does a deadline.
Fairness == WF_svVars(Writing) /\ \A c \in Clients : WF_svVars(Loop(c))

SvSpec == SvInit /\ [][SvNext]_svVars /\ Fairness

-----------------------------------------------------------------------------
(* Properties                                                              *)

ServersTypeOK ==
  /\ kind \in ServerKinds \cup {"none"} /\ running \in BOOLEAN /\ contextEnded \in BOOLEAN
  /\ stopPc \in {"no", "close", "cancel", "listener", "clients", "done"}
  /\ loopAt \in [Clients -> {"away", "shaking", "stored", "accepted", "top", "reading",
                           "leaving", "closed", "uncount", "ended"}]
  /\ UNION {stopTodo, table, closed, left, silent, owed, visited, stable, taken} \subseteq Clients
  /\ count \in 0..Cardinality(Clients) /\ attempt \in 0..SendRetries
  /\ sendPc \in {"idle", "writing", "wait", "ok", "failed", "notRunning"}
  /\ heard \in [Clients -> 0..(SendRetries + 1)]

\* The count the limit is checked against is the number of read loops, however
\* connections end and whoever closes them.
CountIsLoops ==
  kind = "pico" =>
    count = Cardinality({c \in Clients :
                           loopAt[c] \in {"top", "reading", "leaving", "closed", "uncount"}})

\* A connection that has ended is in no map, though Stop swaps MaixCam's map and
\* deletes from Pico's while the loops do.
NoGhosts == \A c \in table : loopAt[c] \in {"stored", "top", "reading", "leaving", "closed"}

\* A client that was there when the attempt began and still is has the message when
\* success is reported, and Pico reports a failure only if there is none.
Reached ==
  sendPc = "ok" \/ (sendPc = "failed" /\ kind = "pico") =>
    \A c \in stable : Good(c) => sendPc = "ok" /\ heard[c] > 0

\* Pico never shows a message twice; a MaixCam does so only when another device failed.
RepeatsHaveErrors ==
  \A c \in Clients : heard[c] <= 1 + attempt /\ (kind = "pico" => heard[c] <= 1)

\* The channel servers' books: the conditions above.
ServersSound == CountIsLoops /\ NoGhosts /\ Reached /\ RepeatsHaveErrors

\* After Stop every connection comes to an end, also one that was being upgraded or
\* accepted and is in no list Stop went through.
ConnectionsEnd ==
  \A c \in Clients : stopPc = "done" /\ loopAt[c] # "away" ~> loopAt[c] = "ended"

=============================================================================
