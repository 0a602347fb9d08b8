----------------------------- MODULE WhatsAppLink -----------------------------
(***************************************************************************)
(* The two ways to WhatsApp: a WebSocket to a bridge                       *)
(* (pkg/channels/whatsapp/whatsapp.go) and a client inside the program     *)
(* (pkg/channels/whatsapp_native/whatsapp_native.go).  Start, Stop, the    *)
(* goroutines they leave behind, and a connection that breaks.             *)
(***************************************************************************)
EXTENDS Naturals

CONSTANTS
  Modes,        \* "bridge", "native"
  MaxFailures,  \* failed reads after which the WebSocket library panics
  MaxBreaks     \* bound on the times the connection breaks

ASSUME WaAssumption == "new" \notin Modes /\ MaxFailures \in Nat \ {0, 1} /\ MaxBreaks \in Nat

VARIABLES
  mode,          \* "new" before Start
  up,            \* Start: "no", its steps, "yes", "failed"
  isRunning,     \* BaseChannel's flag
  ended,         \* the channel's context has ended
  client,        \* the client (the connection, for the bridge) is set
  online,        \* it is connected
  store,         \* the native client's store is open
  listenLoop,      \* bridge: "none", "loop", "read", "panic"
  badReads,      \* bridge: reads that failed on this connection
  stopping,      \* native: Stop has begun
  reconnecting,  \* native: a goroutine reconnects
  recon,         \* that goroutine: "none", "loop", "connect", "wait", "unmark"
  finishing,     \* native: those that have unmarked but not left the wait group
  qr,            \* native: the login goroutine runs
  wg,            \* native: the wait group
  events,        \* native: Disconnected events not yet handled
  halt,          \* Stop: "no", its steps, "done", "doneLate"
  breaks,        \* times the connection broke
  missed,        \* an event came to a goroutine that had reconnected already
  raced          \* a Connect had begun when Stop disconnected

waVars == <<mode, up, isRunning, ended, client, online, store, listenLoop, badReads, stopping,
          reconnecting, recon, finishing, qr, wg, events, halt, breaks, missed, raced>>
base == <<mode, up, isRunning, ended, client, online, store>>
bridge == <<listenLoop, badReads>>
native == <<stopping, reconnecting, recon, finishing, qr, wg, events, missed, raced>>

WaInit ==
  /\ mode = "new" /\ up = "no" /\ isRunning = FALSE /\ ended = FALSE
  /\ client = FALSE /\ online = FALSE /\ store = FALSE
  /\ listenLoop = "none" /\ badReads = 0
  /\ stopping = FALSE /\ reconnecting = FALSE /\ recon = "none" /\ finishing = 0
  /\ qr = FALSE /\ wg = 0 /\ events = 0
  /\ halt = "no" /\ breaks = 0 /\ missed = FALSE /\ raced = FALSE

LinkBreaks ==
  /\ online /\ breaks < MaxBreaks
  /\ online' = FALSE /\ breaks' = breaks + 1
  /\ events' = IF mode = "native" THEN events + 1 ELSE events
  /\ UNCHANGED <<mode, up, isRunning, ended, client, store, bridge, halt,
                 stopping, reconnecting, recon, finishing, qr, wg, missed, raced>>

-----------------------------------------------------------------------------
(* The bridge                                                              *)

BridgeStart(dials) ==
  /\ mode = "new" /\ mode' = "bridge"
  /\ up' = IF dials THEN "yes" ELSE "failed"
  /\ isRunning' = dials /\ ended' = ~dials /\ client' = dials /\ online' = dials
  /\ listenLoop' = IF dials THEN "loop" ELSE "none"
  /\ UNCHANGED <<store, badReads, native, halt, breaks>>

\* The loop looks at the context and at the connection, which is never made anew.
BridgeLoop ==
  /\ listenLoop = "loop"
  /\ listenLoop' = IF ended THEN "none" ELSE IF client THEN "read" ELSE "loop"
  /\ UNCHANGED <<base, badReads, native, halt, breaks>>

BridgeRead ==
  /\ listenLoop = "read"
  /\ IF online THEN listenLoop' = "loop" /\ UNCHANGED badReads
     ELSE /\ badReads' = badReads + 1
          /\ listenLoop' = IF badReads' = MaxFailures THEN "panic" ELSE "loop"
  /\ UNCHANGED <<base, native, halt, breaks>>

BridgeStop ==
  /\ mode = "bridge"
  /\ \/ /\ halt = "no" /\ ended' = TRUE /\ halt' = "lock"
        /\ UNCHANGED <<isRunning, client, online>>
     \/ /\ halt = "lock" /\ halt' = "done"
        /\ client' = FALSE /\ online' = FALSE /\ isRunning' = FALSE
        /\ UNCHANGED ended
  /\ UNCHANGED <<mode, up, store, bridge, native, breaks>>

-----------------------------------------------------------------------------
(* The native client                                                       *)

\* Start resets what an earlier Stop left, and opens the store.
NativeStart(opens) ==
  /\ mode = "new" /\ mode' = "native"
  /\ stopping' = FALSE /\ reconnecting' = FALSE
  /\ up' = IF opens THEN "connect" ELSE "failed"
  /\ client' = opens /\ store' = opens
  /\ UNCHANGED <<isRunning, ended, online, bridge, recon, finishing, qr, wg, events,
                 halt, breaks, missed, raced>>

NativeConnect(paired, connects) ==
  /\ up = "connect"
  /\ IF ~connects
     THEN /\ up' = "failed" /\ ended' = TRUE /\ client' = FALSE /\ store' = FALSE
          /\ UNCHANGED online
     ELSE /\ up' = IF paired THEN "running" ELSE "qr"
          /\ online' = TRUE
          /\ UNCHANGED <<ended, client, store>>
  /\ UNCHANGED <<mode, isRunning, bridge, native, halt, breaks>>

\* The goroutine that shows the login codes joins the wait group.
NativeQR ==
  /\ up = "qr" /\ ~stopping
  /\ up' = "running" /\ wg' = wg + 1 /\ qr' = TRUE
  /\ UNCHANGED <<mode, isRunning, ended, client, online, store, bridge, stopping,
                 reconnecting, recon, finishing, events, halt, breaks, missed, raced>>

NativeRunning ==
  /\ up = "running"
  /\ up' = "yes" /\ isRunning' = TRUE
  /\ UNCHANGED <<mode, ended, client, online, store, bridge, native, halt, breaks>>

\* It ends with the context, or when the login is over.
QRLeaves ==
  /\ qr
  /\ qr' = FALSE /\ wg' = wg - 1
  /\ UNCHANGED <<base, bridge, stopping, reconnecting, recon, finishing, events,
                 halt, breaks, missed, raced>>

\* Mutant of OnDisconnected: stopping is not looked at.
OnDisconnectedAlways ==
  /\ events > 0 /\ events' = events - 1
  /\ IF reconnecting
     THEN missed' = (missed \/ recon = "unmark") /\ UNCHANGED <<reconnecting, recon, wg>>
     ELSE reconnecting' = TRUE /\ recon' = "loop" /\ wg' = wg + 1 /\ UNCHANGED missed
  /\ UNCHANGED <<base, bridge, stopping, finishing, qr, halt, breaks, raced>>

\* eventHandler, under reconnectMu.
OnDisconnected ==
  /\ events > 0 /\ events' = events - 1
  /\ IF reconnecting \/ stopping
     THEN missed' = (missed \/ recon = "unmark") /\ UNCHANGED <<reconnecting, recon, wg>>
     ELSE reconnecting' = TRUE /\ recon' = "loop" /\ wg' = wg + 1 /\ UNCHANGED missed
  /\ UNCHANGED <<base, bridge, stopping, finishing, qr, halt, breaks, raced>>

ReconnectGoes(from, to) == recon = from /\ recon' = to

\* reconnectWithBackoff.
ReconnectLoop ==
  /\ ReconnectGoes("loop", IF ended \/ ~client THEN "unmark" ELSE "connect")
  /\ UNCHANGED <<base, bridge, stopping, reconnecting, finishing, qr, wg, events,
                 halt, breaks, missed, raced>>

ReconnectTry(connects) ==
  /\ ReconnectGoes("connect", IF connects THEN "unmark" ELSE "wait")
  /\ online' = (online \/ connects)
  /\ UNCHANGED <<mode, up, isRunning, ended, client, store, bridge, stopping,
                 reconnecting, finishing, qr, wg, events, halt, breaks, missed, raced>>

ReconnectWait ==
  /\ \/ ReconnectGoes("wait", "loop")
     \/ ended /\ ReconnectGoes("wait", "unmark")
  /\ UNCHANGED <<base, bridge, stopping, reconnecting, finishing, qr, wg, events,
                 halt, breaks, missed, raced>>

ReconnectUnmark ==
  /\ ReconnectGoes("unmark", "none")
  /\ reconnecting' = FALSE /\ finishing' = finishing + 1
  /\ UNCHANGED <<base, bridge, stopping, qr, wg, events, halt, breaks, missed, raced>>

ReconnectDone ==
  /\ finishing > 0
  /\ finishing' = finishing - 1 /\ wg' = wg - 1
  /\ UNCHANGED <<base, bridge, stopping, reconnecting, recon, qr, events,
                 halt, breaks, missed, raced>>

StopFlag ==
  /\ mode = "native" /\ up \in {"yes", "failed"} /\ halt = "no"
  /\ stopping' = TRUE /\ halt' = "cancel"
  /\ UNCHANGED <<base, bridge, reconnecting, recon, finishing, qr, wg, events,
                 breaks, missed, raced>>

StopCancel ==
  /\ halt = "cancel"
  /\ ended' = TRUE /\ halt' = "disconnect"
  /\ UNCHANGED <<mode, up, isRunning, client, online, store, bridge, native, breaks>>

StopDisconnect ==
  /\ halt = "disconnect"
  /\ online' = FALSE /\ halt' = "wait"
  /\ raced' = (recon = "connect")
  /\ UNCHANGED <<mode, up, isRunning, ended, client, store, bridge, stopping,
                 reconnecting, recon, finishing, qr, wg, events, breaks, missed>>

\* Stop waits for the group, or until its own context ends.
StopWait ==
  /\ halt = "wait"
  /\ halt' \in {"close", "closeLate"} /\ (halt' = "close" => wg = 0)
  /\ UNCHANGED <<base, bridge, native, breaks>>

StopClose ==
  /\ halt \in {"close", "closeLate"}
  /\ client' = FALSE /\ store' = FALSE /\ isRunning' = FALSE
  /\ halt' = IF halt = "close" THEN "done" ELSE "doneLate"
  /\ UNCHANGED <<mode, up, ended, online, bridge, native, breaks>>

-----------------------------------------------------------------------------

Begin ==
  \/ "bridge" \in Modes /\ \E dials \in BOOLEAN : BridgeStart(dials)
  \/ "native" \in Modes /\ \E opens \in BOOLEAN : NativeStart(opens)

Starting ==
  \/ \E paired, connects \in BOOLEAN : NativeConnect(paired, connects)
  \/ NativeQR \/ NativeRunning

Stopping == BridgeStop \/ StopFlag \/ StopCancel \/ StopDisconnect \/ StopWait \/ StopClose

Goroutines ==
  \/ BridgeLoop \/ BridgeRead \/ QRLeaves \/ OnDisconnected
  \/ ReconnectLoop \/ ReconnectWait \/ ReconnectUnmark \/ ReconnectDone
  \/ \E connects \in BOOLEAN : ReconnectTry(connects)

WaNext == Begin \/ Starting \/ Stopping \/ Goroutines \/ LinkBreaks

WaSpec == WaInit /\ [][WaNext]_waVars

-----------------------------------------------------------------------------
(* Properties                                                              *)

FlagsOK ==
  /\ isRunning \in BOOLEAN /\ ended \in BOOLEAN /\ client \in BOOLEAN /\ online \in BOOLEAN
  /\ store \in BOOLEAN /\ stopping \in BOOLEAN /\ reconnecting \in BOOLEAN /\ qr \in BOOLEAN
  /\ missed \in BOOLEAN /\ raced \in BOOLEAN

LinkTypeOK ==
  /\ mode \in Modes \cup {"new"} /\ up \in {"no", "connect", "qr", "running", "yes", "failed"}
  /\ FlagsOK
  /\ listenLoop \in {"none", "loop", "read", "panic"} /\ badReads \in 0..MaxFailures
  /\ recon \in {"none", "loop", "connect", "wait", "unmark"}
  /\ finishing \in Nat /\ wg \in Nat /\ events \in 0..MaxBreaks /\ breaks \in 0..MaxBreaks
  /\ halt \in {"no", "lock", "cancel", "disconnect", "wait", "close", "closeLate",
               "done", "doneLate"}

\* The wait group counts the goroutines; nobody joins it behind Stop's back, so that
\* none runs, and uses the store, when Stop has waited for it.
StopWaits ==
  /\ wg = (IF qr THEN 1 ELSE 0) + (IF recon = "none" THEN 0 ELSE 1) + finishing
  /\ halt \in {"close", "done"} => wg = 0

\* A client that has lost its connection has a goroutine after it, or an event on the
\* way, unless the event met a goroutine that was through but had not said so yet.
DownIsAnswered ==
  up = "yes" /\ mode = "native" /\ ~stopping /\ ~online =>
    events > 0 \/ recon # "none" \/ missed

\* A stopped client is offline, unless it was just connecting when Stop disconnected it.
StopDisconnects == halt \in {"done", "doneLate"} => ~online \/ raced

\* The bridge's listenLoop brings the program down only over a connection that had
\* broken by itself; Stop leaves it one failing read at most.
PanicNeedsBreak == listenLoop = "panic" => breaks > 0

\* The life of the two channels: the conditions above.
WhatsAppSound == StopWaits /\ DownIsAnswered /\ StopDisconnects /\ PanicNeedsBreak

=============================================================================
