----------------------------- MODULE OneBotLink -----------------------------
(***************************************************************************)
(* pkg/channels/onebot/onebot.go: the websocket of the OneBot channel, the  *)
(* goroutine that connects and reconnects it, one listener per connection,  *)
(* API requests that wait for an answer with their echo, and the ring that  *)
(* recognises messages the platform delivers again.                         *)
(*                                                                          *)
(* Connections are numbered in the order of dialling, 0 is nil.  A message  *)
(* is its id; what it says and the HandleMessage that follows (Indicators)  *)
(* are left out.  Of time only the reconnect interval and the time-outs are *)
(* left, as steps.                                                          *)
(***************************************************************************)
EXTENDS Naturals, Sequences

CONSTANTS
  MaxDials,    \* bound on successful dials
  Messages,    \* message ids
  NoIds,       \* those that are "" or "0", which several messages may have
  RingSize,    \* len(dedupRing)
  MaxEvents,   \* bound on message events that are not duplicates
  Requests,    \* calls of sendAPIRequest and Send
  Sends,       \* those that are Send or SendMedia, which wait for no answer
  Reconnecting \* ReconnectInterval > 0

Nil == 0
Conns == 1..MaxDials
NoMsg == "none"

ASSUME ObAssumption ==
  MaxDials \in Nat /\ RingSize \in Nat \ {0} /\ MaxEvents \in Nat /\ NoMsg \notin Messages

VARIABLES
  obState,     \* the channel: "new", "starting", "running", "failed", "stopped"
  conn,        \* c.conn
  dials,       \* connections made so far
  alive,       \* connections that are open
  link,        \* the goroutine that dials: "off", "dialing", "fetching", "waiting"
  listener,    \* listener[k]: "none", "starting", "reading", "gone"
  dedup,       \* keys of c.dedup
  ring,        \* c.dedupRing
  ringIdx,     \* c.dedupIdx, from 0
  fresh,       \* history: the ids that were new, in order
  handled,     \* message events that were not duplicates
  req,         \* req[r]: "idle", "looked", "waiting", "answered", "ok", "failed"
  reqConn,     \* reqConn[r]: the connection request r writes to
  pending,     \* keys of c.pending
  late         \* history: connections whose dial was under way when Stop was called

ring_vars == <<dedup, ring, ringIdx, fresh, handled>>
req_vars == <<req, reqConn, pending>>
obVars == <<obState, conn, dials, alive, link, listener, ring_vars, req_vars, late>>

ObInit ==
  /\ obState = "new" /\ conn = Nil /\ dials = 0 /\ alive = {} /\ link = "off"
  /\ listener = [k \in Conns |-> "none"]
  /\ dedup = {} /\ ring = [i \in 0..RingSize-1 |-> NoMsg] /\ ringIdx = 0
  /\ fresh = <<>> /\ handled = 0
  /\ req = [r \in Requests |-> "idle"] /\ reqConn = [r \in Requests |-> Nil]
  /\ pending = {} /\ late = {}

CtxDone == obState = "stopped"

-----------------------------------------------------------------------------
(* Connecting: Start's own call, then the loop of reconnectLoop             *)

Start ==
  /\ obState = "new"
  /\ obState' = "starting" /\ link' = "dialing"
  /\ UNCHANGED <<conn, dials, alive, listener, ring_vars, req_vars, late>>

\* Where the goroutine goes when Start is over or an attempt has been made.
AfterAttempt ==
  IF obState # "starting" THEN link' = "waiting" /\ UNCHANGED obState
  ELSE IF Reconnecting THEN link' = "waiting" /\ obState' = "running"
  ELSE link' = "off" /\ obState' = IF conn' = Nil THEN "failed" ELSE "running"

\* connect: the connection is stored whatever has happened since the dial began;
\* its listener is started.
DialSucceeds ==
  /\ link = "dialing" /\ dials < MaxDials
  /\ dials' = dials + 1
  /\ conn' = dials' /\ alive' = alive \cup {dials'}
  /\ listener' = [listener EXCEPT ![dials'] = "starting"]
  /\ late' = IF CtxDone THEN late \cup {dials'} ELSE late
  /\ link' = "fetching"
  /\ UNCHANGED <<obState, ring_vars, req_vars>>

DialFails ==
  /\ link = "dialing"
  /\ UNCHANGED conn
  /\ AfterAttempt
  /\ UNCHANGED <<dials, alive, listener, ring_vars, req_vars, late>>

\* fetchSelfID is over, with an answer or a time-out.
Fetched ==
  /\ link = "fetching"
  /\ UNCHANGED conn
  /\ AfterAttempt
  /\ UNCHANGED <<dials, alive, listener, ring_vars, req_vars, late>>

\* Mutant of ReconnectTick: the loop ends when it finds a connection.
ReconnectTickOnce ==
  /\ link = "waiting"
  /\ link' = IF conn = Nil /\ ~CtxDone THEN "dialing" ELSE "off"
  /\ UNCHANGED <<obState, conn, dials, alive, listener, ring_vars, req_vars, late>>

\* reconnectLoop: the interval is over; without a connection it dials.  A cancelled
\* context ends the loop, but the select may choose the timer all the same.
ReconnectTick ==
  /\ link = "waiting"
  /\ conn = Nil /\ link' = "dialing"
  /\ UNCHANGED <<obState, conn, dials, alive, listener, ring_vars, req_vars, late>>

ReconnectEnds ==
  /\ link = "waiting" /\ CtxDone
  /\ link' = "off"
  /\ UNCHANGED <<obState, conn, dials, alive, listener, ring_vars, req_vars, late>>

\* Stop: the context ends, waiting requests are woken, the connection is closed.
Stop ==
  /\ obState = "running"
  /\ obState' = "stopped"
  /\ pending' = {}
  /\ alive' = alive \ {conn} /\ conn' = Nil
  /\ UNCHANGED <<dials, link, listener, ring_vars, req, reqConn, late>>

\* The network or the platform ends a connection; nobody is told.
Break(k) ==
  /\ k \in alive
  /\ alive' = alive \ {k}
  /\ UNCHANGED <<obState, conn, dials, link, listener, ring_vars, req_vars, late>>

-----------------------------------------------------------------------------
(* listen: one goroutine per connection                                     *)

ListenStart(k) ==
  /\ listener[k] = "starting"
  /\ IF conn = Nil THEN listener' = [listener EXCEPT ![k] = "gone"]
     ELSE listener' = [listener EXCEPT ![k] = "reading"]
  /\ UNCHANGED <<obState, conn, dials, alive, link, ring_vars, req_vars, late>>

ListenEnds(k) ==
  /\ listener[k] = "reading" /\ CtxDone
  /\ listener' = [listener EXCEPT ![k] = "gone"]
  /\ UNCHANGED <<obState, conn, dials, alive, link, ring_vars, req_vars, late>>

\* Mutant of ListenFails: the connection is closed but stays c.conn.
ListenFailsKeeping(k) ==
  /\ listener[k] = "reading" /\ k \notin alive
  /\ listener' = [listener EXCEPT ![k] = "gone"]
  /\ UNCHANGED <<obState, conn, dials, alive, link, ring_vars, req_vars, late>>

\* ReadMessage fails: the listener gives its connection up, unless it has been replaced.
ListenFails(k) ==
  /\ listener[k] = "reading" /\ k \notin alive
  /\ listener' = [listener EXCEPT ![k] = "gone"]
  /\ conn' = IF conn = k THEN Nil ELSE conn
  /\ UNCHANGED <<obState, dials, alive, link, ring_vars, req_vars, late>>

\* isDuplicate for a new id: the oldest one of the ring makes room.
Remember(m) ==
  IF m \in NoIds THEN UNCHANGED <<dedup, ring, ringIdx, fresh>>
  ELSE /\ dedup' = (dedup \ {ring[ringIdx]}) \cup {m}
       /\ ring' = [ring EXCEPT ![ringIdx] = m]
       /\ ringIdx' = (ringIdx + 1) % RingSize
       /\ fresh' = Append(fresh, m)

\* handleMessage: a duplicate goes no further.
Receive(k, m) ==
  /\ listener[k] = "reading" /\ k \in alive /\ handled < MaxEvents
  /\ m \in NoIds \/ m \notin dedup
  /\ Remember(m)
  /\ handled' = handled + 1
  /\ UNCHANGED <<obState, conn, dials, alive, link, listener, req_vars, late>>

\* An answer whose echo is pending wakes its request; any other is dropped.
Answer(k, r) ==
  /\ listener[k] = "reading" /\ k \in alive
  /\ req[r] = "waiting" /\ reqConn[r] = k /\ r \in pending
  /\ req' = [req EXCEPT ![r] = "answered"]
  /\ UNCHANGED <<obState, conn, dials, alive, link, listener, ring_vars, reqConn, pending, late>>

-----------------------------------------------------------------------------
(* sendAPIRequest, Send and SendMedia                                      *)

\* The connection is read under the lock and used without it.
ReqLook(r) ==
  /\ req[r] = "idle" /\ obState # "new"
  /\ r \in Sends => obState = "running"
  /\ reqConn' = [reqConn EXCEPT ![r] = conn]
  /\ req' = [req EXCEPT ![r] = IF conn = Nil THEN "failed" ELSE "looked"]
  /\ UNCHANGED <<obState, conn, dials, alive, link, listener, ring_vars, pending, late>>

\* The request is entered in pending and written; a Send is over with that.
ReqWrite(r) ==
  /\ req[r] = "looked"
  /\ IF reqConn[r] \notin alive
     THEN req' = [req EXCEPT ![r] = "failed"] /\ UNCHANGED pending
     ELSE IF r \in Sends
     THEN req' = [req EXCEPT ![r] = "ok"] /\ UNCHANGED pending
     ELSE req' = [req EXCEPT ![r] = "waiting"] /\ pending' = pending \cup {r}
  /\ UNCHANGED <<obState, conn, dials, alive, link, listener, ring_vars, reqConn, late>>

\* Answered, timed out, or woken by Stop: the entry in pending goes with the call.
ReqEnd(r) ==
  /\ req[r] \in {"waiting", "answered"}
  /\ req' = [req EXCEPT ![r] = IF req[r] = "answered" THEN "ok" ELSE "failed"]
  /\ pending' = pending \ {r}
  /\ UNCHANGED <<obState, conn, dials, alive, link, listener, ring_vars, reqConn, late>>

-----------------------------------------------------------------------------
Dialer == DialSucceeds \/ DialFails \/ Fetched \/ ReconnectTick \/ ReconnectEnds

ObNext ==
  \/ Start \/ Stop
  \/ DialSucceeds \/ DialFails \/ Fetched \/ ReconnectTick \/ ReconnectEnds
  \/ \E k \in Conns :
       \/ Break(k) \/ ListenStart(k) \/ ListenEnds(k) \/ ListenFails(k)
       \/ \E m \in Messages : Receive(k, m)
       \/ \E r \in Requests : Answer(k, r)
  \/ \E r \in Requests : ReqLook(r) \/ ReqWrite(r) \/ ReqEnd(r)

ObSpec == ObInit /\ [][ObNext]_obVars

\* Goroutines go on; a listener's read ends when its connection does (the read
\* deadline of 60 s sees to it).
ObFairSpec ==
  /\ ObSpec
  /\ WF_obVars(Dialer)
  /\ \A k \in Conns : WF_obVars(ListenStart(k)) /\ WF_obVars(ListenFails(k))

-----------------------------------------------------------------------------
ObTypeOK ==
  /\ obState \in {"new", "starting", "running", "failed", "stopped"}
  /\ conn \in Conns \cup {Nil} /\ dials \in 0..MaxDials
  /\ alive \subseteq Conns /\ late \subseteq Conns
  /\ link \in {"off", "dialing", "fetching", "waiting"}
  /\ listener \in [Conns -> {"none", "starting", "reading", "gone"}]
  /\ dedup \subseteq Messages \cup {NoMsg}
  /\ ring \in [0..RingSize-1 -> Messages \cup {NoMsg}] /\ ringIdx \in 0..RingSize-1
  /\ fresh \in Seq(Messages) /\ handled \in 0..MaxEvents
  /\ req \in [Requests -> {"idle", "looked", "waiting", "answered", "ok", "failed"}]
  /\ reqConn \in [Requests -> Conns \cup {Nil}] /\ pending \subseteq Requests

\* What the ring recognises are exactly the last RingSize messages that were new, and
\* none of these was let through twice, over any number of connections.
LastOf(s, n) == {i \in DOMAIN s : i > Len(s) - n}
DedupIsWindow ==
  /\ dedup \ {NoMsg} = {fresh[i] : i \in LastOf(fresh, RingSize)}
  /\ \A i, j \in DOMAIN fresh : i < j /\ j - i <= RingSize => fresh[i] # fresh[j]

\* Every connection the channel holds has a listener that will notice its end (without
\* one it would never be replaced), and an open connection is the one it holds; after Stop
\* only one that was being dialled when Stop was called.
ConnIsHeard ==
  /\ conn # Nil /\ obState # "stopped" => listener[conn] \in {"starting", "reading"}
  /\ alive \subseteq {conn}
  /\ obState = "stopped" => alive \subseteq late

\* Both: what the channel remembers, and the connection it holds.
OneBotSound == DedupIsWindow /\ ConnIsHeard

\* A running channel that has lost its connection dials again.
Reconnects ==
  (obState = "running" /\ Reconnecting /\ (conn = Nil \/ conn \notin alive))
    ~> (link = "dialing" \/ conn \in alive \/ obState = "stopped")

\* Not so in the code: Stop closes what c.conn holds, and the dial under way stores
\* its connection afterwards.
StopClosesConnection == obState = "stopped" => alive = {}
=============================================================================
