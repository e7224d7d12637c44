--------------------------- MODULE FeedConnection ---------------------------
(***************************************************************************)
(* services/market-data/src/adapters: the websocket connection of          *)
(* BinanceAdapter and, line for line the same, of BinanceFuturesAdapter.   *)
(* connect() and disconnect() are called synchronously; the events of the  *)
(* sockets ever created and the reconnect timers arrive later, in any      *)
(* order.  Only the newest socket and the newest timer are remembered.     *)
(***************************************************************************)
EXTENDS Integers, Sequences, FiniteSets

CONSTANTS
    BaseDelay, MaxDelay,    \* DEFAULT_BACKOFF
    MaxConnects,            \* bound on calls of connect()
    MaxDisconnects,         \* bound on calls of disconnect()
    MaxDrops                \* bound on connections that fail or are lost

ASSUME FeedConnectionAssumption ==
    /\ BaseDelay \in Nat \ {0} /\ MaxDelay \in Nat /\ BaseDelay <= MaxDelay
    /\ MaxConnects \in Nat /\ MaxDisconnects \in Nat /\ MaxDrops \in Nat

VARIABLES
    phase,              \* the sockets ever created, oldest first
    socket,             \* this.socket: the number of one, or None
    closedByCaller,
    reconnectAttempt,
    timers,             \* the timers that have not fired nor been cleared
    reconnectTimer,     \* the handle kept: the number of a timer, or None
    scheduled,          \* timers ever set
    connects, disconnects, drops

adapter == <<socket, closedByCaller, reconnectAttempt, reconnectTimer>>
connectionVars == <<phase, adapter, timers, scheduled, connects, disconnects, drops>>

None == 0

Sockets == DOMAIN phase
Live == {s \in Sockets : phase[s] \in {"connecting", "open"}}
Unsettled == {s \in Sockets : phase[s] # "closed"}

-----------------------------------------------------------------------------

ConnectionInit ==
    /\ phase = << >>
    /\ socket = None
    /\ closedByCaller = FALSE
    /\ reconnectAttempt = 0
    /\ timers = {}
    /\ reconnectTimer = None
    /\ scheduled = 0
    /\ connects = 0
    /\ disconnects = 0
    /\ drops = 0

\* openSocket(): the former socket, if any, is forgotten, not closed.
OpenSocket ==
    /\ phase' = Append(phase, "connecting")
    /\ socket' = Len(phase')

\* Mutant of Backoff: the ceiling is forgotten.
BackoffUncapped(attempt) ==
    LET delay[n \in 0..attempt] == IF n = 0 THEN BaseDelay ELSE 2 * delay[n - 1]
    IN  delay[attempt]

\* computeBackoffDelayMs, with the doubling as a recursive function.
Backoff(attempt) ==
    LET delay[n \in 0..attempt] == IF n = 0 THEN BaseDelay ELSE 2 * delay[n - 1]
    IN  IF delay[attempt] < MaxDelay THEN delay[attempt] ELSE MaxDelay

\* scheduleReconnect(): the former handle, if any, is overwritten.
ScheduleReconnect ==
    /\ scheduled' = scheduled + 1
    /\ timers' = timers \cup {[no |-> scheduled', delay |-> Backoff(reconnectAttempt)]}
    /\ reconnectTimer' = scheduled'
    /\ reconnectAttempt' = reconnectAttempt + 1

Connect ==
    /\ connects < MaxConnects
    /\ connects' = connects + 1
    /\ closedByCaller' = FALSE
    /\ OpenSocket
    /\ UNCHANGED <<reconnectAttempt, timers, reconnectTimer, scheduled, disconnects, drops>>

\* WebSocket.close(): the connection is given up, its close event comes later.
Closing == IF socket \in Live THEN [phase EXCEPT ![socket] = "closing"] ELSE phase

Disconnect ==
    /\ disconnects < MaxDisconnects
    /\ disconnects' = disconnects + 1
    /\ closedByCaller' = TRUE
    /\ timers' = {t \in timers : t.no # reconnectTimer}
    /\ reconnectTimer' = None
    /\ phase' = Closing
    /\ socket' = None
    /\ UNCHANGED <<reconnectAttempt, scheduled, connects, drops>>

\* The open event, of whichever socket.
Opened(s) ==
    /\ phase[s] = "connecting"
    /\ phase' = [phase EXCEPT ![s] = "open"]
    /\ reconnectAttempt' = 0
    /\ UNCHANGED <<socket, closedByCaller, timers, reconnectTimer, scheduled,
                   connects, disconnects, drops>>

\* Mutant of CloseEvent: not while there is a handle, which nothing resets.
CloseEventOnce(s) ==
    /\ phase' = [phase EXCEPT ![s] = "closed"]
    /\ IF closedByCaller \/ reconnectTimer # None
       THEN UNCHANGED <<timers, reconnectTimer, scheduled, reconnectAttempt>>
       ELSE ScheduleReconnect
    /\ UNCHANGED <<socket, closedByCaller, connects, disconnects>>

\* The close listener, of whichever socket.
CloseEvent(s) ==
    /\ phase' = [phase EXCEPT ![s] = "closed"]
    /\ IF closedByCaller
       THEN UNCHANGED <<timers, reconnectTimer, scheduled, reconnectAttempt>>
       ELSE ScheduleReconnect
    /\ UNCHANGED <<socket, closedByCaller, connects, disconnects>>

\* The exchange ends the connection, or it cannot be established.
Dropped(s) ==
    /\ s \in Live
    /\ drops < MaxDrops
    /\ drops' = drops + 1
    /\ CloseEvent(s)

\* The close event the adapter itself asked for.
Closed(s) ==
    /\ phase[s] = "closing"
    /\ CloseEvent(s)
    /\ UNCHANGED drops

\* Mutant of TimerFires: setInterval for setTimeout.
IntervalFires(t) ==
    /\ IF closedByCaller THEN UNCHANGED <<phase, socket>> ELSE OpenSocket
    /\ UNCHANGED <<closedByCaller, reconnectAttempt, timers, reconnectTimer, scheduled,
                   connects, disconnects, drops>>

\* The timer's callback; the handle is kept.
TimerFires(t) ==
    /\ timers' = timers \ {t}
    /\ IF closedByCaller THEN UNCHANGED <<phase, socket>> ELSE OpenSocket
    /\ UNCHANGED <<closedByCaller, reconnectAttempt, reconnectTimer, scheduled,
                   connects, disconnects, drops>>

ConnectionNext ==
    \/ Connect
    \/ Disconnect
    \/ \E s \in Sockets : Opened(s) \/ Dropped(s) \/ Closed(s)
    \/ \E t \in timers : TimerFires(t)

\* A connection attempt comes to an end, a closing socket closes, a timer
\* fires.  That it opens rather than drops is the exchange's part.
Fairness ==
    /\ WF_connectionVars(\E s \in Sockets : Opened(s))
    /\ WF_connectionVars(\E s \in Sockets : Closed(s))
    /\ WF_connectionVars(\E t \in timers : TimerFires(t))

ConnectionSpec == ConnectionInit /\ [][ConnectionNext]_connectionVars /\ Fairness

-----------------------------------------------------------------------------

ConnectionTypeOK ==
    /\ phase \in Seq({"connecting", "open", "closing", "closed"})
    /\ socket \in Sockets \cup {None}
    /\ closedByCaller \in BOOLEAN
    /\ timers \subseteq [no : 1..scheduled, delay : BaseDelay..MaxDelay]
    /\ reconnectTimer \in 0..scheduled
    /\ {reconnectAttempt, scheduled, connects, disconnects, drops} \subseteq Nat

\* A socket that may still report its end, or a timer: what leads to the next
\* connection.
Links == Cardinality(Unsettled) + Cardinality(timers)

\* Reconnecting never multiplies connections: there are at most as many links
\* as calls of connect(), and disconnect() leaves running at most the
\* connections of the other calls, whatever stale close events and overwritten
\* timer handles do.  main.ts calls each once, so its feed is never delivered
\* twice and ends when it says so.
ReconnectsDoNotMultiply ==
    /\ Links <= connects
    /\ closedByCaller /\ connects > 0 => Cardinality(Live) < connects

\* Once the exchange stops dropping connections and the caller has made its
\* last call, the adapter is connected again and stays so.
FeedComesBack == <>[](connects > 0 /\ ~closedByCaller => \E s \in Sockets : phase[s] = "open")

=============================================================================
