------------------------- MODULE ReconnectingSocket -------------------------
(***************************************************************************)
(* The payment stream's transport (packages/sdk/src/realtime): a socket     *)
(* that reconnects with a doubling delay and a watchdog that pings an open  *)
(* connection and gives it up when nothing comes back.  Timers are          *)
(* countdowns; one that has reached zero fires before time goes on.         *)
(***************************************************************************)
EXTENDS Integers

CONSTANTS Interval,      \* heartbeatIntervalMs
          PongTimeout,   \* pongTimeoutMs
          MaxDelay,      \* maxBackoffMs, in units of initialBackoffMs
          MaxCut         \* bound: connections the network cuts or refuses

SocketAssumption ==
  /\ Interval \in Nat \ {0} /\ PongTimeout \in Nat \ {0}
  /\ PongTimeout < Interval          \* 5 s and 15 s by default
  /\ MaxDelay \in Nat \ {0} /\ MaxCut \in Nat

VARIABLES link,       \* this.socket: none, connecting, open, or open and silent
          attempt,
          closed,
          reconnect,  \* the three timers
          ping, pong,
          told,       \* the last callback of the subscriber
          cuts
vars == <<link, attempt, closed, reconnect, ping, pong, told, cuts>>

Off == -1
IsOpen == link \in {"open", "silent"}

Init == /\ link = "connecting"       \* subscribeToPayments calls connect()
        /\ attempt = 0
        /\ closed = FALSE
        /\ reconnect = Off /\ ping = Off /\ pong = Off
        /\ told = "nothing" /\ cuts = 0

\* backoffDelay without its jitter; the exponent cannot overflow below 30.
Doubled[n \in Nat] == IF n = 0 THEN 1 ELSE 2 * Doubled[n - 1]
BackoffDelay(n) == LET d == Doubled[n] IN IF d < MaxDelay THEN d ELSE MaxDelay
\* Attempts past the cap are not told apart.
NextAttempt == IF Doubled[attempt] >= MaxDelay THEN attempt ELSE attempt + 1

Countdown(t) == IF t > 0 THEN t - 1 ELSE t
Tick == /\ 0 \notin {reconnect, ping, pong}
        /\ reconnect' = Countdown(reconnect)
        /\ ping' = Countdown(ping)
        /\ pong' = Countdown(pong)
        /\ UNCHANGED <<link, attempt, closed, told, cuts>>

----------------------------------------------------------------------------
\* onopen: startHeartbeat first cancels what timers there are.
Open == /\ link = "connecting"
        /\ link' = "open" /\ attempt' = 0
        /\ ping' = Interval /\ pong' = Off
        /\ told' = "connected"
        /\ UNCHANGED <<closed, reconnect, cuts>>

(* A frame: a pong, an order, one that is none, or one whose consumer       *)
(* throws.  Each stops the watchdog before anybody is called, so what the   *)
(* consumer does has no effect; all but the pong are passed on.             *)
Frames == {"pong", "order", "malformed", "throwing"}
Told(frame) == CASE frame = "pong" -> told
                 [] frame = "order" -> "payment"
                 [] OTHER -> "error"
Message == /\ link = "open"
           /\ \E frame \in Frames : told' = Told(frame)
           /\ pong' = Off
           /\ UNCHANGED <<link, attempt, closed, reconnect, ping, cuts>>

StoppedTimers == ping' = Off /\ pong' = Off

(* The subscriber is told: its onError returns, unsubscribes, or throws.    *)
TellsDropped(outcome) == /\ closed' = (closed \/ outcome = "unsubscribed")
                         /\ told' = IF outcome = "threw" THEN "threw" ELSE "error"

(* handleDrop: the socket is let go, the subscriber told, and then, unless  *)
(* that call threw, a reconnect set: also one that nobody wants any more.   *)
HandleDrop == /\ StoppedTimers
              /\ link' = "none"
              /\ \E outcome \in {"returned", "unsubscribed", "threw"} :
                   /\ TellsDropped(outcome)
                   /\ IF outcome = "threw" THEN UNCHANGED <<reconnect, attempt>>
                      ELSE reconnect' = BackoffDelay(attempt) /\ attempt' = NextAttempt

\* onerror or onclose; a refused connection is one, too.
Drop == /\ link # "none" /\ cuts < MaxCut /\ cuts' = cuts + 1
        /\ HandleDrop

\* The peer vanishes and no event says so.
Silence == /\ link = "open" /\ cuts < MaxCut /\ cuts' = cuts + 1
           /\ link' = "silent"
           /\ UNCHANGED <<attempt, closed, reconnect, ping, pong, told>>

\* Mutant of Watch: a pending watchdog is kept only while nothing is armed.
WatchNever == UNCHANGED pong
Watch == pong' = PongTimeout

\* The interval: a ping, and a watchdog in place of the last one.
Ping == /\ ping = 0 /\ IsOpen
        /\ Watch
        /\ ping' = Interval
        /\ UNCHANGED <<link, attempt, closed, reconnect, told, cuts>>

PongTimedOut == /\ pong = 0
                /\ IF link = "none"
                   THEN pong' = Off /\ UNCHANGED <<link, attempt, closed, reconnect, ping, told>>
                   ELSE HandleDrop
                /\ UNCHANGED cuts

\* The reconnect timer calls connect(), which does nothing beside a socket or
\* after close().
Reconnect == /\ reconnect = 0
             /\ reconnect' = Off
             /\ link' = IF link = "none" /\ ~closed THEN "connecting" ELSE link
             /\ UNCHANGED <<attempt, closed, ping, pong, told, cuts>>

\* The function subscribeToPayments returned.
Unsubscribe == /\ ~closed
               /\ closed' = TRUE
               /\ reconnect' = Off /\ ping' = Off /\ pong' = Off
               /\ link' = "none"
               /\ UNCHANGED <<attempt, told, cuts>>

Next == \/ Tick \/ Open \/ Message \/ Drop \/ Silence \/ Ping
        \/ PongTimedOut \/ Reconnect \/ Unsubscribe

(* Time passes and timers fire; a connection that is not refused opens.     *)
Fairness == /\ WF_vars(Tick) /\ WF_vars(Ping) /\ WF_vars(PongTimedOut)
            /\ WF_vars(Reconnect) /\ WF_vars(Open)
Spec == Init /\ [][Next]_vars /\ Fairness
----------------------------------------------------------------------------
(* A subscriber that threw when told of a dropped connection is not         *)
(* connected again: handleDrop never came to set the timer.                 *)
Stalled == told = "threw" /\ link = "none"

(* There is one way on at any time: a socket or the timer for the next one, *)
(* never both, and neither only after such a subscriber; a watchdog only    *)
(* beside an open socket.  After close() nothing is connected and nothing   *)
(* watched, though the timer of a drop may still run out.                   *)
OneWayOn ==
  /\ ~closed => ((link = "none") <=> (reconnect # Off \/ Stalled))
  /\ Stalled => reconnect = Off
  /\ (ping # Off \/ pong # Off) => IsOpen
  /\ closed => link = "none"

(* A connection that went silent is noticed and replaced, unless it was     *)
(* given up by its subscriber, or the subscriber threw when told of it.     *)
Silent == link = "silent"
Replaced == link \in {"connecting", "open"} \/ closed \/ Stalled
SilenceIsNoticed == Silent ~> Replaced
=============================================================================
