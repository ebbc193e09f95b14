---------------------------- MODULE LiveUpdates ----------------------------
(***************************************************************************)
(* Live indexer updates for one merchant: the registry of event streams in  *)
(* the server process (lib/sync-events.ts) and the tabs that subscribe and  *)
(* reconnect (hooks/useSyncEvents.ts).  The registry maps the merchant to a *)
(* set object; an emptied set is taken out and a later subscriber makes a   *)
(* new one, so a stream remembers which set it joined.                      *)
(***************************************************************************)
EXTENDS Naturals, FiniteSets

CONSTANTS Tabs,
          Streams,     \* connections opened, in all
          MaxRetry,    \* doublings up to RECONNECT_MAX_MS
          MaxRuns      \* bound: sync runs that are announced

VARIABLES tab,         \* useSyncEvents in each tab
          stream,      \* the server's side of each connection
          members,     \* the streams in each set object
          registered,  \* the set the map holds; 0 for none
          runs         \* runs announced so far
vars == <<tab, stream, members, registered, runs>>

SetObjects == 1..Cardinality(Streams)
NoStream == [state |-> "unused", set |-> 0]
NoSource == "none"

Init == /\ tab = [t \in Tabs |-> [state |-> "connecting", source |-> NoSource,
                                  retry |-> 0, last |-> 0]]
        /\ stream = [s \in Streams |-> NoStream]
        /\ members = [k \in SetObjects |-> {}]
        /\ registered = 0
        /\ runs = 0

----------------------------------------------------------------------------
(* createSyncStream and registerSubscriber: join the merchant's set, or a   *)
(* new one when the map holds none.                                         *)
NewSet == CHOOSE k \in SetObjects : \A s \in Streams : stream[s].set # k
Register(t, s) ==
  LET k == IF registered = 0 THEN NewSet ELSE registered IN
  /\ stream' = [stream EXCEPT ![s] = [state |-> "live", set |-> k]]
  /\ members' = [members EXCEPT ![k] = @ \cup {s}]
  /\ registered' = k
  /\ tab' = [tab EXCEPT ![t].state = "open", ![t].source = s, ![t].retry = 0]

Connect(t) == /\ tab[t].state = "connecting"
              /\ \E s \in Streams : stream[s].state = "unused" /\ Register(t, s)
              /\ UNCHANGED runs

\* The connection is refused, or breaks: onerror closes the source and sets
\* a timer, twice as long as the last.
Retrying(source) == [source EXCEPT !.state = "waiting", !.source = NoSource,
                       !.retry = IF @ < MaxRetry THEN @ + 1 ELSE MaxRetry]
Refused(t) == /\ tab[t].state = "connecting" /\ tab[t].retry < MaxRetry
              /\ tab' = [tab EXCEPT ![t] = Retrying(@)]
              /\ UNCHANGED <<stream, members, registered, runs>>
Lost(t) == /\ tab[t].state = "open"
           /\ stream' = [stream EXCEPT ![tab[t].source].state = "cancelled"]
           /\ tab' = [tab EXCEPT ![t] = Retrying(@)]
           /\ UNCHANGED <<members, registered, runs>>
RetryTimer(t) == /\ tab[t].state = "waiting"
                 /\ tab' = [tab EXCEPT ![t].state = "connecting"]
                 /\ UNCHANGED <<stream, members, registered, runs>>
Dispose(t) == /\ tab[t].state # "disposed"
              /\ tab' = [tab EXCEPT ![t].state = "disposed", ![t].source = NoSource]
              /\ stream' = IF tab[t].state = "open"
                           THEN [stream EXCEPT ![tab[t].source].state = "cancelled"] ELSE stream
              /\ UNCHANGED <<members, registered, runs>>

----------------------------------------------------------------------------
\* enqueue on a cancelled stream throws, and remove() drops it.
Dropped == {s \in Streams : stream[s].state # "live"}
Prune == /\ members' = [members EXCEPT ![registered] = @ \ Dropped]
         /\ registered' = IF members[registered] \subseteq Dropped THEN 0 ELSE registered

\* A run ends: broadcastSyncEvent reaches the streams of the map's set.
Broadcast == /\ runs < MaxRuns /\ runs' = runs + 1
             /\ IF registered = 0 THEN UNCHANGED <<members, registered, tab>>
                ELSE /\ Prune
                     /\ tab' = [t \in Tabs |-> IF tab[t].source \in members[registered]
                                               THEN [tab[t] EXCEPT !.last = runs + 1] ELSE tab[t]]
             /\ UNCHANGED stream

Heartbeat == /\ registered # 0 /\ members[registered] \cap Dropped # {}
             /\ Prune
             /\ UNCHANGED <<tab, stream, runs>>

\* Mutant of Unregistered: cleanup takes out the set only once it is empty.
UnregisteredLate(s) == members
Unregistered(s) == [members EXCEPT ![stream[s].set] = @ \ {s}]

(* The request's abort event: the cleanup registerSubscriber returned.  It  *)
(* deletes the map's entry when its own set is empty.                       *)
Abort(s) == /\ stream[s].state = "cancelled"
            /\ stream' = [stream EXCEPT ![s].state = "released"]
            /\ members' = Unregistered(s)
            /\ registered' = IF members'[stream[s].set] = {} THEN 0 ELSE registered
            /\ UNCHANGED <<tab, runs>>

Next == \/ Broadcast \/ Heartbeat
        \/ \E t \in Tabs : Connect(t) \/ Refused(t) \/ Lost(t) \/ RetryTimer(t) \/ Dispose(t)
        \/ \E s \in Streams : Abort(s)

\* The runtime reports every broken connection.
Spec == Init /\ [][Next]_vars /\ \A s \in Streams : WF_vars(Abort(s))
----------------------------------------------------------------------------
Cancelled(s) == stream[s].state = "cancelled"
Released(s) == \A k \in SetObjects : s \notin members[k]

(* A client that dropped its connection leaves the registry ("dead clients  *)
(* never pile up"), whatever else joins or leaves its set meanwhile.        *)
DeadAreReleased == \A s \in Streams : Cancelled(s) ~> Released(s)

(* "the sync route notifies connected subscribers the moment a run          *)
(* finishes": every stream a tab holds open is in the map's set.            *)
OpenStreamsAreNotified ==
  \A t \in Tabs : tab[t].state = "open" =>
    registered # 0 /\ tab[t].source \in members[registered]
=============================================================================
