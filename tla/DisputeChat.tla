----------------------------- MODULE DisputeChat ----------------------------
(***************************************************************************)
(* The negotiation chat of one dispute: the room kept in memory, the       *)
(* streams it is relayed over, and useDisputeChat in the pages that have   *)
(* it open.  A page loads the history, then subscribes; what it sends      *)
(* comes back to it twice, as the answer and over its stream.              *)
(*                                                                         *)
(* Messages are numbered as they are appended.                             *)
(***************************************************************************)
EXTENDS Integers, Sequences, FiniteSets, SequencesExt

CONSTANTS
  Pages,
  MaxSent, MaxBreaks    \* bounds: messages, and connections that break

None == 0

VARIABLES
  sent,       \* the room: messages 1 .. sent
  page,       \* the state of the hook in each page
  gen,        \* the subscriber set each page's stream was put into
  dead,       \* broken streams the server has not cleaned up, in a set or pruned
  current,    \* the set in the map, or None
  made,       \* how many sets there were
  since,      \* what was sent when the page's stream joined, or -1
  breaks

vars == <<sent, page, gen, dead, current, made, since, breaks>>
server == <<gen, dead, current, made, since>>

Cut == -1

Fresh ==
  [pc |-> "history",      \* bootstrap: "history", "unlocking", "ready"
   cancelled |-> FALSE,   \* the page is closed
   history |-> 0, list |-> <<>>,
   stream |-> "none",     \* the EventSource: "none", "opening", "open"
   queue |-> <<>>,        \* events on their way
   decorating |-> {},     \* messages being decrypted
   sending |-> None]      \* the message whose answer is awaited

Init ==
  /\ sent = 0
  /\ page = [p \in Pages |-> Fresh]
  /\ gen = [p \in Pages |-> None] /\ dead = {} /\ current = None /\ made = 0
  /\ since = [p \in Pages |-> Cut]
  /\ breaks = 0

Live(s) == {p \in Pages : gen[p] = s}

-----------------------------------------------------------------------------
(* Opening the chat.                                                       *)

LoadHistory(p) ==
  /\ page[p].pc = "history"
  /\ page' = [page EXCEPT ![p] = [@ EXCEPT !.pc = "unlocking", !.history = sent]]
  /\ UNCHANGED <<sent, server, breaks>>

\* The history replaces the list, then the EventSource is opened, even when
\* the page was closed meanwhile.
Bootstrap(p) ==
  /\ page[p].pc = "unlocking"
  /\ page' = [page EXCEPT
       ![p].pc = "ready", ![p].stream = "opening",
       ![p].list = IF page[p].cancelled THEN @ ELSE [m \in 1 .. page[p].history |-> m]]
  /\ UNCHANGED <<sent, server, breaks>>

RegisterSubscriber(p) ==
  /\ page[p].stream = "opening"
  /\ page' = [page EXCEPT ![p].stream = "open"]
  /\ made' = IF current = None THEN made + 1 ELSE made
  /\ current' = IF current = None THEN made + 1 ELSE current
  /\ gen' = [gen EXCEPT ![p] = current']
  /\ since' = [since EXCEPT ![p] = sent]
  /\ UNCHANGED <<sent, dead, breaks>>

\* The browser opens the stream again by itself; the server is told later.
Break(p) ==
  /\ page[p].stream = "open"
  /\ breaks < MaxBreaks /\ breaks' = breaks + 1
  /\ page' = [page EXCEPT ![p] = [@ EXCEPT !.stream = "opening", !.queue = <<>>]]
  /\ dead' = dead \cup {[page |-> p, nth |-> breaks', set |-> gen[p], in |-> TRUE]}
  /\ gen' = [gen EXCEPT ![p] = None]
  /\ since' = [since EXCEPT ![p] = Cut]
  /\ UNCHANGED <<sent, current, made>>

\* Pages whose set left the map hear nothing more.
Evicted == [p \in Pages |-> IF gen[p] # None /\ current' # gen[p] THEN Cut ELSE since[p]]

Empty(s, streams) == Live(s) = {} /\ ~ \E d \in streams : d.set = s /\ d.in

\* The abort of a stream: its own set shrinks, and if it is empty the map's
\* entry goes, whatever set that is by now.
Unregister(d) ==
  /\ dead' = dead \ {d}
  /\ current' = IF Empty(d.set, dead') THEN None ELSE current
  /\ since' = Evicted
  /\ UNCHANGED <<sent, page, gen, made, breaks>>

\* A heartbeat or a broadcast finds a stream of the map's set closed; the
\* abort still comes.
Prune(d) ==
  /\ d.in /\ d.set = current
  /\ dead' = (dead \ {d}) \cup {[d EXCEPT !.in = FALSE]}
  /\ current' = IF Empty(d.set, dead') THEN None ELSE current
  /\ UNCHANGED <<sent, page, gen, made, since, breaks>>

-----------------------------------------------------------------------------
(* Messages.                                                               *)

\* Mutant of Joined: what is there already is shown again.
JoinedAgain(list, m) == Append(list, m)

Joined(list, m) == IF Contains(list, m) THEN list ELSE Append(list, m)

\* appendMessage and broadcastDisputeChatMessage: one handler.
Post(p) ==
  /\ page[p].pc # "history" /\ ~page[p].cancelled /\ page[p].sending = None
  /\ sent < MaxSent /\ sent' = sent + 1
  /\ page' = [q \in Pages |->
       [page[q] EXCEPT !.sending = IF q = p THEN sent + 1 ELSE @,
                       !.queue = IF current # None /\ gen[q] = current
                                 THEN Append(@, sent + 1) ELSE @]]
  /\ UNCHANGED <<server, breaks>>

Answer(p) ==
  /\ page[p].sending # None
  /\ page' = [page EXCEPT
       ![p].sending = None,
       ![p].list = IF page[p].cancelled THEN @ ELSE Joined(@, page[p].sending)]
  /\ UNCHANGED <<sent, server, breaks>>

\* The POST fails or its answer is lost: the message may be there all the same.
AnswerLost(p) ==
  /\ page[p].sending # None
  /\ page' = [page EXCEPT ![p].sending = None]
  /\ UNCHANGED <<sent, server, breaks>>

Event(p) ==
  /\ page[p].queue # <<>>
  /\ page' = [page EXCEPT ![p].queue = Tail(@),
                          ![p].decorating = @ \cup {Head(page[p].queue)}]
  /\ UNCHANGED <<sent, server, breaks>>

\* Decryptions end in any order.
Decorated(p) ==
  /\ \E m \in page[p].decorating :
       page' = [page EXCEPT
         ![p].decorating = @ \ {m},
         ![p].list = IF page[p].cancelled THEN @ ELSE Joined(@, m)]
  /\ UNCHANGED <<sent, server, breaks>>

\* The effect's cleanup closes the EventSource there is.
Close(p) ==
  /\ ~page[p].cancelled
  /\ page' = [page EXCEPT ![p] = [@ EXCEPT !.cancelled = TRUE, !.stream = "none", !.queue = <<>>]]
  /\ dead' = IF gen[p] = None THEN dead
              ELSE dead \cup {[page |-> p, nth |-> None, set |-> gen[p], in |-> TRUE]}
  /\ gen' = [gen EXCEPT ![p] = None]
  /\ since' = [since EXCEPT ![p] = Cut]
  /\ UNCHANGED <<sent, current, made, breaks>>

Next ==
  \/ \E p \in Pages :
       \/ LoadHistory(p) \/ Bootstrap(p) \/ RegisterSubscriber(p)
       \/ Break(p) \/ Close(p)
       \/ Post(p) \/ Answer(p) \/ AnswerLost(p)
       \/ Event(p) \/ Decorated(p)
  \/ \E d \in dead : Unregister(d) \/ Prune(d)

Spec == Init /\ [][Next]_vars

-----------------------------------------------------------------------------
(* A page shows no message twice, though its own come back to it by two    *)
(* ways and in any order; and while its stream holds and its set is in the *)
(* map, everything sent since it joined is shown or on its way.            *)
EachMessageOnce ==
  \A p \in Pages :
    /\ \A i, j \in DOMAIN page[p].list : page[p].list[i] = page[p].list[j] => i = j
    /\ since[p] # Cut /\ ~page[p].cancelled =>
         since[p] + 1 .. sent \subseteq
           ToSet(page[p].list) \cup ToSet(page[p].queue) \cup page[p].decorating

-----------------------------------------------------------------------------
(* The inductive invariant behind EachMessageOnce.                          *)
Hooks == [pc : {"history", "unlocking", "ready"}, cancelled : BOOLEAN, history : Nat,
          list : Seq(Nat), stream : {"none", "opening", "open"}, queue : Seq(Nat),
          decorating : SUBSET Nat, sending : Nat]

NoneTwice(list) == \A i, j \in DOMAIN list : list[i] = list[j] => i = j

Received(k) == ToSet(k.list) \cup ToSet(k.queue) \cup k.decorating

(* A page whose stream holds is in the set the room sends to, past its      *)
(* history, and has or will have all that was sent since it joined.         *)
RoomInv ==
  /\ sent \in Nat /\ made \in Nat /\ current \in Nat
  /\ page \in [Pages -> Hooks] /\ gen \in [Pages -> Nat] /\ since \in [Pages -> Int]
  /\ \A p \in Pages :
       /\ NoneTwice(page[p].list)
       /\ page[p].stream # "none" => page[p].pc = "ready"
       /\ since[p] # Cut => gen[p] = current /\ current # None /\ page[p].pc = "ready"
       /\ since[p] # Cut /\ ~page[p].cancelled => since[p] + 1 .. sent \subseteq Received(page[p])
=============================================================================
