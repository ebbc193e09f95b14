--------------------------- MODULE DashboardTable ---------------------------
(****************************************************************************)
(* The transaction table of the dashboard: the page number in the URL, the  *)
(* SWR cache keyed by page, the fifteen second poll of the visible page,    *)
(* the prefetch of the next one, the retry button and the sync button, and  *)
(* the gate that stops all requests of a disconnected browser.              *)
(****************************************************************************)
EXTENDS PaymentQuery

CONSTANTS
  PageSize,
  Pages,        \* page numbers the URL may name
  MaxChanges,   \* bound: changes of the rows
  MaxMoves,     \* bound: page changes, losses of the connection and reloads
  MaxFaults     \* bound: requests that fail

NoAnswer == [list |-> <<>>, total |-> -1, pages |-> 0]

VARIABLES
  rows,      \* the payments on the server
  page,      \* the page in the URL
  online,
  cache,     \* SWR's cache: the answer kept for each page
  failed,    \* the pages whose last request failed
  request,   \* of each page, the request under way and what it has read
  sync,      \* the phase of the sync button
  changes, moves, faults

vars == <<rows, page, online, cache, failed, request, sync, changes, moves, faults>>

Quiet == [state |-> "none", list |-> <<>>, total |-> 0, pages |-> 0]

Init ==
  /\ rows \in SUBSET Payment /\ page = 1 /\ online = TRUE
  /\ cache = [k \in Pages |-> NoAnswer] /\ failed = {}
  /\ request = [k \in Pages |-> Quiet]
  /\ sync = "idle" /\ changes = 0 /\ moves = 0 /\ faults = 0

TotalPagesShown == IF cache[page] = NoAnswer THEN 0 ELSE cache[page].pages

(* The key of the visible page, null while the browser is offline, and the  *)
(* key of the prefetch.                                                     *)
Visible == IF online THEN {page} ELSE {}
Prefetched == IF TotalPagesShown > page THEN {page + 1} ELSE {}

\* Mutant of Asks: an answer in the cache is as good as a new one.
AsksOnce(k) == k \in Visible \cup Prefetched /\ cache[k] = NoAnswer

(* The visible page is requested when its key appears and at every tick of  *)
(* the poll; the next page when it is not there yet.                        *)
Asks(k) == k \in Visible \/ (k \in Prefetched /\ cache[k] = NoAnswer)

Ask(k) ==
  /\ request[k].state = "none" /\ Asks(k)
  /\ request' = [request EXCEPT ![k].state = "asked"]
  /\ UNCHANGED <<rows, page, online, cache, failed, sync, changes, moves, faults>>

(* The route reads the page and then, in a statement of its own, the        *)
(* totals.                                                                  *)
ReadPage(k) ==
  /\ request[k].state = "asked"
  /\ request' = [request EXCEPT ![k].state = "listed",
                                ![k].list = OffsetPage(rows, k, PageSize)]
  /\ UNCHANGED <<rows, page, online, cache, failed, sync, changes, moves, faults>>

ReadTotals(k) ==
  /\ request[k].state = "listed"
  /\ request' = [request EXCEPT ![k].state = "answered", ![k].total = Total(rows),
                                ![k].pages = TotalPages(rows, PageSize)]
  /\ UNCHANGED <<rows, page, online, cache, failed, sync, changes, moves, faults>>

Arrive(k) ==
  /\ request[k].state = "answered"
  /\ cache' = [cache EXCEPT ![k] = [list |-> request[k].list, total |-> request[k].total,
                                    pages |-> request[k].pages]]
  /\ request' = [request EXCEPT ![k] = Quiet]
  /\ failed' = failed \ {k}
  /\ UNCHANGED <<rows, page, online, sync, changes, moves, faults>>

(* No answer, or a status that is not ok: the error replaces the table, and *)
(* the cached answer stays.                                                 *)
Lose(k) ==
  /\ request[k].state # "none" /\ faults < MaxFaults
  /\ request' = [request EXCEPT ![k] = Quiet]
  /\ failed' = failed \cup {k} /\ faults' = faults + 1
  /\ UNCHANGED <<rows, page, online, cache, sync, changes, moves>>

(* Previous, Next and the page buttons, or the way back to the first page   *)
(* from one that has no rows any more.                                      *)
Buttons ==
  IF page \in failed \/ cache[page] = NoAnswer THEN {}
  ELSE (IF TotalPagesShown > 1 THEN 1..TotalPagesShown ELSE {})
       \cup (IF cache[page].list = <<>> /\ cache[page].total > 0 THEN {1} ELSE {})

GoToPage(next) ==
  /\ moves < MaxMoves
  /\ page' = next /\ moves' = moves + 1
  /\ UNCHANGED <<rows, online, cache, failed, request, sync, changes, faults>>

Connection ==
  /\ moves < MaxMoves
  /\ online' = ~online /\ moves' = moves + 1
  /\ UNCHANGED <<rows, page, cache, failed, request, sync, changes, faults>>

(* A link or a reload with ?page=N starts with an empty cache; whatever is  *)
(* not a whole number from 1 is page 1.                                     *)
Load(next) ==
  /\ moves < MaxMoves
  /\ page' = next /\ moves' = moves + 1
  /\ cache' = [k \in Pages |-> NoAnswer] /\ failed' = {}
  /\ request' = [k \in Pages |-> Quiet] /\ sync' = "idle"
  /\ UNCHANGED <<rows, online, changes, faults>>

(* The sync button: one run at a time, a cooldown when the server asks for  *)
(* it, a new request of the page when it is done.                           *)
PressSync ==
  /\ online /\ sync \in {"idle", "done", "error"}
  /\ moves < MaxMoves /\ moves' = moves + 1
  /\ sync' = "running"
  /\ UNCHANGED <<rows, page, online, cache, failed, request, changes, faults>>

SyncAnswered ==
  /\ sync = "running"
  /\ sync' \in {"done", "error", "cooldown"}
  /\ \/ rows' = rows /\ UNCHANGED changes
     \/ /\ sync' # "cooldown" /\ changes < MaxChanges /\ changes' = changes + 1
        /\ \E p \in Payment \ rows : rows' = rows \cup {p}
  /\ UNCHANGED <<page, online, cache, failed, request, moves, faults>>

SyncSettles ==
  /\ sync \in {"done", "error", "cooldown"}
  /\ sync' = "idle"
  /\ UNCHANGED <<rows, page, online, cache, failed, request, changes, moves, faults>>

(* The scheduled indexer books a payment or rewinds.                        *)
Index ==
  /\ changes < MaxChanges /\ changes' = changes + 1
  /\ \/ \E p \in Payment \ rows : rows' = rows \cup {p}
     \/ \E p \in rows : rows' = {q \in rows : TsOf[q] < TsOf[p]}
  /\ UNCHANGED <<page, online, cache, failed, request, sync, moves, faults>>

Next ==
  \/ \E k \in Pages : Ask(k) \/ ReadPage(k) \/ ReadTotals(k) \/ Arrive(k) \/ Lose(k) \/ Load(k)
  \/ \E next \in Buttons \cap Pages : GoToPage(next)
  \/ Connection \/ PressSync \/ SyncAnswered \/ SyncSettles \/ Index

Spec == Init /\ [][Next]_vars

(* The poll ticks, the route answers, and answers arrive, for each page.    *)
Progress(k) == Ask(k) \/ ReadPage(k) \/ ReadTotals(k) \/ Arrive(k)

FairSpec == Spec /\ \A k \in Pages : WF_vars(Progress(k))

UpToDate ==
  /\ page \notin failed
  /\ cache[page] = [list |-> OffsetPage(rows, page, PageSize),
                    total |-> Total(rows), pages |-> TotalPages(rows, PageSize)]

(****************************************************************************)
(* When the rows no longer change and the browser stays connected, the      *)
(* table ends up showing the rows and totals of the page it is on, without  *)
(* an error, whatever was cached, prefetched, lost or half read before.     *)
(****************************************************************************)
CatchesUp == <>[](online => UpToDate)
==============================================================================
