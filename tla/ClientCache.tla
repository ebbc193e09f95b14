----------------------------- MODULE ClientCache ----------------------------
(***************************************************************************)
(* AccensaClient of packages/sdk/src/client.ts: reads served from a cache  *)
(* in memory, fetched with retries under one timeout when they miss, and   *)
(* the cache dropped after a write or a sync event.                        *)
(*                                                                         *)
(* What the server holds is a version, counted up by every write.          *)
(***************************************************************************)
EXTENDS Integers

CONSTANTS
  Calls, Paths,
  TTL,          \* cacheTtlMs, 0 to disable
  Timeout,      \* timeoutMs, for all attempts of a call
  MaxRetries,
  MaxVersions, MaxClears, MaxClock    \* bounds

CacheAssumption == {TTL, MaxRetries} \subseteq Nat /\ Timeout \in Nat \ {0}

VARIABLES
  clock,
  version,    \* what the server holds
  cache,      \* of a path: the entry, or None
  call,       \* the calls that may overlap, and what each last returned
  clears,     \* how often the cache was dropped
  floor       \* what the server held when it last was

vars == <<clock, version, cache, call, clears, floor>>

None == [expires |-> -1]

\* What a body says, when the server said so, and how many clears were
\* behind the request for it.
Body == [version : 0 .. MaxVersions, at : 0 .. MaxClock, asked : 0 .. MaxClears]

Idle == [pc |-> "idle"]
Under(q) == call[q].pc \in {"asking", "reading"}

Init ==
  /\ clock = 0 /\ version = 0
  /\ cache = [p \in Paths |-> None]
  /\ call = [q \in Calls |-> Idle]
  /\ clears = 0 /\ floor = 0

Tick ==
  /\ clock < MaxClock /\ clock' = clock + 1
  /\ UNCHANGED <<version, cache, call, clears, floor>>

Write ==
  /\ version < MaxVersions /\ version' = version + 1
  /\ UNCHANGED <<clock, cache, call, clears, floor>>

\* After a write of the caller's, or with a sync event.
ClearCache ==
  /\ clears < MaxClears /\ clears' = clears + 1
  /\ cache' = [p \in Paths |-> None]
  /\ floor' = version
  /\ UNCHANGED <<clock, version, call>>

-----------------------------------------------------------------------------
(* getJson.                                                                *)

Fresh(p) == TTL > 0 /\ cache[p] # None /\ clock < cache[p].expires

Returned(body) == [pc |-> "returned", body |-> body, when |-> clock]

\* Mutant of CacheRead: a hit keeps the entry for another TTL.
CacheReadSlides(q, p) ==
  /\ ~Under(q) /\ Fresh(p)
  /\ call' = [call EXCEPT ![q] = Returned(cache[p].body)]
  /\ cache' = [cache EXCEPT ![p].expires = clock + TTL]
  /\ UNCHANGED <<clock, version, clears, floor>>

CacheRead(q, p) ==
  /\ ~Under(q) /\ Fresh(p)
  /\ call' = [call EXCEPT ![q] = Returned(cache[p].body)]
  /\ UNCHANGED <<clock, version, cache, clears, floor>>

CacheMiss(q, p) ==
  /\ ~Under(q) /\ ~Fresh(p)
  /\ cache' = [cache EXCEPT ![p] = IF TTL > 0 THEN None ELSE @]
  /\ call' = [call EXCEPT ![q] =
       [pc |-> "asking", path |-> p, attempt |-> 0, until |-> clock + Timeout, asked |-> clears]]
  /\ UNCHANGED <<clock, version, clears, floor>>

InTime(q) == clock < call[q].until

\* The server answers, and its body is on the way.
Answer(q) ==
  /\ call[q].pc = "asking" /\ InTime(q)
  /\ call' = [call EXCEPT ![q] =
       [pc |-> "reading", path |-> @.path, until |-> @.until,
        body |-> [version |-> version, at |-> clock, asked |-> @.asked]]]
  /\ UNCHANGED <<clock, version, cache, clears, floor>>

\* A 5xx, a 429, a lost connection, or the timeout, which is no AbortError.
Retry(q) ==
  /\ call[q].pc = "asking" /\ call[q].attempt < MaxRetries
  /\ call' = [call EXCEPT ![q].attempt = @ + 1]
  /\ UNCHANGED <<clock, version, cache, clears, floor>>

\* The retries are spent or not worth it, or the body breaks off or is no JSON.
Throw(q) ==
  /\ Under(q)
  /\ call' = [call EXCEPT ![q] = Idle]
  /\ UNCHANGED <<clock, version, cache, clears, floor>>

StoreCache(q) ==
  /\ call[q].pc = "reading" /\ InTime(q)
  /\ cache' = [cache EXCEPT ![call[q].path] =
       IF TTL > 0 THEN [expires |-> clock + TTL, body |-> call[q].body] ELSE @]
  /\ call' = [call EXCEPT ![q] = Returned(call[q].body)]
  /\ UNCHANGED <<clock, version, clears, floor>>

Next ==
  \/ Tick \/ Write \/ ClearCache
  \/ \E q \in Calls :
       \/ \E p \in Paths : CacheRead(q, p) \/ CacheMiss(q, p)
       \/ Answer(q) \/ Retry(q) \/ Throw(q) \/ StoreCache(q)

Spec == Init /\ [][Next]_vars

-----------------------------------------------------------------------------
TypeOK ==
  /\ clock \in 0 .. MaxClock /\ version \in 0 .. MaxVersions
  /\ cache \in [Paths -> {None} \cup [expires : Nat, body : Body]]
  /\ clears \in 0 .. MaxClears /\ floor \in 0 .. version

\* However reads, writes, retries and clears fall, what a read returns was
\* true within the TTL and one timeout before; and if it was asked for after
\* the cache was last dropped, it has what the server had then.
ReadsAreRecent ==
  \A q \in Calls : call[q].pc = "returned" =>
    LET body == call[q].body IN
      /\ call[q].when - body.at < TTL + Timeout
      /\ body.asked = clears => body.version >= floor

-----------------------------------------------------------------------------
(* The inductive invariant behind ReadsAreRecent.                           *)
Bodies == [version : Nat, at : Nat, asked : Nat]

Entries == [expires : Nat, body : Bodies]

Reads == [pc : {"idle"}]
         \cup [pc : {"asking"}, path : Paths, attempt : Nat, until : Nat, asked : Nat]
         \cup [pc : {"reading"}, path : Paths, until : Nat, body : Bodies]
         \cup [pc : {"returned"}, body : Bodies, when : Nat]

(* A body is not from the future, and not older than the drop of the cache  *)
(* it was asked for after.                                                  *)
Honest(body) == /\ body.at <= clock /\ body.asked <= clears /\ body.version <= version
                /\ body.asked = clears => body.version >= floor

(* An entry expires before TTL and a timeout have passed since its answer.  *)
KeptInv ==
  \A p \in Paths : cache[p] # None =>
    /\ cache[p] \in Entries
    /\ Honest(cache[p].body) /\ cache[p].expires < cache[p].body.at + TTL + Timeout

HeldInv ==
  \A q \in Calls :
    /\ call[q].pc = "asking" => call[q].until <= clock + Timeout /\ call[q].asked <= clears
    /\ call[q].pc = "reading" => Honest(call[q].body) /\ call[q].until <= call[q].body.at + Timeout
    /\ call[q].pc = "returned" => /\ Honest(call[q].body)
                                  /\ call[q].when - call[q].body.at < TTL + Timeout

CacheInv ==
  /\ clock \in Nat /\ version \in Nat /\ clears \in Nat /\ floor \in 0 .. version
  /\ cache = [p \in Paths |-> cache[p]] /\ call \in [Calls -> Reads]
  /\ KeptInv /\ HeldInv
=============================================================================
