------------------------------- MODULE Login -------------------------------
(***************************************************************************)
(* Signing in with a wallet (app/login/page.tsx, api/auth/challenge and     *)
(* verify, challenge_nonces in lib/db.ts, createSession in lib/auth.ts):    *)
(* the challenge is a transaction with time bounds and a stored nonce; the  *)
(* signed one is exchanged, once, for a session.  Challenges of several     *)
(* pages overlap, each sweeps the others' nonces, a signed challenge may be *)
(* posted again, calls die between two statements.                          *)
(*                                                                         *)
(* Time is counted in ticks.  A challenge is named by its nonce.            *)
(***************************************************************************)
EXTENDS Integers, FiniteSets

CONSTANTS Nonces,      \* challenges built, in all
          Posts,       \* calls of /api/auth/verify, in all
          Before,      \* how far minTime lies back (60 s)
          TTL,         \* CHALLENGE_TTL_SECONDS, up to maxTime (5 min)
          SweepAge,    \* maxAgeMs of sweepExpiredNonces (10 min)
          CallLife,    \* how long the platform lets a call run
          MaxFaults,   \* bound: calls that die
          MaxClock     \* bound: the last tick

LoginAssumption ==
  /\ Before \in Nat /\ TTL \in Nat /\ CallLife \in Nat /\ SweepAge \in Nat
  /\ SweepAge >= TTL + CallLife
  /\ MaxFaults \in Nat /\ MaxClock \in Nat

VARIABLES time,
          page,      \* the login page that asked for each challenge
          built,     \* when the challenge's transaction was built
          table,     \* challenge_nonces
          post,      \* the calls of verify
          sessions,  \* ghost: sessions created for each challenge
          deaths
vars == <<time, page, built, table, post, sessions, deaths>>

Absent == -1
NoPost == [pc |-> "free", nonce |-> "none", since |-> 0, result |-> "none"]

Init == /\ time = 0
        /\ page = [n \in Nonces |-> "idle"]
        /\ built = [n \in Nonces |-> Absent]
        /\ table = [n \in Nonces |-> [at |-> Absent, consumed |-> FALSE]]
        /\ post = [p \in Posts |-> NoPost]
        /\ sessions = [n \in Nonces |-> 0]
        /\ deaths = 0

Running(p) == post[p].pc \notin {"free", "over"}

\* A call of challenge or verify ends within CallLife.
Tick == /\ time < MaxClock
        /\ \A n \in Nonces : page[n] \in {"storing", "sweeping"} => time < built[n] + CallLife
        /\ \A p \in Posts : Running(p) => time < post[p].since + CallLife
        /\ time' = time + 1
        /\ UNCHANGED <<page, built, table, post, sessions, deaths>>

----------------------------------------------------------------------------
(* The page: readStatus, or connect when the site has no address yet; then  *)
(* the challenge is fetched for that address.                               *)
Statuses == {"unavailable", "disconnected", "connected", "error"}
Wallet(status, answer) ==
  IF status \in {"unavailable", "connected"} THEN status ELSE answer

HandleLogin(n) ==
  /\ page[n] = "idle"
  /\ \E status, answer \in Statuses, known \in BOOLEAN :
       IF Wallet(status, answer) = "connected" /\ known
       THEN page' = [page EXCEPT ![n] = "storing"] /\ built' = [built EXCEPT ![n] = time]
       ELSE page' = [page EXCEPT ![n] = "failed"] /\ UNCHANGED built
  /\ UNCHANGED <<time, table, post, sessions, deaths>>

StoreNonce(n) ==
  /\ page[n] = "storing"
  /\ table' = [table EXCEPT ![n] = [at |-> time, consumed |-> FALSE]]
  /\ page' = [page EXCEPT ![n] = "sweeping"]
  /\ UNCHANGED <<time, built, post, sessions, deaths>>

\* Mutant of Stale: what has outlived nothing but the call goes.
StaleEarly(row) == row.at # Absent /\ (row.consumed \/ row.at < time)
Stale(row) == row.at # Absent /\ (row.consumed \/ row.at < time - SweepAge)

(* The sweep takes the rows of every merchant; then the challenge is sent,  *)
(* and the wallet signs it or refuses.                                      *)
SweepExpiredNonces(n) ==
  /\ page[n] = "sweeping"
  /\ table' = [m \in Nonces |-> IF Stale(table[m]) THEN [at |-> Absent, consumed |-> FALSE]
                                ELSE table[m]]
  /\ \E answer \in {"signed", "failed"} : page' = [page EXCEPT ![n] = answer]
  /\ UNCHANGED <<time, built, post, sessions, deaths>>

----------------------------------------------------------------------------
(* The signed challenge arrives, the first time or once more. *)
Verify(n) ==
  LET free == {p \in Posts : post[p].pc = "free"} IN
  /\ page[n] = "signed"
  /\ free # {}
  /\ post' = [post EXCEPT ![CHOOSE p \in free : TRUE] =
                [NoPost EXCEPT !.pc = "received", !.nonce = n, !.since = time]]
  /\ UNCHANGED <<time, page, built, table, sessions, deaths>>

InTimeBounds(n) == built[n] - Before <= time /\ time <= built[n] + TTL

\* Time bounds, source account, signature and shape, without a statement
\* that writes; a challenge of this server passes all but the first.
CheckChallenge(p) ==
  /\ post[p].pc = "received"
  /\ post' = IF InTimeBounds(post[p].nonce)
             THEN [post EXCEPT ![p].pc = "checked"]
             ELSE [post EXCEPT ![p].pc = "over", ![p].result = "expired"]
  /\ UNCHANGED <<time, page, built, table, sessions, deaths>>

\* Mutant of Unspent: the row is looked up, not its flag.
AnyRow(row) == row.at # Absent
Unspent(row) == row.at # Absent /\ ~row.consumed

\* One UPDATE ... WHERE consumed = false; its row count decides.
ConsumeNonce(p) ==
  LET n == post[p].nonce IN
  /\ post[p].pc = "checked"
  /\ IF Unspent(table[n])
     THEN /\ table' = [table EXCEPT ![n].consumed = TRUE]
          /\ post' = [post EXCEPT ![p].pc = "consumed"]
     ELSE /\ post' = [post EXCEPT ![p].pc = "over", ![p].result = "reused"]
          /\ UNCHANGED table
  /\ UNCHANGED <<time, page, built, sessions, deaths>>

CreateSession(p) ==
  /\ post[p].pc = "consumed"
  /\ post' = [post EXCEPT ![p].pc = "over", ![p].result = "session"]
  /\ sessions' = [sessions EXCEPT ![post[p].nonce] = @ + 1]
  /\ UNCHANGED <<time, page, built, table, deaths>>

Die == /\ deaths < MaxFaults /\ deaths' = deaths + 1
       /\ \/ \E n \in Nonces : /\ page[n] \in {"storing", "sweeping"}
                               /\ page' = [page EXCEPT ![n] = "failed"]
                               /\ UNCHANGED post
          \/ \E p \in Posts : /\ Running(p)
                              /\ post' = [post EXCEPT ![p].pc = "over", ![p].result = "error"]
                              /\ UNCHANGED page
       /\ UNCHANGED <<time, built, table, sessions>>

Next == \/ Tick \/ Die
        \/ \E n \in Nonces : HandleLogin(n) \/ StoreNonce(n) \/ SweepExpiredNonces(n) \/ Verify(n)
        \/ \E p \in Posts : CheckChallenge(p) \/ ConsumeNonce(p) \/ CreateSession(p)

Spec == Init /\ [][Next]_vars
----------------------------------------------------------------------------
(* A signed challenge is good for one session, and for the first call that  *)
(* comes with it within its time bounds: two calls never both get one, and  *)
(* none is told "reused" because another login's sweep took the nonce.      *)
OneSessionEach ==
  /\ \A n \in Nonces : sessions[n] <= 1
  /\ \A p \in Posts : post[p].result = "reused" =>
       \E q \in Posts \ {p} : /\ post[q].nonce = post[p].nonce
                              /\ \/ post[q].pc = "consumed"
                                 \/ post[q].result \in {"session", "error"}

-----------------------------------------------------------------------------
(* The inductive invariant behind OneSessionEach.                           *)
Row == [at : Int, consumed : BOOLEAN]

Call == [pc : {"free", "received", "checked", "consumed", "over"}, nonce : Nonces \cup {"none"},
         since : Nat, result : {"none", "expired", "reused", "session", "error"}]

Typed == /\ time \in Nat
         /\ page \in [Nonces -> {"idle", "storing", "sweeping", "signed", "failed"}]
         /\ built \in [Nonces -> Int]
         /\ table \in [Nonces -> Row]
         /\ post \in [Posts -> Call]
         /\ sessions \in [Nonces -> Nat]

(* A call that carries a challenge has one that was signed, and time left.  *)
CallsInv ==
  \A p \in Posts :
    /\ post[p].pc # "free" => post[p].nonce \in Nonces /\ page[post[p].nonce] = "signed"
    /\ post[p].result # "none" => post[p].pc = "over"
    /\ Running(p) => post[p].since <= time /\ time <= post[p].since + CallLife
    /\ post[p].pc = "checked" => post[p].since <= built[post[p].nonce] + TTL

(* The call that has spent the nonce of a challenge.                        *)
Spends(p, n) == post[p].nonce = n /\ (post[p].pc = "consumed" \/ post[p].result \in {"session", "error"})

(* The row of a challenge is there until it is spent, or until it is too    *)
(* old for any call that passed the check.                                  *)
RowsInv ==
  \A n \in Nonces :
    /\ page[n] \in {"sweeping", "signed"} =>
         \/ Unspent(table[n]) /\ table[n].at >= built[n]
         \/ \E p \in Posts : Spends(p, n)
         \/ time > built[n] + TTL + CallLife
    /\ page[n] # "signed" => sessions[n] = 0
    /\ built[n] <= time

(* Whoever spent the nonce was alone, and has made at most one session.     *)
SpentInv ==
  /\ \A n \in Nonces : sessions[n] <= 1 /\ (sessions[n] = 1 => ~Unspent(table[n]))
  /\ \A p \in Posts : post[p].pc = "consumed" =>
       /\ sessions[post[p].nonce] = 0 /\ ~Unspent(table[post[p].nonce])
       /\ \A q \in Posts : post[q].pc = "consumed" /\ post[q].nonce = post[p].nonce => p = q

ReusedInv == \A p \in Posts, n \in Nonces :
               post[p].result = "reused" /\ post[p].nonce = n => \E q \in Posts \ {p} : Spends(q, n)

LoginInv == Typed /\ CallsInv /\ RowsInv /\ SpentInv /\ ReusedInv
=============================================================================
