----------------------------- MODULE SecureChat -----------------------------
(***************************************************************************)
(* The encrypted support chat of a merchant's browser: SecureChatClient,   *)
(* the transcript in localStorage, which the tabs of the browser share,    *)
(* and the component that holds a client.                                  *)
(*                                                                         *)
(* A key is the wallet and the salt it is derived from; a sealed message   *)
(* opens with the key it was sealed with and no other (external: Web       *)
(* Crypto).  A client is made when a component is mounted; what it has     *)
(* begun goes on when the component has gone.                              *)
(***************************************************************************)
EXTENDS Naturals, Sequences

CONSTANTS
  Clients, Wallets,
  MaxSends    \* bound: messages

None == "none"          \* no wallet
NoSession == [salt |-> 0]
NoKey == <<>>

VARIABLES
  stored,   \* the item in localStorage: a session, or none
  client,   \* of each component: pc, and its client's key and session
  salts,    \* how many sessions were created; a salt is drawn at random
  sends     \* how many messages there were

vars == <<stored, client, salts, sends>>

Fresh == [pc |-> "asking", wallet |-> None, loaded |-> NoSession, isNew |-> FALSE,
          key |-> NoKey, session |-> NoSession, sealing |-> {}, shown |-> <<>>]

Init ==
  /\ stored = NoSession
  /\ client = [c \in Clients |-> Fresh]
  /\ salts = 0
  /\ sends = 0

KeyOf(wallet, session) == <<wallet, session.salt>>

Set(c, value) == client' = [client EXCEPT ![c] = value]

-----------------------------------------------------------------------------
\* Freighter has no account to give.
NoWallet(c) ==
  /\ client[c].pc = "asking"
  /\ Set(c, [client[c] EXCEPT !.pc = "no-wallet"])
  /\ UNCHANGED <<stored, salts, sends>>

\* Mutant of BelongsToAnother: any transcript will do.
BelongsToNobody(wallet) == FALSE

\* There is a transcript, begun by another wallet.
BelongsToAnother(wallet) == stored # NoSession /\ stored.wallet # wallet

\* unlock up to its await: the session that is there, or a new one.
Unlock(c, wallet) ==
  /\ client[c].pc = "asking"
  /\ ~BelongsToAnother(wallet)
  /\ Set(c, [client[c] EXCEPT
       !.pc = "deriving", !.wallet = wallet, !.isNew = (stored = NoSession),
       !.loaded = IF stored # NoSession THEN stored
                  ELSE [wallet |-> wallet, salt |-> salts + 1, messages |-> <<>>]])
  /\ salts' = IF stored = NoSession THEN salts + 1 ELSE salts
  /\ UNCHANGED <<stored, sends>>

RefuseUnlock(c, wallet) ==
  /\ client[c].pc = "asking"
  /\ BelongsToAnother(wallet)
  /\ Set(c, [client[c] EXCEPT !.pc = "different-wallet", !.wallet = wallet])
  /\ UNCHANGED <<stored, salts, sends>>

\* The key is there: a new session is saved over whatever is stored by now.
Derived(c) ==
  /\ client[c].pc = "deriving"
  /\ LET session == client[c].loaded IN
       /\ Set(c, [client[c] EXCEPT
            !.pc = "unlocked", !.loaded = NoSession, !.session = session,
            !.key = KeyOf(client[c].wallet, session), !.shown = session.messages])
       /\ stored' = IF client[c].isNew THEN session ELSE stored
  /\ UNCHANGED <<salts, sends>>

DeriveFails(c) ==
  /\ client[c].pc = "deriving"
  /\ Set(c, [client[c] EXCEPT !.pc = "error", !.loaded = NoSession])
  /\ UNCHANGED <<stored, salts, sends>>

\* send up to its await.  Enter is not held back by a message under way.
Send(c) ==
  /\ client[c].pc = "unlocked"
  /\ client[c].key # NoKey /\ client[c].session # NoSession
  /\ sends < MaxSends
  /\ Set(c, [client[c] EXCEPT !.sealing = @ \cup {[id |-> sends + 1, key |-> client[c].key]}])
  /\ sends' = sends + 1
  /\ UNCHANGED <<stored, salts>>

\* The message is sealed: the client's transcript, with it, is saved.
Sealed(c, message) ==
  /\ message \in client[c].sealing
  /\ client[c].session # NoSession
  /\ LET session == [client[c].session EXCEPT !.messages = Append(@, message)] IN
       /\ Set(c, [client[c] EXCEPT !.sealing = @ \ {message}, !.session = session,
                                   !.shown = session.messages])
       /\ stored' = session
  /\ UNCHANGED <<salts, sends>>

\* Sealing failed, or the session was reset meanwhile.
SendFails(c, message) ==
  /\ message \in client[c].sealing
  /\ Set(c, [client[c] EXCEPT !.sealing = @ \ {message}])
  /\ UNCHANGED <<stored, salts, sends>>

\* New conversation, or the reset of another wallet's transcript.
Reset(c) ==
  /\ client[c].pc \in {"unlocked", "different-wallet"}
  /\ Set(c, [client[c] EXCEPT !.pc = "unlocked", !.key = NoKey, !.session = NoSession, !.shown = <<>>])
  /\ stored' = NoSession
  /\ UNCHANGED <<salts, sends>>

Next ==
  \E c \in Clients :
    \/ NoWallet(c) \/ Derived(c) \/ DeriveFails(c) \/ Send(c) \/ Reset(c)
    \/ \E wallet \in Wallets : Unlock(c, wallet) \/ RefuseUnlock(c, wallet)
    \/ \E message \in client[c].sealing : Sealed(c, message) \/ SendFails(c, message)

Spec == Init /\ [][Next]_vars

-----------------------------------------------------------------------------
(* Whatever tabs, wallets and resets overlap: every message stored opens   *)
(* with the key the transcript's own wallet and salt give, no message is   *)
(* in it twice, and a component shows only messages its own key opens,     *)
(* none of them another wallet's.                                          *)
Opens(key, messages) ==
  /\ \A i \in DOMAIN messages : messages[i].key = key
  /\ \A i, j \in DOMAIN messages : messages[i].id = messages[j].id => i = j

ReadableTranscript ==
  /\ stored # NoSession => Opens(KeyOf(stored.wallet, stored), stored.messages)
  /\ \A c \in Clients :
       client[c].shown # <<>> =>
         /\ Opens(client[c].key, client[c].shown)
         /\ client[c].key[1] = client[c].wallet

-----------------------------------------------------------------------------
(* The inductive invariant behind ReadableTranscript.                       *)
Keys == Wallets \X (Nat \ {0})

Messages == [id : Nat, key : Keys]

Sessions == [wallet : Wallets, salt : Nat \ {0}, messages : Seq(Messages)]

Holders == [pc : {"asking", "no-wallet", "deriving", "different-wallet", "unlocked", "error"},
            wallet : Wallets \cup {None}, loaded : Sessions \cup {NoSession}, isNew : BOOLEAN,
            key : Keys \cup {NoKey}, session : Sessions \cup {NoSession},
            sealing : SUBSET Messages, shown : Seq(Messages)]

(* A transcript of messages up to the nth, each once and opened by its key. *)
Whole(session, n) ==
  /\ session \in Sessions
  /\ Opens(KeyOf(session.wallet, session), session.messages)
  /\ \A i \in DOMAIN session.messages : session.messages[i].id <= n

(* What a client holds is of the wallet that unlocked it, and what it is    *)
(* sealing is not in its transcript yet.                                    *)
Unsaved(k) == \A m \in k.sealing : \A i \in DOMAIN k.session.messages : k.session.messages[i].id # m.id

Sound(k, n) ==
  /\ k \in Holders
  /\ k.pc \in {"asking", "deriving"} => k.session = NoSession /\ k.sealing = {} /\ k.shown = <<>>
  /\ k.pc = "asking" => k.loaded = NoSession
  /\ k.loaded # NoSession => Whole(k.loaded, n) /\ k.loaded.wallet = k.wallet
  /\ k.pc = "deriving" => k.loaded # NoSession
  /\ k.session # NoSession =>
       /\ Whole(k.session, n) /\ k.session.wallet = k.wallet /\ k.key = KeyOf(k.wallet, k.session)
       /\ \A m \in k.sealing : m.key = k.key
       /\ Unsaved(k)
  /\ \A m \in k.sealing : m.id <= n
  /\ \A m, o \in k.sealing : m.id = o.id => m = o
  /\ k.shown # <<>> => k.session # NoSession /\ k.shown = k.session.messages

SecureInv ==
  /\ sends \in Nat /\ salts \in Nat
  /\ stored # NoSession => Whole(stored, sends)
  /\ client = [c \in Clients |-> client[c]]
  /\ \A c \in Clients : Sound(client[c], sends)
=============================================================================
