---------------------------- MODULE WalletSession ----------------------------
(***************************************************************************)
(* The session guard of a browser tab (context/WalletContext.tsx and        *)
(* lib/auth/sessionGuard.ts over an adapter of lib/wallet.ts): a change of  *)
(* the wallet's account ends the session of another account.  Change        *)
(* events arrive late and twice, each waits for the logout call, and the    *)
(* user may sign in again meanwhile.                                       *)
(*                                                                         *)
(* The refs the callbacks read follow the state they mirror at once.  The   *)
(* server's cookie is the account the browser would be served as.           *)
(***************************************************************************)
EXTENDS Naturals, Sequences, SequencesExt

CONSTANTS Accounts,
          Handlers,     \* bound: runs of handleAccountChange that overlap
          MaxSwitches,  \* bound: changes of the wallet's account
          MaxLogins     \* bound: sign-ins

VARIABLES wallet,     \* the account selected in the extension
          events,     \* accountChanged events on their way to the page
          account,    \* the context's account
          session,    \* the context's sessionAccount
          marker,     \* the session account in localStorage
          cookie,     \* the account of the accensa_session cookie
          handler,    \* handleAccountChange past its first await
          toast,      \* whose session the warning speaks of
          signing,    \* a transaction handed to the wallet
          switches, logins
vars == <<wallet, events, account, session, marker, cookie, handler, toast, signing,
          switches, logins>>
tab == <<account, session, marker, cookie, handler, toast>>

None == "none"
Free == [pc |-> "free", prev |-> None, new |-> None]

Init == /\ wallet \in Accounts \cup {None}
        /\ events = <<>>
        /\ account = None
        /\ marker \in Accounts \cup {None}
        /\ session = marker        \* getActiveSessionAccount on mount
        /\ cookie = marker
        /\ handler = [h \in Handlers |-> Free]
        /\ toast = None
        /\ signing = [of |-> None, under |-> None]
        /\ switches = 0 /\ logins = 0

Same(a, b) == a # None /\ b # None /\ a = b        \* compareSessionAccount
FreeHandlers == {h \in Handlers : handler[h].pc = "free"}

----------------------------------------------------------------------------
(* The wallet.  Both on() and addListener() are used when a provider has    *)
(* both, so one change may be heard twice.                                  *)
SwitchAccount ==
  /\ switches < MaxSwitches /\ switches' = switches + 1
  /\ \E a \in (Accounts \cup {None}) \ {wallet} :
       /\ wallet' = a
       /\ \E heard \in {<<a>>, <<a, a>>} : events' = events \o heard
  /\ UNCHANGED <<tab, signing, logins>>

\* handleAccountChange up to its await, or to its end without a mismatch.
AccountChanged(new) ==
  IF session # None /\ ~Same(session, new)
  THEN /\ FreeHandlers # {}
       /\ handler' = [handler EXCEPT ![CHOOSE h \in FreeHandlers : TRUE] =
                        [pc |-> "logout", prev |-> session, new |-> new]]
       /\ marker' = None          \* clearCachedAuthorizations
       /\ UNCHANGED <<account, session, cookie, toast>>
  ELSE account' = new /\ UNCHANGED <<session, marker, cookie, handler, toast>>

Deliver == /\ events # <<>>
           /\ events' = Tail(events)
           /\ AccountChanged(Head(events))
           /\ UNCHANGED <<wallet, signing, switches, logins>>

\* The page gains focus and the wallet's status is read.
Focus == /\ wallet # None /\ account # None /\ wallet # account
         /\ AccountChanged(wallet)
         /\ UNCHANGED <<wallet, events, signing, switches, logins>>

\* connectWallet asks the adapter; disconnectWallet asks nobody.
ConnectWallet == /\ wallet # None /\ account # wallet /\ AccountChanged(wallet)
                 /\ UNCHANGED <<wallet, events, signing, switches, logins>>
DisconnectWallet == /\ account # None /\ AccountChanged(None)
                    /\ UNCHANGED <<wallet, events, signing, switches, logins>>

(* The logout call reaches the server, or fails; the handler goes on. *)
Logout(h) == /\ handler[h].pc = "logout"
             /\ cookie' \in {None, cookie}
             /\ handler' = [handler EXCEPT ![h].pc = "answered"]
             /\ UNCHANGED <<wallet, events, account, session, marker, toast, signing, switches, logins>>

\* Mutant of AfterLogout: a session signed in meanwhile is spared, and so
\* is the old one.
AfterLogoutKept(h) == session
AfterLogout(h) == None

FinishChange(h) == /\ handler[h].pc = "answered"
                   /\ session' = AfterLogout(h)
                   /\ toast' = handler[h].prev
                   /\ account' = handler[h].new
                   /\ handler' = [handler EXCEPT ![h] = Free]
                   /\ UNCHANGED <<wallet, events, marker, cookie, signing, switches, logins>>

----------------------------------------------------------------------------
(* Sign-in: the server's cookie, then setAuthenticatedSession. *)
SignIn(a) == /\ logins < MaxLogins /\ logins' = logins + 1
             /\ wallet = a
             /\ cookie' = a /\ session' = a /\ marker' = a /\ toast' = None
             /\ UNCHANGED <<wallet, events, account, handler, signing, switches>>

DismissToast == toast # None /\ toast' = None
                /\ UNCHANGED <<wallet, events, account, session, marker, cookie, handler, signing,
                               switches, logins>>

\* guardTransactionExecution, then the address the caller names.
MaySign(address) == /\ account # None
                    /\ session = None \/ Same(session, account)
                    /\ address = None \/ Same(address, account)

Sign == /\ signing.of = None
        /\ \E address \in Accounts \cup {None} :
             MaySign(address) /\ signing' = [of |-> account, under |-> session]
        /\ UNCHANGED <<wallet, events, tab, switches, logins>>
Signed == signing.of # None /\ signing' = [of |-> None, under |-> None]
          /\ UNCHANGED <<wallet, events, tab, switches, logins>>

Next == \/ SwitchAccount \/ Deliver \/ Focus \/ ConnectWallet \/ DisconnectWallet
        \/ DismissToast \/ Sign \/ Signed
        \/ \E h \in Handlers : Logout(h) \/ FinishChange(h)
        \/ \E a \in Accounts : SignIn(a)

\* The browser runs what it has been given: an answered call's continuation.
Fairness == \A h \in Handlers : WF_vars(Logout(h)) /\ WF_vars(FinishChange(h))
Spec == Init /\ [][Next]_vars /\ Fairness
----------------------------------------------------------------------------
Mismatched(h, a) == handler[h].prev = a
Ended(a) == session # a

(* A change of the wallet's account ends the session it was found to        *)
(* differ from, however many changes overlap and whether or not the logout  *)
(* call gets through.                                                       *)
MismatchEndsSession ==
  \A h \in Handlers, a \in Accounts : Mismatched(h, a) ~> Ended(a)
=============================================================================
