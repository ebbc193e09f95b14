------------------------------- MODULE Stores -------------------------------
(****************************************************************************)
(* Organizations, their stores and who may do what with them: the active    *)
(* store cookie beside the session, the scope the proxy gives a request,    *)
(* creating a store, granting and revoking roles, and the permission check  *)
(* on the tuples in Postgres.  One browser, in which different accounts     *)
(* sign in one after the other.                                             *)
(****************************************************************************)
EXTENDS Naturals, FiniteSets

CONSTANTS
  Orgs,        \* merchants that sign in
  Addresses,   \* addresses stores can be made for
  Groups,      \* group subjects a role can be granted to
  MaxCalls,    \* bound: calls of the store and role routes
  MaxSignIns   \* bound: changes of the session

None == "none"

Relations == {"owner", "editor", "viewer"}
Permissions == {"manage_merchant", "edit_merchant", "view_payments", "view_dashboard",
                "manage_team", "manage_billing", "delete_merchant"}

StoresAssumption ==
  /\ MaxCalls \in Nat /\ MaxSignIns \in Nat
  /\ Orgs \cap (Addresses \cup Groups) = {}
  /\ None \notin Orgs \cup Addresses \cup Groups

VARIABLES
  session,   \* the merchant of the session cookie
  cookie,    \* the active store token: its organization and its store
  orgOf,     \* merchant_stores: the organization of each store address
  tuples,    \* role_tuples: <<merchant, relation, subject>>
  calls,     \* calls under way: their kind, scope and step
  used, signIns

vars == <<session, cookie, orgOf, tuples, calls, used, signIns>>

NoToken == [org |-> None, store |-> None]

Init ==
  /\ session = None /\ cookie = NoToken
  /\ orgOf = [a \in Addresses |-> None]
  /\ tuples \in {{}, {<<o, "owner", o>> : o \in Orgs}}
  /\ calls = {} /\ used = 0 /\ signIns = 0

\* Mutant of ActiveStore: a token is good for every organization.
ActiveStoreOfAnybody(token, org) == IF org # None THEN token.store ELSE None

(* activeStoreAddress: a token counts for the organization it was signed    *)
(* for.  It expires after a day, like losing it.                            *)
ActiveStore(token, org) == IF org # None /\ token.org = org THEN token.store ELSE None

(* proxy: x-accensa-merchant, the tenant every private route works for.     *)
Scope ==
  LET store == ActiveStore(cookie, session) IN IF store = None THEN session ELSE store

(* The session cookie comes and goes with the login; the token stays.       *)
SignIn(o) ==
  /\ signIns < MaxSignIns /\ session # o
  /\ session' = o /\ signIns' = signIns + 1
  /\ UNCHANGED <<cookie, orgOf, tuples, calls, used>>

LoseToken ==
  /\ cookie # NoToken
  /\ cookie' = NoToken
  /\ UNCHANGED <<session, orgOf, tuples, calls, used, signIns>>

Call(c) ==
  /\ session # None /\ used < MaxCalls /\ used' = used + 1
  /\ calls' = calls \cup {c}
  /\ UNCHANGED <<session, cookie, orgOf, tuples, signIns>>

Done(c) == calls' = calls \ {c}

(* POST /api/merchant/stores: the merchant and the store in a transaction.  *)
CreateStore(a) == Call([kind |-> "create", id |-> used, org |-> session, store |-> a, step |-> "insert"])

InsertStore(c) ==
  /\ c.kind = "create" /\ c.step = "insert"
  /\ IF orgOf[c.store] = None
     THEN /\ orgOf' = [orgOf EXCEPT ![c.store] = c.org]
          /\ calls' = (calls \ {c}) \cup {[c EXCEPT !.step = "own"]}
     ELSE Done(c) /\ UNCHANGED orgOf                               \* 409
  /\ UNCHANGED <<session, cookie, tuples, used, signIns>>

(* ... and then, on another connection, the organization becomes its owner. *)
OwnStore(c) ==
  /\ c.kind = "create" /\ c.step = "own"
  /\ Done(c)
  /\ tuples' = tuples \cup {<<c.store, "owner", c.org>>}
  /\ UNCHANGED <<session, cookie, orgOf, used, signIns>>

(* POST /api/merchant/stores/active: the store is looked up under the       *)
(* organization; the answer sets the cookie when it arrives, whoever is     *)
(* signed in by then.                                                       *)
SelectStore(a) == Call([kind |-> "select", id |-> used, org |-> session, store |-> a, step |-> "find"])

FindStore(c) ==
  /\ c.kind = "select" /\ c.step = "find"
  /\ IF c.store = None \/ orgOf[c.store] = c.org
     THEN calls' = (calls \ {c}) \cup {[c EXCEPT !.step = "answer"]}
     ELSE Done(c)                                                  \* 404
  /\ UNCHANGED <<session, cookie, orgOf, tuples, used, signIns>>

StoreSelected(c) ==
  /\ c.kind = "select" /\ c.step = "answer"
  /\ Done(c)
  /\ cookie' = IF c.store = None THEN NoToken ELSE [org |-> c.org, store |-> c.store]
  /\ UNCHANGED <<session, orgOf, tuples, used, signIns>>

(* PostgresZanzibarStore.check: the rows of this user, one after the other. *)
LocalCheck(store, permission, user) ==
  \E r \in Relations :
    /\ <<store, r, user>> \in tuples
    /\ \/ r = "owner"
       \/ permission \in {"view_payments", "view_dashboard"}
       \/ permission = "edit_merchant" /\ r = "editor"

(* SPICEDB_SCHEMA: which relations grant a permission, and whom a subject   *)
(* stands for.  Nothing writes the members of a group.                      *)
Grants(permission) ==
  CASE permission \in {"view_payments", "view_dashboard"} -> {"owner", "editor", "viewer"}
    [] permission = "edit_merchant" -> {"owner", "editor"}
    [] OTHER -> {"owner"}

MembersOf(subject) == IF subject \in Groups THEN {} ELSE {subject}

SchemaCheck(store, permission, user) ==
  \E t \in tuples : t[1] = store /\ t[2] \in Grants(permission) /\ user \in MembersOf(t[3])

(* POST /api/roles: the check on the scope of the request, then the write.  *)
ChangeRole(relation, subject, revoke) ==
  /\ LocalCheck(Scope, "manage_team", session)
  /\ Call([kind |-> "role", id |-> used, org |-> session, store |-> Scope, step |-> "write",
           relation |-> relation, subject |-> subject, revoke |-> revoke])

WriteRole(c) ==
  /\ c.kind = "role"
  /\ Done(c)
  /\ LET t == <<c.store, c.relation, c.subject>>
     IN  tuples' = IF c.revoke THEN tuples \ {t} ELSE tuples \cup {t}
  /\ UNCHANGED <<session, cookie, orgOf, used, signIns>>

(* A call that is lost, or fails, between two of its steps.                 *)
Fail(c) ==
  /\ Done(c)
  /\ UNCHANGED <<session, cookie, orgOf, tuples, used, signIns>>

Next ==
  \/ \E o \in Orgs \cup {None} : SignIn(o)
  \/ LoseToken
  \/ \E a \in Addresses : CreateStore(a)
  \/ \E a \in Addresses \cup {None} : SelectStore(a)
  \/ \E r \in Relations, s \in Orgs \cup Groups, revoke \in BOOLEAN : ChangeRole(r, s, revoke)
  \/ \E c \in calls :
       InsertStore(c) \/ OwnStore(c) \/ FindStore(c) \/ StoreSelected(c) \/ WriteRole(c) \/ Fail(c)

Spec == Init /\ [][Next]_vars

(****************************************************************************)
(* Whatever token an earlier account left in the browser, or a late answer  *)
(* sets, a request works for the merchant that is signed in or for one of   *)
(* its own stores.                                                          *)
(****************************************************************************)
ScopeIsOwn == Scope = session \/ (Scope \in Addresses /\ orgOf[Scope] = session)

(****************************************************************************)
(* "The same permission semantics": for every set of tuples the routes can  *)
(* write, the check in Postgres answers what the schema of the cluster      *)
(* says, for every permission.                                              *)
(****************************************************************************)
AccessFollowsSchema ==
  \A s \in Orgs \cup Addresses, p \in Permissions, u \in Orgs :
    LocalCheck(s, p, u) <=> SchemaCheck(s, p, u)

-----------------------------------------------------------------------------
(* The inductive invariant behind ScopeIsOwn.                               *)
CreateCalls == [kind : {"create"}, id : Nat, org : Orgs, store : Addresses, step : {"insert", "own"}]

SelectCalls == [kind : {"select"}, id : Nat, org : Orgs, store : Addresses \cup {None},
                step : {"find", "answer"}]

RoleCalls == [kind : {"role"}, id : Nat, org : Orgs, store : Orgs \cup Addresses, step : {"write"},
              relation : Relations, subject : Orgs \cup Groups, revoke : BOOLEAN]

Shaped == /\ session \in Orgs \cup {None} /\ used \in Nat
          /\ cookie \in [org : Orgs \cup {None}, store : Addresses \cup {None}]
          /\ orgOf \in [Addresses -> Orgs \cup {None}]
          /\ tuples \subseteq (Orgs \cup Addresses) \X Relations \X (Orgs \cup Groups)
          /\ calls \subseteq CreateCalls \cup SelectCalls \cup RoleCalls

(* A store named in a token, or in an answer on its way, is of the          *)
(* organization named beside it: a store never changes hands.               *)
TokensAreOwn ==
  /\ cookie.store # None => cookie.org \in Orgs /\ orgOf[cookie.store] = cookie.org
  /\ \A c \in calls : c.kind = "select" /\ c.step = "answer" /\ c.store # None =>
                        orgOf[c.store] = c.org

StoresInv == Shaped /\ TokensAreOwn
==============================================================================
