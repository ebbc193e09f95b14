---------------------------- MODULE SchemaUpkeep ----------------------------
(****************************************************************************)
(* ensureSchema: nearly every handler brings the schema up to date before   *)
(* its own statement, each statement on its own and with no transaction     *)
(* around them.  The model follows one table and the requests that come     *)
(* across it at the same time: what the handler's statement sees of the     *)
(* rows, and what it may write, depends on which statements of the others   *)
(* have run.  A table is prepared in one of the orders of the source.       *)
(****************************************************************************)
EXTENDS Naturals, Sequences, FiniteSets

CONSTANTS
  Requests,     \* handlers that run at the same time
  Tenant,       \* merchants
  MaxKills,     \* bound: requests killed between two statements
  MaxRetries    \* bound: how often a request is made again

SchemaUpkeepAssumption == MaxKills \in Nat /\ MaxRetries \in Nat

Tables == {"payments", "sync_state", "role_tuples", "merchant_stores", "inventory_items"}

\* Mutant of Isolation: rows of the table's owner are left out of the policy.
IsolationUnforced == <<"enable", "dropPolicy", "createPolicy">>

(* ENABLE, FORCE, DROP POLICY IF EXISTS, CREATE POLICY.                     *)
Isolation == <<"enable", "force", "dropPolicy", "createPolicy">>

(* The statements of ensureMultiMerchantSchema on payments: the primary key *)
(* is dropped whenever it exists, and added back by a statement of its own. *)
PaymentsUpkeep == <<"create", "dropKey", "addKey">> \o Isolation

(* sync_state is given its key in the one statement that drops it.          *)
SyncStateUpkeep == <<"create", "swapKey">> \o Isolation

RoleTupleUpkeep == <<"create">> \o Isolation
StoreUpkeep == <<"create">> \o Isolation
InventoryUpkeep == <<"create">> \o Isolation

Upkeep(table) ==
  CASE table = "payments" -> PaymentsUpkeep
    [] table = "sync_state" -> SyncStateUpkeep
    [] table = "role_tuples" -> RoleTupleUpkeep
    [] table = "merchant_stores" -> StoreUpkeep
    [] table = "inventory_items" -> InventoryUpkeep

VARIABLES
  table,    \* the table that is followed
  schema,   \* does it exist, has it a key, which protections are on
  rows,     \* of each tenant, how many rows there are of its one key
  call,     \* of each request: its tenant, next statement, outcome, answer
  kills

vars == <<table, schema, rows, call, kills>>

Idle == [tenant |-> "none", at |-> 0, outcome |-> "none", sees |-> {}, tries |-> 0]

Missing == [exists |-> FALSE, key |-> FALSE, enabled |-> FALSE, forced |-> FALSE, policy |-> FALSE]
Prepared == [exists |-> TRUE, key |-> TRUE, enabled |-> TRUE, forced |-> TRUE, policy |-> TRUE]

Init ==
  /\ table \in Tables
  /\ \/ schema = Missing /\ rows = [m \in Tenant |-> 0]
     \/ schema = Prepared /\ rows \in [Tenant -> {0, 1}]
  /\ call = [r \in Requests |-> Idle]
  /\ kills = 0

Working(r) == call[r].at > 0 /\ call[r].outcome = "none"
Statement(r) == IF call[r].at <= Len(Upkeep(table)) THEN Upkeep(table)[call[r].at] ELSE "work"

(* withMerchantClient: a connection of its own, bound to the merchant.      *)
Begin(r, m) ==
  /\ ~Working(r) /\ call[r].tries <= MaxRetries
  /\ call' = [call EXCEPT ![r] = [Idle EXCEPT !.tenant = m, !.at = 1,
                                              !.tries = call[r].tries + 1]]
  /\ UNCHANGED <<table, schema, rows, kills>>

Goes(r, s) ==
  /\ schema' = s
  /\ call' = [call EXCEPT ![r].at = @ + 1]
  /\ UNCHANGED <<table, rows, kills>>

(* A statement that throws ends the request with a 500.                     *)
Throws(r) ==
  /\ call' = [call EXCEPT ![r].outcome = "failed"]
  /\ UNCHANGED <<table, schema, rows, kills>>

CreateTable(r) ==
  /\ Statement(r) = "create"
  /\ Goes(r, IF schema.exists THEN schema
             ELSE [schema EXCEPT !.exists = TRUE, !.key = TRUE])

DropKey(r) == Statement(r) = "dropKey" /\ Goes(r, [schema EXCEPT !.key = FALSE])

(* Skipped when there is a key; throws when one was added after it looked,  *)
(* or when two rows have the same key.                                      *)
AddKey(r) ==
  /\ Statement(r) = "addKey"
  /\ \/ ~schema.key /\ (\A m \in Tenant : rows[m] <= 1) /\ Goes(r, [schema EXCEPT !.key = TRUE])
     \/ schema.key /\ Goes(r, schema)
     \/ (schema.key \/ \E m \in Tenant : rows[m] > 1) /\ Throws(r)

SwapKey(r) == Statement(r) = "swapKey" /\ Goes(r, [schema EXCEPT !.key = TRUE])

Enable(r) == Statement(r) = "enable" /\ Goes(r, [schema EXCEPT !.enabled = TRUE])
Force(r) == Statement(r) = "force" /\ Goes(r, [schema EXCEPT !.forced = TRUE])
DropPolicy(r) == Statement(r) = "dropPolicy" /\ Goes(r, [schema EXCEPT !.policy = FALSE])

(* CREATE POLICY has no IF NOT EXISTS.                                      *)
CreatePolicy(r) ==
  /\ Statement(r) = "createPolicy"
  /\ \/ ~schema.policy /\ Goes(r, [schema EXCEPT !.policy = TRUE])
     \/ schema.policy /\ Throws(r)

(* What row level security lets a connection of tenant m see: the role of   *)
(* the application owns the tables and is bound by FORCE alone; without a   *)
(* policy nothing passes.                                                   *)
Bound == schema.enabled /\ schema.forced
Passes(m) == IF ~Bound THEN Tenant ELSE IF schema.policy THEN {m} ELSE {}

(* A SELECT that forgot its WHERE merchant_id.                              *)
Read(r) ==
  /\ Statement(r) = "work"
  /\ call' = [call EXCEPT ![r].outcome = "done",
                          ![r].sees = {m \in Passes(call[r].tenant) : rows[m] > 0}]
  /\ UNCHANGED <<table, schema, rows, kills>>

\* Mutant of Upserts: a row is added whether or not its key is taken.
UpsertsAnyway(count) == count + 1

(* INSERT ... ON CONFLICT (key): the row is there afterwards.               *)
Upserts(count) == IF count = 0 THEN 1 ELSE count

(* It needs the key the conflict is about, and WITH CHECK to pass.          *)
Write(r) ==
  /\ Statement(r) = "work"
  /\ IF schema.key /\ call[r].tenant \in Passes(call[r].tenant)
     THEN /\ rows' = [rows EXCEPT ![call[r].tenant] = Upserts(@)]
          /\ call' = [call EXCEPT ![r].outcome = "done"]
          /\ UNCHANGED <<table, schema, kills>>
     ELSE Throws(r)

(* The function is stopped, or its connection lost, between two statements. *)
Kill(r) ==
  /\ kills < MaxKills
  /\ kills' = kills + 1
  /\ call' = [call EXCEPT ![r].outcome = "killed"]
  /\ UNCHANGED <<table, schema, rows>>

Step(r) ==
  /\ Working(r)
  /\ \/ CreateTable(r) \/ DropKey(r) \/ AddKey(r) \/ SwapKey(r) \/ Enable(r) \/ Force(r)
     \/ DropPolicy(r) \/ CreatePolicy(r) \/ Read(r) \/ Write(r) \/ Kill(r)

Next == \E r \in Requests : Step(r) \/ \E m \in Tenant : Begin(r, m)

Spec == Init /\ [][Next]_vars

(****************************************************************************)
(* "A query that forgets that clause returns nothing instead of every       *)
(* merchant's data": whatever statements of other requests are half done,   *)
(* on a new database or an old one, no request is given another merchant's  *)
(* rows, and no key has two rows although payments loses its primary key in *)
(* every upkeep.                                                            *)
(****************************************************************************)
TenantsStayApart ==
  /\ \A r \in Requests : call[r].sees \subseteq {call[r].tenant}
  /\ \A m \in Tenant : rows[m] <= 1

(****************************************************************************)
(* A request whose upkeep went through sees the rows it has.  Fails: the    *)
(* policy another request has just dropped hides them.                      *)
(****************************************************************************)
OwnRowsAreSeen ==
  [][\A r \in Requests : Read(r) /\ rows[call[r].tenant] > 0 => call'[r].sees # {}]_vars

-----------------------------------------------------------------------------
(* The inductive invariant behind TenantsStayApart.                         *)
Statements == {"create", "dropKey", "addKey", "swapKey", "enable", "force", "dropPolicy", "createPolicy"}

Schema == [exists : BOOLEAN, key : BOOLEAN, enabled : BOOLEAN, forced : BOOLEAN, policy : BOOLEAN]

CallShapes == [tenant : Tenant \cup {"none"}, at : Nat, outcome : {"none", "failed", "done", "killed"},
               sees : SUBSET (Tenant \cup {"none"}), tries : Nat]

Ran(r, statement) ==
  \E i \in 1 .. Len(Upkeep(table)) : i < call[r].at /\ Upkeep(table)[i] = statement

(* What a request has switched on nobody switches off.                      *)
Protected ==
  /\ table \in Tables /\ schema \in Schema /\ call \in [Requests -> CallShapes]
  /\ rows \in [Tenant -> {0, 1}]
  /\ \A r \in Requests : /\ Ran(r, "enable") => schema.enabled
                         /\ Ran(r, "force") => schema.forced
                         /\ call[r].sees \subseteq {call[r].tenant}
==============================================================================
