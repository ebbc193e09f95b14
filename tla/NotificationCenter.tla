------------------------- MODULE NotificationCenter -------------------------
(***************************************************************************)
(* The notification drawer: the table of lib/notifications.ts, the route   *)
(* /api/notifications and useNotifications in several tabs of a merchant.  *)
(* A tab polls; it posts what is clicked and then asks again.  The list    *)
(* and the count of one answer are two statements.                         *)
(*                                                                         *)
(* The tabs are visible: SWR does not poll in a hidden one.                *)
(***************************************************************************)
EXTENDS Integers, FiniteSets

CONSTANTS
  Tabs,
  Most,       \* bound: notifications created
  Limit,      \* NOTIFICATION_LIMIT
  MaxClicks, MaxFaults    \* bounds

VARIABLES
  created,    \* notifications are 1 .. created, newest last
  read, gone, \* rows marked as read, and rows deleted
  shown,      \* what a tab holds: the rows listed, those among them unread, the badge
  failed,     \* the tab's last fetch failed
  fetch,      \* the request SWR will take the answer of
  action,     \* the click a tab is busy with
  ended,      \* what a tab's own actions, finished without an error, did
  clicks, faults

table == <<created, read, gone>>
vars == <<created, read, gone, shown, failed, fetch, action, ended, clicks, faults>>

Rows == (1 .. created) \ gone
Unread == Rows \ read

\* listNotifications: the newest Limit rows.
Listed == {n \in Rows : Cardinality({m \in Rows : m > n}) < Limit}

Nothing == [list |-> {}, unread |-> {}, count |-> 0]
NoFetch == [step |-> "idle", list |-> {}, unread |-> {}, count |-> 0]
NoAction == [pc |-> "idle", kind |-> "none", id |-> 0, did |-> [read |-> {}, gone |-> {}]]

Init ==
  /\ created = 0 /\ read = {} /\ gone = {}
  /\ shown = [t \in Tabs |-> Nothing]
  /\ failed = [t \in Tabs |-> FALSE]
  /\ fetch = [t \in Tabs |-> NoFetch]
  /\ action = [t \in Tabs |-> NoAction]
  /\ ended = [t \in Tabs |-> NoAction.did]
  /\ clicks = 0 /\ faults = 0

CreateNotification ==
  /\ created < Most /\ created' = created + 1
  /\ UNCHANGED <<read, gone, shown, failed, fetch, action, ended, clicks, faults>>

-----------------------------------------------------------------------------
(* Asking.                                                                 *)

Asked == [NoFetch EXCEPT !.step = "list"]

\* A poll shares the request that is under way.
Poll(t) ==
  /\ fetch[t].step = "idle"
  /\ fetch' = [fetch EXCEPT ![t] = Asked]
  /\ UNCHANGED <<table, shown, failed, action, ended, clicks, faults>>

ListNotifications(t) ==
  /\ fetch[t].step = "list"
  /\ fetch' = [fetch EXCEPT ![t] = [@ EXCEPT !.step = "count", !.list = Listed,
                                             !.unread = Listed \ read]]
  /\ UNCHANGED <<table, shown, failed, action, ended, clicks, faults>>

GetUnreadNotificationCount(t) ==
  /\ fetch[t].step = "count"
  /\ fetch' = [fetch EXCEPT ![t] = [@ EXCEPT !.step = "answer", !.count = Cardinality(Unread)]]
  /\ UNCHANGED <<table, shown, failed, action, ended, clicks, faults>>

\* mutate() resolves with the request it made, whether that failed or not.
Revalidated(t) ==
  IF action[t].pc = "revalidating"
  THEN /\ action' = [action EXCEPT ![t] = NoAction]
       /\ ended' = [ended EXCEPT ![t] = [read |-> @.read \cup action[t].did.read,
                                         gone |-> @.gone \cup action[t].did.gone]]
  ELSE UNCHANGED <<action, ended>>

Arrive(t) ==
  /\ fetch[t].step = "answer"
  /\ shown' = [shown EXCEPT ![t] = [list |-> fetch[t].list, unread |-> fetch[t].unread,
                                    count |-> fetch[t].count]]
  /\ failed' = [failed EXCEPT ![t] = FALSE]
  /\ fetch' = [fetch EXCEPT ![t] = NoFetch]
  /\ Revalidated(t)
  /\ UNCHANGED <<table, clicks, faults>>

FetchFails(t) ==
  /\ fetch[t].step # "idle"
  /\ faults < MaxFaults /\ faults' = faults + 1
  /\ failed' = [failed EXCEPT ![t] = TRUE]
  /\ fetch' = [fetch EXCEPT ![t] = NoFetch]
  /\ Revalidated(t)
  /\ UNCHANGED <<table, shown, clicks>>

-----------------------------------------------------------------------------
(* Clicking.                                                               *)

\* The buttons the drawer offers while it is not busy.
Offered(t) ==
  (IF shown[t].count > 0 THEN {<<"mark-all-read", 0>>} ELSE {})
    \cup {<<"mark-read", n>> : n \in shown[t].unread}
    \cup {<<"dismiss", n>> : n \in shown[t].list}

Click(t) ==
  /\ action[t].pc = "idle"
  /\ clicks < MaxClicks /\ clicks' = clicks + 1
  /\ \E button \in Offered(t) :
       action' = [action EXCEPT ![t] = [NoAction EXCEPT !.pc = "post", !.kind = button[1],
                                                        !.id = button[2]]]
  /\ UNCHANGED <<table, shown, failed, fetch, ended, faults>>

\* The rows an action marks and the rows it deletes.
Effect(a) ==
  [read |-> CASE a.kind = "mark-all-read" -> Unread
              [] a.kind = "mark-read" -> Unread \cap {a.id}
              [] OTHER -> {},
   gone |-> IF a.kind = "dismiss" THEN Rows \cap {a.id} ELSE {}]

Post(t) ==
  /\ action[t].pc = "post"
  /\ LET effect == Effect(action[t]) IN
       /\ read' = read \cup effect.read
       /\ gone' = gone \cup effect.gone
       /\ action' = [action EXCEPT ![t] = [@ EXCEPT !.pc = "answered", !.did = effect]]
  /\ UNCHANGED <<created, shown, failed, fetch, ended, clicks, faults>>

\* Before or after it was carried out; nothing is asked again.
PostFails(t) ==
  /\ action[t].pc \in {"post", "answered"}
  /\ faults < MaxFaults /\ faults' = faults + 1
  /\ action' = [action EXCEPT ![t] = NoAction]
  /\ UNCHANGED <<table, shown, failed, fetch, ended, clicks>>

\* Mutant of Requested: the answer to a poll under way will do.
RequestedOnce(t) == IF fetch[t].step = "idle" THEN Asked ELSE fetch[t]

\* mutate() starts a request of its own, and SWR drops the answer of another.
Requested(t) == Asked

RunAction(t) ==
  /\ action[t].pc = "answered"
  /\ action' = [action EXCEPT ![t].pc = "revalidating"]
  /\ fetch' = [fetch EXCEPT ![t] = Requested(t)]
  /\ UNCHANGED <<table, shown, failed, ended, clicks, faults>>

Fetch(t) == ListNotifications(t) \/ GetUnreadNotificationCount(t) \/ Arrive(t)
Act(t) == Post(t) \/ RunAction(t)

Next ==
  \/ CreateNotification
  \/ \E t \in Tabs : Poll(t) \/ Fetch(t) \/ FetchFails(t) \/ Click(t) \/ Act(t) \/ PostFails(t)

Spec == Init /\ [][Next]_vars

-----------------------------------------------------------------------------
(* What a tab's own action did, the tab shows once the action has ended,   *)
(* and from then on, a poll that was already under way or not: what was    *)
(* read is not shown as unread, what was dismissed not at all.  While the  *)
(* drawer says that it could not load, it may be behind.                   *)
ActionsShow ==
  \A t \in Tabs :
    failed[t] \/ /\ shown[t].unread \cap ended[t].read = {}
                 /\ shown[t].list \cap ended[t].gone = {}

\* Every tab shows what the table holds.
UpToDate ==
  \A t \in Tabs :
    shown[t] = [list |-> Listed, unread |-> Listed \ read, count |-> Cardinality(Unread)]

-----------------------------------------------------------------------------
(* The inductive invariant behind ActionsShow.                              *)

(* What the tables and the tabs hold.                                       *)
Marks == [read : SUBSET Nat, gone : SUBSET Nat]
Answers == [step : {"idle", "list", "count", "answer"},
            list : SUBSET Nat, unread : SUBSET Nat, count : Nat]
Clicks == [pc : {"idle", "post", "answered", "revalidating"},
           kind : {"none", "mark-all-read", "mark-read", "dismiss"}, id : Nat, did : Marks]
NShape ==
  /\ created \in Nat /\ read \subseteq Nat /\ gone \subseteq Nat
  /\ shown \in [Tabs -> [list : SUBSET Nat, unread : SUBSET Nat, count : Nat]]
  /\ failed \in [Tabs -> BOOLEAN]
  /\ fetch \in [Tabs -> Answers]
  /\ action \in [Tabs -> Clicks]
  /\ ended \in [Tabs -> Marks]

(* What an action of a tab did is in the table.                             *)
DoneInTable ==
  \A t \in Tabs : /\ ended[t].read \cup action[t].did.read \subseteq read
                  /\ ended[t].gone \cup action[t].did.gone \subseteq gone

(* A list that has nothing of what was read or dismissed.                   *)
Lacks(x, done) == x.unread \cap done.read = {} /\ x.list \cap done.gone = {}

(* A fetch in flight read the table after the actions that have ended.      *)
FetchIsLater ==
  \A t \in Tabs : fetch[t].step \in {"count", "answer"} =>
    /\ Lacks(fetch[t], ended[t])
    /\ action[t].pc = "revalidating" => Lacks(fetch[t], action[t].did)

(* What a tab shows is free of what its actions did, unless a fetch failed. *)
ShownLacks == \A t \in Tabs : failed[t] \/ Lacks(shown[t], ended[t])

CenterInv == NShape /\ DoneInTable /\ FetchIsLater /\ ShownLacks
=============================================================================
