--------------------------- MODULE Browser_proofs ---------------------------
(****************************************************************************)
(* What is proved of the browser and of the merchant's server, for all      *)
(* values of the constants: of the machines "center", "widget" and          *)
(* "billing" of MCBrowser.  Their inductive invariants stand in their       *)
(* modules; a variable has its own name here, with the machine's before it. *)
(****************************************************************************)
EXTENDS MCBrowser, FiniteSetTheorems, SequenceTheorems, TLAPS

-----------------------------------------------------------------------------
(* The notification drawer.  An action ends when the fetch that was sent    *)
(* after it is answered, so what a tab shows then has nothing of what its   *)
(* own actions did, unless that fetch failed (CenterInv).                   *)
centerCreated == v1
centerRead == v2
centerGone == v3
centerShown == v4
centerFailed == v5
centerFetch == v6
centerAction == v7
centerEnded == v8
centerClicks == v9
centerFaults == v10

USE DEF centerCreated, centerRead, centerGone, centerShown, centerFailed, centerFetch,
        centerAction, centerEnded, centerClicks, centerFaults

LEMMA CenterCount == \A S : Center!Cardinality(S) = Cardinality(S)
  BY DEF Center!Cardinality, Cardinality

(* The rows of the table, and which of them are listed and unread.          *)
LEMMA RowsAreNumbers ==
  ASSUME Center!NShape
  PROVE  /\ Center!Rows \subseteq Nat /\ Center!Unread \subseteq Center!Rows
            /\ Center!Listed \subseteq Center!Rows
         /\ Center!Rows \cap centerGone = {} /\ Center!Unread \cap centerRead = {}
         /\ Cardinality(Center!Unread) \in Nat
<1>1. Center!Rows \subseteq 1 .. centerCreated /\ Center!Unread \subseteq 1 .. centerCreated
  BY DEF Center!Rows, Center!Unread, Center!NShape
<1>2. IsFiniteSet(1 .. centerCreated)
  BY FS_Interval DEF Center!NShape
<1>3. Cardinality(Center!Unread) \in Nat
  BY <1>1, <1>2, FS_Subset, FS_CardinalityType
<1>. QED BY <1>1, <1>3 DEF Center!Rows, Center!Unread, Center!Listed, Center!NShape

(* What the steps of a fetch and of a click make of their records.          *)
LEMMA Records ==
  /\ Center!NoFetch \in Center!Answers /\ Center!NoFetch.step = "idle"
     /\ Center!Asked \in Center!Answers /\ Center!Asked.step = "list"
  /\ Center!NoAction \in Center!Clicks /\ Center!NoAction.did \in Center!Marks
  /\ Center!NoAction.pc = "idle" /\ Center!NoAction.did.read = {} /\ Center!NoAction.did.gone = {}
  /\ \A a \in Center!Clicks : a.did \in Center!Marks
  /\ \A a \in Center!Clicks, e \in Center!Marks :
       LET b == [a EXCEPT !.pc = "answered", !.did = e]
       IN  b \in Center!Clicks /\ b.pc = "answered" /\ b.did = e
  /\ \A a \in Center!Clicks : LET b == [a EXCEPT !.pc = "revalidating"]
                              IN  b \in Center!Clicks /\ b.did = a.did
BY DEF Center!NoFetch, Center!Asked, Center!NoAction, Center!Answers, Center!Clicks, Center!Marks

(* The invariant holds before a drawer is opened.                           *)
LEMMA CenterInit == Center!Init => Center!CenterInv
<1> SUFFICES ASSUME Center!Init PROVE Center!CenterInv
  OBVIOUS
<1>1. Center!Nothing \in [list : SUBSET Nat, unread : SUBSET Nat, count : Nat]
      /\ Center!Nothing.list = {} /\ Center!Nothing.unread = {}
  BY DEF Center!Nothing
<1>2. Center!NShape
  BY <1>1, Records DEF Center!Init, Center!NShape
<1>3. Center!DoneInTable /\ Center!FetchIsLater /\ Center!ShownLacks
  BY <1>1, Records DEF Center!Init, Center!DoneInTable, Center!FetchIsLater, Center!ShownLacks,
                       Center!Lacks
<1>. QED BY <1>2, <1>3 DEF Center!CenterInv

(* An answer to a fetch ends the action that waited for it.                 *)
LEMMA RevalidatedEnds ==
  ASSUME Center!NShape, Center!DoneInTable, NEW t \in Tabs, Center!Revalidated(t)
  PROVE  /\ centerAction' \in [Tabs -> Center!Clicks]
         /\ centerEnded' \in [Tabs -> Center!Marks]
         /\ \A u \in Tabs : u # t => centerAction'[u] = centerAction[u]
            /\ centerEnded'[u] = centerEnded[u]
         /\ centerAction'[t].pc # "revalidating"
         /\ centerEnded'[t].read \cup centerAction'[t].did.read \subseteq centerRead
         /\ centerEnded'[t].gone \cup centerAction'[t].did.gone \subseteq centerGone
         /\ IF centerAction[t].pc = "revalidating"
            THEN /\ centerEnded'[t].read = centerEnded[t].read \cup centerAction[t].did.read
                 /\ centerEnded'[t].gone = centerEnded[t].gone \cup centerAction[t].did.gone
            ELSE centerEnded'[t] = centerEnded[t]
<1>0. /\ centerAction \in [Tabs -> Center!Clicks] /\ centerEnded \in [Tabs -> Center!Marks]
         /\ Center!NoAction \in Center!Clicks
      /\ Center!NoAction.pc = "idle" /\ Center!NoAction.did.read = {}
         /\ Center!NoAction.did.gone = {}
  BY DEF Center!NShape, Center!NoAction, Center!Clicks, Center!Marks
<1>1. CASE centerAction[t].pc = "revalidating"
  <2>1. /\ centerAction' = [centerAction EXCEPT ![t] = Center!NoAction]
        /\ centerEnded' = [centerEnded EXCEPT ![t] = [read |-> centerEnded[t].read \cup centerAction[t].did.read,
                                                     gone |-> centerEnded[t].gone \cup centerAction[t].did.gone]]
    BY <1>1 DEF Center!Revalidated
  <2>2. centerEnded[t] \in Center!Marks /\ centerAction[t].did \in Center!Marks
    BY <1>0 DEF Center!Clicks
  <2>3. [read |-> centerEnded[t].read \cup centerAction[t].did.read,
         gone |-> centerEnded[t].gone \cup centerAction[t].did.gone] \in Center!Marks
    BY <2>2 DEF Center!Marks
  <2>4. centerAction' \in [Tabs -> Center!Clicks] /\ centerEnded' \in [Tabs -> Center!Marks]
    BY <1>0, <2>1, <2>3
  <2>5. /\ \A u \in Tabs : u # t => centerAction'[u] = centerAction[u]
           /\ centerEnded'[u] = centerEnded[u]
        /\ centerAction'[t] = Center!NoAction
        /\ centerEnded'[t] = [read |-> centerEnded[t].read \cup centerAction[t].did.read,
                             gone |-> centerEnded[t].gone \cup centerAction[t].did.gone]
    BY <1>0, <2>1
  <2>. QED BY <1>0, <1>1, <2>4, <2>5 DEF Center!DoneInTable
<1>2. CASE centerAction[t].pc # "revalidating"
  BY <1>0, <1>2 DEF Center!Revalidated, Center!DoneInTable
<1>. QED BY <1>1, <1>2

(* Every step keeps the invariant.                                          *)
LEMMA CenterStep == Center!CenterInv /\ [Center!Next]_(Center!vars) => Center!CenterInv'
<1> SUFFICES ASSUME Center!CenterInv, [Center!Next]_(Center!vars) PROVE Center!CenterInv'
  OBVIOUS
<1> USE DEF Center!CenterInv
<1>a. /\ Center!Rows \subseteq Nat /\ Center!Unread \subseteq Center!Rows
         /\ Center!Listed \subseteq Center!Rows
      /\ Center!Rows \cap centerGone = {} /\ Center!Unread \cap centerRead = {}
      /\ Cardinality(Center!Unread) \in Nat
  BY RowsAreNumbers
<1>1. CASE Center!CreateNotification
  BY <1>1 DEF Center!CreateNotification, Center!NShape, Center!DoneInTable, Center!FetchIsLater,
              Center!ShownLacks, Center!Lacks, Center!Marks, Center!Answers, Center!Clicks
<1>2. ASSUME NEW t \in Tabs, Center!Poll(t) PROVE Center!CenterInv'
  <2>1. Center!NShape'
    BY <1>2, Records DEF Center!Poll, Center!table, Center!NShape
  <2>2. /\ centerFetch'[t].step = "list"
        /\ \A u \in Tabs : u # t => centerFetch'[u] = centerFetch[u]
    BY <1>2, Records DEF Center!Poll, Center!NShape
  <2>3. UNCHANGED <<centerRead, centerGone, centerShown, centerFailed, centerAction, centerEnded>>
    BY <1>2 DEF Center!Poll, Center!table
  <2>4. Center!DoneInTable' /\ Center!FetchIsLater' /\ Center!ShownLacks'
    BY <2>2, <2>3 DEF Center!DoneInTable, Center!FetchIsLater, Center!ShownLacks, Center!Lacks
  <2>. QED BY <2>1, <2>4
<1>3. ASSUME NEW t \in Tabs, Center!ListNotifications(t) PROVE Center!CenterInv'
  <2>1. Center!Lacks([list |-> Center!Listed, unread |-> Center!Listed \ centerRead], centerEnded[t])
        /\ Center!Lacks([list |-> Center!Listed, unread |-> Center!Listed \ centerRead], centerAction[t].did)
    BY <1>a DEF Center!DoneInTable, Center!Lacks
  <2>2. Center!NShape'
    <3>1. [centerFetch[t] EXCEPT !.step = "count", !.list = Center!Listed, !.unread = Center!Listed \ centerRead] \in Center!Answers
      BY <1>a DEF Center!NShape, Center!Answers
    <3>. QED BY <1>3, <3>1 DEF Center!ListNotifications, Center!table, Center!NShape
  <2>3. Center!DoneInTable' /\ Center!ShownLacks'
    BY <1>3 DEF Center!ListNotifications, Center!table, Center!DoneInTable, Center!ShownLacks,
                Center!Lacks
  <2>4. Center!FetchIsLater'
    BY <1>3, <2>1 DEF Center!ListNotifications, Center!table, Center!FetchIsLater, Center!Lacks,
                      Center!NShape, Center!Answers
  <2>. QED BY <2>2, <2>3, <2>4
<1>4. ASSUME NEW t \in Tabs, Center!GetUnreadNotificationCount(t) PROVE Center!CenterInv'
  <2>2. Center!NShape'
    <3>1. [centerFetch[t] EXCEPT !.step = "answer", !.count = Cardinality(Center!Unread)] \in Center!Answers
      BY <1>a DEF Center!NShape, Center!Answers
    <3>. QED BY <1>4, <3>1, CenterCount DEF Center!GetUnreadNotificationCount, Center!table, Center!NShape
  <2>3. Center!DoneInTable' /\ Center!ShownLacks'
    BY <1>4 DEF Center!GetUnreadNotificationCount, Center!table, Center!DoneInTable,
                Center!ShownLacks, Center!Lacks
  <2>4. Center!FetchIsLater'
    BY <1>4 DEF Center!GetUnreadNotificationCount, Center!table, Center!FetchIsLater, Center!Lacks,
                Center!NShape, Center!Answers
  <2>. QED BY <2>2, <2>3, <2>4
<1>5. ASSUME NEW t \in Tabs, Center!Arrive(t) PROVE Center!CenterInv'
  <2>1. Center!Revalidated(t)
    BY <1>5 DEF Center!Arrive
  <2>2. Center!NShape'
    <3>1. [list |-> centerFetch[t].list, unread |-> centerFetch[t].unread, count |-> centerFetch[t].count]
            \in [list : SUBSET Nat, unread : SUBSET Nat, count : Nat]
      BY DEF Center!NShape, Center!Answers
    <3>. QED BY <1>5, <2>1, <3>1, Records, RevalidatedEnds DEF Center!Arrive, Center!table,
                                                               Center!NShape
  <2>3. Center!DoneInTable'
    BY <1>5, <2>1, RevalidatedEnds DEF Center!Arrive, Center!table, Center!DoneInTable
  <2>4. Center!FetchIsLater'
    <3>1. /\ centerFetch'[t].step = "idle"
          /\ \A u \in Tabs : u # t => centerFetch'[u] = centerFetch[u]
      BY <1>5, Records DEF Center!Arrive, Center!NShape
    <3>2. \A u \in Tabs : u # t => centerAction'[u] = centerAction[u]
          /\ centerEnded'[u] = centerEnded[u]
      BY <2>1, RevalidatedEnds
    <3>. QED BY <3>1, <3>2 DEF Center!FetchIsLater, Center!Lacks
  <2>5. Center!ShownLacks'
    BY <1>5, <2>1, RevalidatedEnds DEF Center!Arrive, Center!FetchIsLater, Center!ShownLacks,
                                       Center!Lacks, Center!NShape
  <2>. QED BY <2>2, <2>3, <2>4, <2>5
<1>6. ASSUME NEW t \in Tabs, Center!FetchFails(t) PROVE Center!CenterInv'
  <2>1. Center!Revalidated(t)
    BY <1>6 DEF Center!FetchFails
  <2>2. Center!NShape'
    BY <1>6, <2>1, Records, RevalidatedEnds DEF Center!FetchFails, Center!table, Center!NShape
  <2>3. Center!DoneInTable'
    BY <1>6, <2>1, RevalidatedEnds DEF Center!FetchFails, Center!table, Center!DoneInTable
  <2>4. Center!FetchIsLater'
    <3>1. /\ centerFetch'[t].step = "idle"
          /\ \A u \in Tabs : u # t => centerFetch'[u] = centerFetch[u]
      BY <1>6, Records DEF Center!FetchFails, Center!NShape
    <3>2. \A u \in Tabs : u # t => centerAction'[u] = centerAction[u]
          /\ centerEnded'[u] = centerEnded[u]
      BY <2>1, RevalidatedEnds
    <3>. QED BY <3>1, <3>2 DEF Center!FetchIsLater, Center!Lacks
  <2>5. Center!ShownLacks'
    BY <1>6, <2>1, RevalidatedEnds DEF Center!FetchFails, Center!ShownLacks, Center!Lacks,
                                       Center!NShape
  <2>. QED BY <2>2, <2>3, <2>4, <2>5
<1>7. ASSUME NEW t \in Tabs, Center!Click(t) PROVE Center!CenterInv'
  <2>1. PICK button \in Center!Offered(t) :
          centerAction' = [centerAction EXCEPT ![t] = [Center!NoAction EXCEPT !.pc = "post", !.kind = button[1],
                                                                              !.id = button[2]]]
    BY <1>7 DEF Center!Click
  <2>2. button[1] \in {"mark-all-read", "mark-read", "dismiss"} /\ button[2] \in Nat
    BY DEF Center!Offered, Center!NShape
  <2>3. Center!NShape'
    <3>1. [Center!NoAction EXCEPT !.pc = "post", !.kind = button[1], !.id = button[2]] \in Center!Clicks
      BY <2>2 DEF Center!NoAction, Center!Clicks, Center!Marks
    <3>. QED BY <1>7, <2>1, <3>1 DEF Center!Click, Center!table, Center!NShape
  <2>4. Center!DoneInTable' /\ Center!FetchIsLater' /\ Center!ShownLacks'
    <3>1. LET a == [Center!NoAction EXCEPT !.pc = "post", !.kind = button[1], !.id = button[2]]
          IN  a.pc = "post" /\ a.did.read = {} /\ a.did.gone = {}
      BY DEF Center!NoAction
    <3>. QED
      BY <1>7, <2>1, <3>1 DEF Center!Click, Center!table, Center!NShape, Center!DoneInTable,
                              Center!FetchIsLater, Center!ShownLacks, Center!Lacks
  <2>. QED BY <2>3, <2>4
<1>8. ASSUME NEW t \in Tabs, Center!Post(t) PROVE Center!CenterInv'
  <2> DEFINE effect == Center!Effect(centerAction[t])
  <2>1. effect \in Center!Marks
    BY <1>a DEF Center!Effect, Center!Marks
  <2>2. /\ centerRead' = centerRead \cup effect.read /\ centerGone' = centerGone \cup effect.gone
        /\ centerAction' = [centerAction EXCEPT ![t] = [@ EXCEPT !.pc = "answered", !.did = effect]]
        /\ UNCHANGED <<centerCreated, centerShown, centerFailed, centerFetch, centerEnded>>
    BY <1>8 DEF Center!Post
  <2> HIDE DEF effect
  <2>3. Center!NShape'
    <3>1. centerRead' \subseteq Nat /\ centerGone' \subseteq Nat
      BY <2>1, <2>2 DEF Center!NShape, Center!Marks
    <3>. QED BY <2>1, <2>2, <3>1, Records DEF Center!NShape
  <2>4. Center!DoneInTable' /\ Center!FetchIsLater' /\ Center!ShownLacks'
    <3>1. /\ centerAction'[t].pc = "answered" /\ centerAction'[t].did = effect
          /\ \A u \in Tabs : u # t => centerAction'[u] = centerAction[u]
      <4>1. centerAction[t] \in Center!Clicks /\ centerAction \in [Tabs -> Center!Clicks]
        BY DEF Center!NShape
      <4>2. LET b == [centerAction[t] EXCEPT !.pc = "answered", !.did = effect]
            IN  b.pc = "answered" /\ b.did = effect
        BY <2>1, <4>1, Records
      <4>. QED BY <2>2, <4>1, <4>2
    <3>2. Center!DoneInTable'
      BY <2>2, <3>1 DEF Center!DoneInTable
    <3>3. Center!FetchIsLater' /\ Center!ShownLacks'
      BY <2>2, <3>1 DEF Center!FetchIsLater, Center!ShownLacks, Center!Lacks
    <3>. QED BY <3>2, <3>3
  <2>. QED BY <2>3, <2>4
<1>9. ASSUME NEW t \in Tabs, Center!PostFails(t) PROVE Center!CenterInv'
  <2>1. Center!NShape'
    BY <1>9, Records DEF Center!PostFails, Center!table, Center!NShape
  <2>2. /\ centerAction'[t] = Center!NoAction
        /\ \A u \in Tabs : u # t => centerAction'[u] = centerAction[u]
        /\ UNCHANGED <<centerRead, centerGone, centerShown, centerFailed, centerFetch, centerEnded>>
    BY <1>9 DEF Center!PostFails, Center!table, Center!NShape
  <2>3. Center!DoneInTable'
    BY <2>2, Records DEF Center!DoneInTable
  <2>4. Center!FetchIsLater' /\ Center!ShownLacks'
    <3>1. Center!NoAction.pc # "revalidating"
      BY DEF Center!NoAction
    <3>2. Center!FetchIsLater'
      BY <2>2, <3>1 DEF Center!FetchIsLater, Center!Lacks
    <3>3. Center!ShownLacks'
      BY <2>2 DEF Center!ShownLacks, Center!Lacks
    <3>. QED BY <3>2, <3>3
  <2>. QED BY <2>1, <2>3, <2>4
<1>10. ASSUME NEW t \in Tabs, Center!RunAction(t) PROVE Center!CenterInv'
  <2>1. Center!NShape'
    BY <1>10, Records DEF Center!RunAction, Center!Requested, Center!table, Center!NShape
  <2>2. /\ centerAction'[t].did = centerAction[t].did /\ centerFetch'[t].step = "list"
        /\ \A u \in Tabs : u # t => centerAction'[u] = centerAction[u]
           /\ centerFetch'[u] = centerFetch[u]
    BY <1>10, Records DEF Center!RunAction, Center!Requested, Center!NShape
  <2>3. Center!DoneInTable' /\ Center!FetchIsLater' /\ Center!ShownLacks'
    BY <1>10, <2>2 DEF Center!RunAction, Center!table, Center!DoneInTable, Center!FetchIsLater,
                       Center!ShownLacks, Center!Lacks
  <2>. QED BY <2>1, <2>3
<1>11. CASE UNCHANGED Center!vars
  BY <1>11 DEF Center!vars, Center!NShape, Center!DoneInTable, Center!FetchIsLater,
               Center!ShownLacks, Center!Lacks
<1>. QED
  BY <1>1, <1>2, <1>3, <1>4, <1>5, <1>6, <1>7, <1>8, <1>9, <1>10, <1>11 DEF Center!Next,
                                                                            Center!Fetch, Center!Act

(* The invariant is more than what is promised.                             *)
LEMMA CenterMeans == Center!CenterInv => Center!ActionsShow
BY DEF Center!CenterInv, Center!ShownLacks, Center!Lacks, Center!ActionsShow

(* The drawers keep their invariant.                                        *)
LEMMA CenterKept == Center!Init /\ [][Center!Next]_(Center!vars) => []Center!CenterInv
BY CenterInit, CenterStep, PTL

(* The module keeps what it promises, whatever the constants. *)
LEMMA CenterHolds ==
  Center!Init /\ [][Center!Next]_(Center!vars) => []Center!ActionsShow
<1>1. Center!Init /\ [][Center!Next]_(Center!vars) => []Center!CenterInv
  BY CenterKept
<1>2. Center!CenterInv => Center!ActionsShow
  BY CenterMeans
<1>. QED BY <1>1, <1>2, PTL

(* MCBrowser stays with the machine it starts in and steps as its module.   *)
LEMMA CenterRuns ==
  MCSafe => []~(machine = "center") \/ (Center!Init /\ [][Center!Next]_(Center!vars))
<1>1. MCInit /\ machine = "center" => Center!Init
  BY DEF MCInit
<1>2. machine = "center" /\ [MCNext]_all => (machine = "center")' /\ [Center!Next]_(Center!vars)
  BY DEF MCNext, all, inst, Center!vars
<1>3. ~(machine = "center") /\ [MCNext]_all => (~(machine = "center"))'
  BY DEF MCNext, all
<1>. QED BY <1>1, <1>2, <1>3, PTL DEF MCSafe

-----------------------------------------------------------------------------
(* The checkout widget.  An attempt is numbered, the answer of a wallet     *)
(* carries the number, and an attempt that is over takes no other answer:   *)
(* no attempt has two outcomes, told or on their way (WidgetInv).           *)
widgetAttempt == v1
widgetRender == v2
widgetDisabled == v3
widgetToPage == v4
widgetToWidget == v5
widgetWallet == v6
widgetReported == v7
widgetSends == v8

USE DEF widgetAttempt, widgetRender, widgetDisabled, widgetToPage, widgetToWidget,
        widgetWallet, widgetReported, widgetSends

(* What is appended is there, beside what was.                              *)
LEMMA AppendMembers ==
  ASSUME NEW S, NEW s \in Seq(S), NEW m \in S
  PROVE  /\ Append(s, m) \in Seq(S) /\ Len(s) \in Nat /\ DOMAIN s = 1 .. Len(s)
         /\ DOMAIN Append(s, m) = 1 .. Len(s) + 1 /\ Append(s, m)[Len(s) + 1] = m
         /\ \A i \in DOMAIN s : Append(s, m)[i] = s[i]
         /\ Widget!Members(Append(s, m)) = Widget!Members(s) \cup {m}
<1>1. /\ Append(s, m) \in Seq(S) /\ Len(s) \in Nat /\ DOMAIN s = 1 .. Len(s)
      /\ DOMAIN Append(s, m) = 1 .. Len(s) + 1
      /\ \A i \in 1 .. Len(s) : Append(s, m)[i] = s[i]
      /\ Append(s, m)[Len(s) + 1] = m
  BY AppendProperties
<1>2. ASSUME NEW x \in Widget!Members(Append(s, m)) PROVE x \in Widget!Members(s) \cup {m}
  <2>1. PICK i \in 1 .. Len(s) + 1 : x = Append(s, m)[i]
    BY <1>1 DEF Widget!Members
  <2>2. CASE i = Len(s) + 1
    BY <1>1, <2>1, <2>2
  <2>3. CASE i \in 1 .. Len(s)
    BY <1>1, <2>1, <2>3 DEF Widget!Members
  <2>. QED BY <1>1, <2>1, <2>2, <2>3
<1>3. ASSUME NEW x \in Widget!Members(s) \cup {m} PROVE x \in Widget!Members(Append(s, m))
  <2>1. CASE x = m
    <3>1. Len(s) + 1 \in DOMAIN Append(s, m)
      BY <1>1
    <3>. QED BY <1>1, <2>1, <3>1 DEF Widget!Members
  <2>2. CASE x \in Widget!Members(s)
    <3>1. PICK i \in 1 .. Len(s) : x = s[i]
      BY <1>1, <2>2 DEF Widget!Members
    <3>2. i \in DOMAIN Append(s, m)
      BY <1>1
    <3>. QED BY <1>1, <3>1, <3>2 DEF Widget!Members
  <2>. QED BY <1>3, <2>1, <2>2
<1>4. Widget!Members(Append(s, m)) = Widget!Members(s) \cup {m}
  BY <1>2, <1>3
<1>. QED BY <1>1, <1>4

(* What leaves a channel is its head.                                       *)
LEMMA TailMembers ==
  ASSUME NEW S, NEW s \in Seq(S), s # <<>>
  PROVE  /\ Tail(s) \in Seq(S) /\ Head(s) \in S /\ Head(s) \in Widget!Members(s)
         /\ Widget!Members(Tail(s)) \subseteq Widget!Members(s)
         /\ \A j \in DOMAIN Tail(s) : j + 1 \in DOMAIN s /\ Tail(s)[j] = s[j + 1]
         /\ 1 \in DOMAIN s /\ Head(s) = s[1] /\ DOMAIN Tail(s) \subseteq Nat \ {0}
<1>1. /\ Len(s) \in Nat /\ DOMAIN s = 1 .. Len(s) /\ Head(s) = s[1] /\ Head(s) \in S
      /\ Tail(s) \in Seq(S) /\ Len(Tail(s)) = Len(s) - 1
      /\ \A i \in 1 .. Len(Tail(s)) : Tail(s)[i] = s[i + 1]
  BY HeadTailProperties, LenProperties
<1>2. DOMAIN Tail(s) = 1 .. Len(s) - 1
  BY <1>1, LenProperties
<1>3. Len(s) # 0
  BY EmptySeq
<1>4. \A j \in DOMAIN Tail(s) : j + 1 \in DOMAIN s /\ Tail(s)[j] = s[j + 1]
  BY <1>1, <1>2
<1>5. 1 \in DOMAIN s
  BY <1>1, <1>3
<1>6. Widget!Members(Tail(s)) \subseteq Widget!Members(s) /\ Head(s) \in Widget!Members(s)
  BY <1>1, <1>4, <1>5 DEF Widget!Members
<1>. QED BY <1>1, <1>2, <1>4, <1>5, <1>6

(* Members of a sequence over a set are of the set.                         *)
LEMMA MembersAreTyped ==
  ASSUME NEW S, NEW s \in Seq(S)
  PROVE  Widget!Members(s) \subseteq S
BY ElementOfSeq, LenProperties DEF Widget!Members

(* An outcome that is not in a channel joins it.                            *)
LEMMA OnceAppended ==
  ASSUME NEW s \in Seq(Widget!Posts), NEW m \in Widget!Posts, Widget!Once(s),
         m.type = "pay" \/ \A p \in Widget!Outcomes(s) : ~Widget!Same(p, m)
  PROVE  Widget!Once(Append(s, m))
<1> DEFINE t == Append(s, m)
<1>1. /\ Len(s) \in Nat /\ DOMAIN s = 1 .. Len(s) /\ DOMAIN t = 1 .. Len(s) + 1
      /\ t[Len(s) + 1] = m /\ \A i \in DOMAIN s : t[i] = s[i]
  BY AppendMembers
<1> HIDE DEF t
<1> SUFFICES ASSUME NEW i \in DOMAIN t, NEW j \in DOMAIN t, t[i].type # "pay", t[j].type # "pay",
                    Widget!Same(t[i], t[j])
             PROVE  i = j
  BY DEF t, Widget!Once
<1>2. CASE i \in DOMAIN s /\ j \in DOMAIN s
  BY <1>1, <1>2 DEF Widget!Once
<1>3. CASE i = Len(s) + 1 /\ j \in DOMAIN s
  BY <1>1, <1>3 DEF Widget!Outcomes, Widget!Members, Widget!Same
<1>4. CASE j = Len(s) + 1 /\ i \in DOMAIN s
  BY <1>1, <1>4 DEF Widget!Outcomes, Widget!Members
<1>. QED BY <1>1, <1>2, <1>3, <1>4

(* An outcome leaves a channel, and is not in it any more.                  *)
LEMMA OnceTaken ==
  ASSUME NEW s \in Seq(Widget!Posts), s # <<>>, Widget!Once(s)
  PROVE  /\ Widget!Once(Tail(s))
         /\ Head(s).type # "pay" => \A p \in Widget!Outcomes(Tail(s)) : ~Widget!Same(Head(s), p)
<1>1. /\ \A j \in DOMAIN Tail(s) : j + 1 \in DOMAIN s /\ Tail(s)[j] = s[j + 1]
      /\ 1 \in DOMAIN s /\ Head(s) = s[1] /\ DOMAIN Tail(s) \subseteq Nat \ {0}
  BY TailMembers
<1>2. Widget!Once(Tail(s))
  BY <1>1 DEF Widget!Once
<1>3. ASSUME Head(s).type # "pay", NEW p \in Widget!Outcomes(Tail(s)), Widget!Same(Head(s), p)
      PROVE  FALSE
  <2>1. PICK j \in DOMAIN Tail(s) : p = Tail(s)[j]
    BY DEF Widget!Outcomes, Widget!Members
  <2>2. p.type # "pay"
    BY DEF Widget!Outcomes
  <2>3. 1 = j + 1
    BY <1>1, <1>3, <2>1, <2>2 DEF Widget!Once
  <2>. QED BY <1>1, <2>1, <2>3
<1>. QED BY <1>2, <1>3

(* A message is posted to the page.                                         *)
LEMMA Posted ==
  \A s \in Seq(Widget!Posts), m \in Widget!Posts :
    /\ Append(s, m) \in Seq(Widget!Posts)
       /\ Widget!Members(Append(s, m)) = Widget!Members(s) \cup {m}
    /\ m.type # "pay" => Widget!Outcomes(Append(s, m)) = Widget!Outcomes(s) \cup {m}
    /\ m.type = "pay" => Widget!Outcomes(Append(s, m)) = Widget!Outcomes(s)
<1>1. \A s \in Seq(Widget!Posts), m \in Widget!Posts :
        Append(s, m) \in Seq(Widget!Posts)
          /\ Widget!Members(Append(s, m)) = Widget!Members(s) \cup {m}
  BY AppendMembers
<1>. QED BY <1>1 DEF Widget!Outcomes

(* A message is posted that is no second word, or comes behind the first.   *)
LEMMA BehindPosted ==
  ASSUME NEW heard \in Seq(Widget!Posts), NEW page \in Seq(Widget!Posts), NEW m \in Widget!Posts,
         Widget!BehindBoth(heard, page),
         m.again => (\E j \in DOMAIN page : Widget!Leads(page[j], m))
                      \/ \E p \in Widget!Members(heard) : Widget!Leads(p, m)
  PROVE  Widget!BehindBoth(heard, Append(page, m))
<1> DEFINE t == Append(page, m)
<1>1. /\ Len(page) \in Nat /\ DOMAIN page = 1 .. Len(page) /\ DOMAIN t = 1 .. Len(page) + 1
      /\ t[Len(page) + 1] = m /\ \A i \in DOMAIN page : t[i] = page[i]
  BY AppendMembers
<1> HIDE DEF t
<1> SUFFICES ASSUME NEW i \in DOMAIN t, t[i].again
             PROVE  (\E j \in 1 .. i - 1 : Widget!Leads(t[j], t[i]))
                      \/ \E p \in Widget!Members(heard) : Widget!Leads(p, t[i])
  BY DEF t, Widget!BehindBoth
<1>2. CASE i \in DOMAIN page
  <2>1. t[i] = page[i] /\ \A j \in 1 .. i - 1 : t[j] = page[j]
    BY <1>1, <1>2
  <2>2. (\E j \in 1 .. i - 1 : Widget!Leads(page[j], page[i]))
          \/ \E p \in Widget!Members(heard) : Widget!Leads(p, page[i])
    BY <1>2, <2>1 DEF Widget!BehindBoth
  <2>. QED BY <2>1, <2>2
<1>3. CASE i = Len(page) + 1
  <2>1. t[i] = m /\ \A j \in DOMAIN page : j \in 1 .. i - 1 /\ t[j] = page[j]
    BY <1>1, <1>3
  <2>. QED BY <2>1
<1>. QED BY <1>1, <1>2, <1>3

(* A request to pay is posted.                                              *)
LEMMA HeardRequest ==
  ASSUME NEW heard \in Seq(Widget!Posts), NEW page \in Seq(Widget!Posts), NEW tries, NEW asks,
         NEW m \in Widget!Posts, m.type = "pay", ~m.again, Widget!Heard(heard, page, tries, asks)
  PROVE  Widget!Heard(heard, Append(page, m), tries, asks)
<1>1. Widget!Outcomes(Append(page, m)) = Widget!Outcomes(page)
  BY Posted
<1>2. Widget!Once(Append(page, m))
  BY OnceAppended DEF Widget!Heard
<1>3. Widget!BehindBoth(heard, Append(page, m))
  BY BehindPosted DEF Widget!Heard
<1>. QED BY <1>1, <1>2, <1>3 DEF Widget!Heard

(* An outcome is posted that nobody posted before.                          *)
LEMMA HeardOutcome ==
  ASSUME NEW heard \in Seq(Widget!Posts), NEW page \in Seq(Widget!Posts), NEW tries, NEW asks,
         NEW m \in Widget!Posts, m.type # "pay", Widget!Fair(m, tries, asks),
         Widget!Heard(heard, page, tries, asks),
         \A p \in Widget!Members(heard) \cup Widget!Outcomes(page) : ~Widget!Same(p, m),
         m.again => (\E j \in DOMAIN page : Widget!Leads(page[j], m))
                      \/ \E p \in Widget!Members(heard) : Widget!Leads(p, m)
  PROVE  Widget!Heard(heard, Append(page, m), tries, asks)
<1>1. Widget!Outcomes(Append(page, m)) = Widget!Outcomes(page) \cup {m}
  BY Posted
<1>2. Widget!Once(Append(page, m))
  BY OnceAppended DEF Widget!Heard
<1>3. Widget!BehindBoth(heard, Append(page, m))
  BY BehindPosted DEF Widget!Heard
<1>. QED BY <1>1, <1>2, <1>3 DEF Widget!Heard

(* The page hears the next message.                                         *)
LEMMA HeardTaken ==
  ASSUME NEW heard \in Seq(Widget!Posts), NEW page \in Seq(Widget!Posts), NEW tries, NEW asks,
         page # <<>>, Widget!Heard(heard, page, tries, asks)
  PROVE  /\ Head(page).type = "pay" => Widget!Heard(heard, Tail(page), tries, asks)
         /\ Head(page).type # "pay" => Widget!Heard(Append(heard, Head(page)), Tail(page), tries, asks)
<1> DEFINE m == Head(page)
           rest == Tail(page)
           more == Append(heard, m)
<1>1. /\ rest \in Seq(Widget!Posts) /\ m \in Widget!Posts /\ m \in Widget!Members(page)
      /\ Widget!Members(rest) \subseteq Widget!Members(page)
      /\ \A j \in DOMAIN rest : j + 1 \in DOMAIN page /\ rest[j] = page[j + 1]
      /\ 1 \in DOMAIN page /\ m = page[1] /\ DOMAIN rest \subseteq Nat \ {0}
  BY TailMembers
<1>2. /\ Widget!Once(rest)
      /\ m.type # "pay" => \A p \in Widget!Outcomes(rest) : ~Widget!Same(m, p)
  BY OnceTaken DEF Widget!Heard
<1>3. /\ Widget!Outcomes(rest) \subseteq Widget!Outcomes(page)
      /\ m.type # "pay" => m \in Widget!Outcomes(page)
  BY <1>1 DEF Widget!Outcomes
<1>4. ASSUME NEW i \in DOMAIN rest, rest[i].again
      PROVE  \/ \E j \in 1 .. i - 1 : Widget!Leads(rest[j], rest[i])
             \/ Widget!Leads(m, rest[i])
             \/ \E p \in Widget!Members(heard) : Widget!Leads(p, rest[i])
  <2>1. /\ rest[i] = page[i + 1] /\ i + 1 \in DOMAIN page /\ i \in Nat \ {0}
        /\ \A j \in 1 .. i : page[j] = IF j = 1 THEN m ELSE rest[j - 1]
    <3>1. rest[i] = page[i + 1] /\ i + 1 \in DOMAIN page /\ i \in Nat \ {0}
      BY <1>1
    <3>2. Len(rest) \in Nat /\ DOMAIN rest = 1 .. Len(rest)
      BY <1>1, LenProperties
    <3>3. ASSUME NEW j \in 1 .. i, j # 1 PROVE page[j] = rest[j - 1]
      <4>1. j - 1 \in DOMAIN rest /\ (j - 1) + 1 = j
        BY <3>1, <3>2, <3>3
      <4>. QED BY <1>1, <4>1
    <3>. QED BY <1>1, <3>1, <3>3
  <2>2. CASE \E p \in Widget!Members(heard) : Widget!Leads(p, rest[i])
    BY <2>2
  <2>3. ASSUME NEW j \in 1 .. (i + 1) - 1, Widget!Leads(page[j], page[i + 1])
        PROVE  \/ \E k \in 1 .. i - 1 : Widget!Leads(rest[k], rest[i])
               \/ Widget!Leads(m, rest[i])
    <3>1. CASE j = 1
      BY <2>1, <2>3, <3>1
    <3>2. CASE j # 1
      <4>1. j \in 1 .. i /\ j - 1 \in 1 .. i - 1
        BY <2>1, <3>2
      <4>. QED BY <2>1, <2>3, <3>2, <4>1
    <3>. QED BY <3>1, <3>2
  <2>. QED BY <1>4, <2>1, <2>2, <2>3 DEF Widget!Heard, Widget!BehindBoth
<1> HIDE DEF m, rest
<1>5. CASE m.type = "pay"
  <2>1. Widget!BehindBoth(heard, rest)
    BY <1>4, <1>5 DEF Widget!BehindBoth, Widget!Leads
  <2>2. Widget!Heard(heard, rest, tries, asks)
    BY <1>2, <1>3, <2>1 DEF Widget!Heard
  <2>. QED BY <1>5, <2>2 DEF m, rest
<1>6. CASE m.type # "pay"
  <2>1. /\ Len(heard) \in Nat /\ DOMAIN heard = 1 .. Len(heard)
        /\ DOMAIN more = 1 .. Len(heard) + 1
        /\ more[Len(heard) + 1] = m /\ \A i \in DOMAIN heard : more[i] = heard[i]
        /\ Widget!Members(more) = Widget!Members(heard) \cup {m}
    BY <1>1, AppendMembers
  <2>2. Widget!Once(more)
    <3>1. \A p \in Widget!Outcomes(heard) : ~Widget!Same(p, m)
      BY <1>3, <1>6 DEF Widget!Heard, Widget!Outcomes
    <3>. QED BY <1>1, <3>1, OnceAppended DEF Widget!Heard
  <2>3. Widget!BehindBoth(more, rest)
    BY <1>4, <2>1 DEF Widget!BehindBoth
  <2>4. m.again => \E j \in DOMAIN heard : Widget!Leads(heard[j], m)
    <3>1. m.again => \E p \in Widget!Members(heard) : Widget!Leads(p, m)
      BY <1>1 DEF Widget!Heard, Widget!BehindBoth
    <3>. QED BY <3>1 DEF Widget!Members
  <2> HIDE DEF more
  <2>5. Widget!Behind(more)
    <3> SUFFICES ASSUME NEW i \in DOMAIN more, more[i].again
                 PROVE  \E j \in 1 .. i - 1 : Widget!Leads(more[j], more[i])
      BY DEF Widget!Behind
    <3>1. CASE i \in DOMAIN heard
      <4>1. more[i] = heard[i] /\ \A j \in 1 .. i - 1 : more[j] = heard[j]
        BY <2>1, <3>1
      <4>2. \E j \in 1 .. i - 1 : Widget!Leads(heard[j], heard[i])
        BY <3>1, <4>1 DEF Widget!Heard, Widget!Behind
      <4>. QED BY <4>1, <4>2
    <3>2. CASE i = Len(heard) + 1
      <4>1. more[i] = m /\ \A j \in DOMAIN heard : j \in 1 .. i - 1 /\ more[j] = heard[j]
        BY <2>1, <3>2
      <4>. QED BY <2>4, <4>1
    <3>. QED BY <2>1, <3>1, <3>2
  <2>6. \A p \in Widget!Members(more) : p.type # "pay" /\ Widget!Fair(p, tries, asks)
    BY <1>3, <1>6, <2>1 DEF Widget!Heard
  <2>7. \A p \in Widget!Members(more), q \in Widget!Outcomes(rest) : ~Widget!Same(p, q)
    BY <1>2, <1>3, <1>6, <2>1 DEF Widget!Heard
  <2>8. Widget!Heard(more, rest, tries, asks)
    BY <1>2, <1>3, <2>2, <2>3, <2>5, <2>6, <2>7 DEF Widget!Heard
  <2>. QED BY <1>6, <2>8 DEF m, rest, more
<1>. QED BY <1>5, <1>6

(* What is over stays as it ended, and what the wallet made of it, too.     *)
LEMMA HeardLater ==
  ASSUME NEW heard, NEW page, NEW tries, NEW later, NEW asks, NEW more,
         Widget!Heard(heard, page, tries, asks),
         \A n \in DOMAIN tries : tries[n].state # "waiting" =>
           n \in DOMAIN later /\ later[n].state = tries[n].state,
         \A n, state : state \in {"paid", "refused"} /\ Widget!Made(asks, n, state) =>
           Widget!Made(more, n, state)
  PROVE  Widget!Heard(heard, page, later, more)
<1>1. ASSUME NEW m, Widget!Fair(m, tries, asks) PROVE Widget!Fair(m, later, more)
  <2>1. m.of # 0 => /\ m.of \in DOMAIN later /\ later[m.of].state # "waiting"
                    /\ later[m.of].state = tries[m.of].state
    BY <1>1 DEF Widget!Fair
  <2>2. m.type = "success" => Widget!Made(more, m.of, "paid")
    BY <1>1 DEF Widget!Fair
  <2>3. m.type = "error" /\ ~m.again /\ m.of # 0 /\ later[m.of].state # "timed out" =>
          Widget!Made(more, m.of, "refused")
    BY <1>1, <2>1 DEF Widget!Fair
  <2>4. m.again => m.type = "error" /\ m.of # 0 /\ later[m.of].state = "thrown"
    BY <1>1, <2>1 DEF Widget!Fair
  <2>. QED BY <2>1, <2>2, <2>3, <2>4 DEF Widget!Fair
<1>. QED BY <1>1 DEF Widget!Heard

(* The invariant holds before the first click.                              *)
LEMMA WidgetInit == Widget!Init => Widget!WidgetInv
<1> SUFFICES ASSUME Widget!Init PROVE Widget!WidgetInv
  OBVIOUS
<1>1. Widget!Members(<<>>) = {} /\ DOMAIN <<>> = {} /\ \A S : <<>> \in Seq(S)
  BY EmptySeq DEF Widget!Members
<1>2. Widget!WShape
  BY <1>1 DEF Widget!Init, Widget!WShape
<1>3. Widget!AnswersTrue
  BY <1>1 DEF Widget!Init, Widget!AnswersTrue
<1>4. Widget!Heard(<<>>, <<>>, widgetAttempt, widgetWallet)
  BY <1>1 DEF Widget!Heard, Widget!Outcomes, Widget!Once, Widget!Behind, Widget!BehindBoth
<1>. QED BY <1>2, <1>3, <1>4 DEF Widget!WidgetInv, Widget!Init

(* An attempt in waiting has a number.                                      *)
LEMMA Numbered ==
  ASSUME Widget!WShape, NEW n \in Widget!Waiting
  PROVE  n \in Nat /\ n # 0
<1>1. /\ Len(widgetAttempt) \in Nat /\ DOMAIN widgetAttempt = 1 .. Len(widgetAttempt)
  BY LenProperties DEF Widget!WShape
<1>2. n \in DOMAIN widgetAttempt
  BY DEF Widget!Waiting, Widget!Started
<1>. QED BY <1>1, <1>2

(* Attempts in waiting come to their end; the others stay as they are.      *)
LEMMA AttemptsEnded ==
  ASSUME Widget!WShape, NEW ns \in SUBSET Widget!Waiting, NEW how \in Widget!Ended
  PROVE  /\ Widget!Settled(ns, how) \in Seq(Widget!Attempts)
         /\ DOMAIN Widget!Settled(ns, how) = DOMAIN widgetAttempt
         /\ \A k \in ns : k \in DOMAIN widgetAttempt /\ k \in Nat /\ k # 0
                          /\ widgetAttempt[k].state = "waiting"
                          /\ Widget!Settled(ns, how)[k].state = how
         /\ \A k \in DOMAIN widgetAttempt : widgetAttempt[k].state # "waiting" =>
              Widget!Settled(ns, how)[k].state = widgetAttempt[k].state
<1> DEFINE t == Widget!Settled(ns, how)
<1>1. /\ Len(widgetAttempt) \in Nat /\ DOMAIN widgetAttempt = 1 .. Len(widgetAttempt)
      /\ widgetAttempt \in [1 .. Len(widgetAttempt) -> Widget!Attempts]
  BY LenProperties DEF Widget!WShape
<1>2. \A k \in ns : k \in DOMAIN widgetAttempt /\ widgetAttempt[k].state = "waiting"
  BY DEF Widget!Waiting, Widget!Started
<1>3. /\ DOMAIN t = DOMAIN widgetAttempt
      /\ \A k \in DOMAIN widgetAttempt :
           t[k] = IF k \in ns THEN [widgetAttempt[k] EXCEPT !.state = how] ELSE widgetAttempt[k]
      /\ t = [k \in DOMAIN widgetAttempt |-> t[k]]
  BY DEF Widget!Settled, Widget!Started
<1>4. \A k \in DOMAIN widgetAttempt : t[k] \in Widget!Attempts /\ (k \in ns => t[k].state = how)
  BY <1>1, <1>3 DEF Widget!Attempts, Widget!Ended
<1> HIDE DEF t
<1>5. t \in [1 .. Len(widgetAttempt) -> Widget!Attempts]
  BY <1>1, <1>3, <1>4
<1>6. t \in Seq(Widget!Attempts)
  BY <1>1, <1>5, SeqDef
<1>7. ASSUME NEW k \in ns
      PROVE  /\ k \in DOMAIN widgetAttempt /\ k \in Nat /\ k # 0
             /\ widgetAttempt[k].state = "waiting" /\ t[k].state = how
  <2>1. k \in DOMAIN widgetAttempt /\ widgetAttempt[k].state = "waiting"
    BY <1>2
  <2>2. k \in Widget!Waiting
    OBVIOUS
  <2>3. k \in Nat /\ k # 0
    BY <2>2, Numbered
  <2>. QED BY <1>4, <2>1, <2>3
<1>8. \A k \in DOMAIN widgetAttempt : widgetAttempt[k].state # "waiting" =>
        t[k].state = widgetAttempt[k].state
  BY <1>2, <1>3
<1>. QED BY <1>3, <1>6, <1>7, <1>8 DEF t

(* The widget takes the next message of the page.                           *)
LEMMA WidgetTakes ==
  ASSUME Widget!WShape, Widget!AnswersTrue, NEW types, Widget!Takes(types), UNCHANGED widgetWallet
  PROVE  /\ widgetToWidget' \in Seq(Widget!ToWidget) /\ Widget!AnswersTrue'
         /\ Head(widgetToWidget) \in Widget!Members(widgetToWidget)
         /\ Head(widgetToWidget).type \in types
         /\ Widget!HandlerOf(Head(widgetToWidget)) \in SUBSET Widget!Waiting
<1>1. /\ widgetToWidget # <<>> /\ widgetToWidget' = Tail(widgetToWidget)
      /\ Head(widgetToWidget).type \in types /\ widgetToWidget \in Seq(Widget!ToWidget)
  BY DEF Widget!Takes, Widget!WShape
<1>2. /\ widgetToWidget' \in Seq(Widget!ToWidget)
      /\ Head(widgetToWidget) \in Widget!Members(widgetToWidget)
      /\ Widget!Members(widgetToWidget') \subseteq Widget!Members(widgetToWidget)
  BY <1>1, TailMembers
<1>3. Widget!AnswersTrue'
  BY <1>2 DEF Widget!AnswersTrue, Widget!Members
<1>. QED BY <1>1, <1>2, <1>3 DEF Widget!HandlerOf

(* A request to pay is posted for a new attempt, and another may be dropped. *)
LEMMA AttemptBegins ==
  ASSUME Widget!WidgetInv, NEW ns \in SUBSET Widget!Waiting, Widget!InitiatePayment(ns),
         widgetToWidget' \in Seq(Widget!ToWidget), Widget!AnswersTrue'
  PROVE  Widget!WidgetInv'
<1> DEFINE n == Len(widgetAttempt) + 1
           a == [state |-> "waiting", button |-> widgetRender]
           m == [type |-> "pay", of |-> n, again |-> FALSE]
           t == Widget!Settled(ns, "dropped")
<1>1. /\ widgetAttempt' = Append(t, a) /\ widgetToPage' = Append(widgetToPage, m)
      /\ UNCHANGED <<widgetRender, widgetWallet, widgetReported>>
  BY DEF Widget!InitiatePayment, Widget!Post
<1>2. /\ Widget!WShape /\ Widget!AnswersTrue
      /\ Widget!Heard(widgetReported, widgetToPage, widgetAttempt, widgetWallet)
  BY DEF Widget!WidgetInv
<1>3. /\ t \in Seq(Widget!Attempts) /\ DOMAIN t = DOMAIN widgetAttempt
      /\ \A k \in DOMAIN widgetAttempt : widgetAttempt[k].state # "waiting" =>
           t[k].state = widgetAttempt[k].state
  <2>1. "dropped" \in Widget!Ended
    BY DEF Widget!Ended
  <2>. QED BY <1>2, <2>1, AttemptsEnded
<1>4. n \in Nat /\ widgetRender \in Nat
  BY <1>2, LenProperties DEF Widget!WShape
<1> HIDE DEF n, t
<1>5. a \in Widget!Attempts /\ m \in Widget!Posts /\ m.type = "pay" /\ ~m.again
  BY <1>4 DEF Widget!Attempts, Widget!Posts
<1> HIDE DEF a, m
<1>6. /\ widgetAttempt' \in Seq(Widget!Attempts)
      /\ \A k \in DOMAIN t : k \in DOMAIN widgetAttempt' /\ widgetAttempt'[k] = t[k]
  <2>1. /\ Append(t, a) \in Seq(Widget!Attempts) /\ Len(t) \in Nat /\ DOMAIN t = 1 .. Len(t)
        /\ DOMAIN Append(t, a) = 1 .. Len(t) + 1 /\ \A k \in DOMAIN t : Append(t, a)[k] = t[k]
    BY <1>3, <1>5, AppendMembers
  <2>. QED BY <1>1, <2>1
<1>7. /\ widgetToPage \in Seq(Widget!Posts) /\ widgetReported \in Seq(Widget!Posts)
      /\ widgetToPage' \in Seq(Widget!Posts)
  BY <1>1, <1>2, <1>5, AppendMembers DEF Widget!WShape
<1>8. Widget!WShape'
  BY <1>1, <1>2, <1>6, <1>7 DEF Widget!WShape
<1>9. Widget!Heard(widgetReported, widgetToPage, widgetAttempt', widgetWallet)
  BY <1>2, <1>3, <1>6, HeardLater
<1>10. Widget!Heard(widgetReported, Append(widgetToPage, m), widgetAttempt', widgetWallet)
  BY <1>5, <1>7, <1>9, HeardRequest
<1>. QED BY <1>1, <1>8, <1>10 DEF Widget!WidgetInv

(* Attempts end, and nothing is posted or an error of no attempt is.        *)
LEMMA AttemptsDropped ==
  ASSUME Widget!WidgetInv, NEW ns \in SUBSET Widget!Waiting, Widget!Ends(ns, "dropped"),
         widgetToPage' = widgetToPage \/ widgetToPage' = Append(widgetToPage, Widget!Post("error", 0, FALSE)),
         UNCHANGED <<widgetWallet, widgetReported>>, widgetRender' \in Nat,
         widgetToWidget' \in Seq(Widget!ToWidget), Widget!AnswersTrue'
  PROVE  Widget!WidgetInv'
<1> DEFINE m == Widget!Post("error", 0, FALSE)
<1>1. /\ Widget!WShape
      /\ Widget!Heard(widgetReported, widgetToPage, widgetAttempt, widgetWallet)
  BY DEF Widget!WidgetInv
<1>2. /\ widgetAttempt' \in Seq(Widget!Attempts) /\ DOMAIN widgetAttempt' = DOMAIN widgetAttempt
      /\ \A k \in DOMAIN widgetAttempt : widgetAttempt[k].state # "waiting" =>
           widgetAttempt'[k].state = widgetAttempt[k].state
  <2>1. widgetAttempt' = Widget!Settled(ns, "dropped")
    BY DEF Widget!Ends
  <2>2. "dropped" \in Widget!Ended
    BY DEF Widget!Ended
  <2> DEFINE t == Widget!Settled(ns, "dropped")
  <2>3. /\ t \in Seq(Widget!Attempts) /\ DOMAIN t = DOMAIN widgetAttempt
        /\ \A k \in DOMAIN widgetAttempt : widgetAttempt[k].state # "waiting" =>
             t[k].state = widgetAttempt[k].state
    BY <1>1, <2>2, AttemptsEnded
  <2> HIDE DEF t
  <2>. QED BY <2>1, <2>3 DEF t
<1>3. Widget!Heard(widgetReported, widgetToPage, widgetAttempt', widgetWallet)
  BY <1>1, <1>2, HeardLater
<1>4. m \in Widget!Posts /\ m.type = "error" /\ m.of = 0 /\ ~m.again
  BY DEF Widget!Post, Widget!Posts
<1> HIDE DEF m
<1>5. /\ widgetToPage \in Seq(Widget!Posts) /\ widgetReported \in Seq(Widget!Posts)
      /\ Append(widgetToPage, m) \in Seq(Widget!Posts)
  BY <1>1, <1>4, AppendMembers DEF Widget!WShape
<1>6. Widget!Heard(widgetReported, Append(widgetToPage, m), widgetAttempt', widgetWallet)
  <2>1. Widget!Fair(m, widgetAttempt', widgetWallet)
    BY <1>4 DEF Widget!Fair
  <2>2. \A p \in Widget!Members(widgetReported) \cup Widget!Outcomes(widgetToPage) :
          ~Widget!Same(p, m)
    BY <1>4 DEF Widget!Same
  <2>. QED BY <1>3, <1>4, <1>5, <2>1, <2>2, HeardOutcome
<1>7. Widget!WShape'
  BY <1>1, <1>2, <1>5 DEF Widget!WShape, m
<1>8. Widget!Heard(widgetReported', widgetToPage', widgetAttempt', widgetWallet')
  BY <1>3, <1>6 DEF m
<1>. QED BY <1>7, <1>8 DEF Widget!WidgetInv

(* An attempt in waiting ends, and its outcome is posted.                   *)
LEMMA OutcomeJoins ==
  ASSUME Widget!WidgetInv, NEW n \in Widget!Waiting,
         NEW state \in Widget!Ended, NEW type \in {"success", "error"},
         type = "success" => Widget!Made(widgetWallet, n, "paid"),
         type = "error" /\ state # "timed out" => Widget!Made(widgetWallet, n, "refused")
  PROVE  LET t == Widget!Settled({n}, state)
             page == Append(widgetToPage, Widget!Post(type, n, FALSE))
         IN  /\ t \in Seq(Widget!Attempts) /\ page \in Seq(Widget!Posts)
             /\ n \in DOMAIN t /\ t[n].state = state /\ n \in Nat /\ n # 0
             /\ Widget!Heard(widgetReported, page, t, widgetWallet)
             /\ \A p \in Widget!Members(widgetReported) \cup Widget!Outcomes(widgetToPage) : p.of # n
<1> DEFINE t == Widget!Settled({n}, state)
           m == Widget!Post(type, n, FALSE)
<1>1. /\ Widget!WShape
      /\ Widget!Heard(widgetReported, widgetToPage, widgetAttempt, widgetWallet)
  BY DEF Widget!WidgetInv
<1>2. {n} \in SUBSET Widget!Waiting
  OBVIOUS
<1>3. /\ t \in Seq(Widget!Attempts) /\ DOMAIN t = DOMAIN widgetAttempt
      /\ n \in DOMAIN widgetAttempt /\ n \in Nat /\ n # 0 /\ widgetAttempt[n].state = "waiting"
      /\ t[n].state = state
      /\ \A k \in DOMAIN widgetAttempt : widgetAttempt[k].state # "waiting" =>
           t[k].state = widgetAttempt[k].state
  <2>1. PICK ns \in SUBSET Widget!Waiting : ns = {n}
    BY <1>2
  <2>2. /\ Widget!Settled(ns, state) \in Seq(Widget!Attempts)
        /\ DOMAIN Widget!Settled(ns, state) = DOMAIN widgetAttempt
        /\ \A k \in DOMAIN widgetAttempt : widgetAttempt[k].state # "waiting" =>
             Widget!Settled(ns, state)[k].state = widgetAttempt[k].state
    BY ONLY <1>1, AttemptsEnded
  <2>3. \A k \in ns : k \in DOMAIN widgetAttempt /\ k \in Nat /\ k # 0
                      /\ widgetAttempt[k].state = "waiting"
                      /\ Widget!Settled(ns, state)[k].state = state
    BY ONLY <1>1, AttemptsEnded
  <2>. QED BY <2>1, <2>2, <2>3
<1> HIDE DEF t
<1>4. m \in Widget!Posts /\ m.type = type /\ m.of = n /\ ~m.again
  BY <1>3 DEF Widget!Post, Widget!Posts
<1> HIDE DEF m
<1>5. /\ widgetToPage \in Seq(Widget!Posts) /\ widgetReported \in Seq(Widget!Posts)
      /\ Append(widgetToPage, m) \in Seq(Widget!Posts)
  BY <1>1, <1>4, AppendMembers DEF Widget!WShape
<1>6. Widget!Heard(widgetReported, widgetToPage, t, widgetWallet)
  BY <1>1, <1>3, HeardLater
<1>7. \A p \in Widget!Members(widgetReported) \cup Widget!Outcomes(widgetToPage) : p.of # n
  BY <1>1, <1>3 DEF Widget!Heard, Widget!Fair
<1>8. Widget!Fair(m, t, widgetWallet)
  BY <1>3, <1>4 DEF Widget!Fair, Widget!Ended
<1>9. Widget!Heard(widgetReported, Append(widgetToPage, m), t, widgetWallet)
  BY <1>4, <1>5, <1>6, <1>7, <1>8, HeardOutcome DEF Widget!Same
<1>. QED BY <1>3, <1>5, <1>7, <1>9 DEF t, m

(* A callback throws, and an error is posted behind the outcome.            *)
LEMMA ErrorFollows ==
  ASSUME Widget!WidgetInv, NEW n \in Widget!Waiting, NEW type \in {"success", "error"},
         type = "success" => Widget!Made(widgetWallet, n, "paid"),
         type = "error" => Widget!Made(widgetWallet, n, "refused")
  PROVE  LET t == Widget!Settled({n}, "thrown")
             page == Append(Append(widgetToPage, Widget!Post(type, n, FALSE)),
                            Widget!Post("error", n, TRUE))
         IN  /\ t \in Seq(Widget!Attempts) /\ page \in Seq(Widget!Posts)
             /\ Widget!Heard(widgetReported, page, t, widgetWallet)
<1> DEFINE t == Widget!Settled({n}, "thrown")
           m == Widget!Post(type, n, FALSE)
           page == Append(widgetToPage, m)
           again == Widget!Post("error", n, TRUE)
<1>1. /\ t \in Seq(Widget!Attempts) /\ page \in Seq(Widget!Posts)
      /\ n \in DOMAIN t /\ t[n].state = "thrown" /\ n \in Nat /\ n # 0
      /\ Widget!Heard(widgetReported, page, t, widgetWallet)
      /\ \A p \in Widget!Members(widgetReported) \cup Widget!Outcomes(widgetToPage) : p.of # n
  <2>1. "thrown" \in Widget!Ended
    BY DEF Widget!Ended
  <2>. QED BY <2>1, OutcomeJoins
<1>2. m \in Widget!Posts /\ m.type = type /\ m.of = n /\ ~m.again
  BY <1>1 DEF Widget!Post, Widget!Posts
<1>3. again \in Widget!Posts /\ again.type = "error" /\ again.of = n /\ again.again
  BY <1>1 DEF Widget!Post, Widget!Posts
<1> HIDE DEF t, m, again
<1>4. widgetToPage \in Seq(Widget!Posts) /\ widgetReported \in Seq(Widget!Posts)
  BY DEF Widget!WidgetInv, Widget!WShape
<1>5. /\ Len(widgetToPage) + 1 \in DOMAIN page /\ page[Len(widgetToPage) + 1] = m
      /\ Widget!Outcomes(page) = Widget!Outcomes(widgetToPage) \cup {m}
  BY <1>2, <1>4, AppendMembers, Posted
<1> HIDE DEF page
<1>6. \E j \in DOMAIN page : Widget!Leads(page[j], again)
  BY <1>2, <1>3, <1>5 DEF Widget!Leads
<1>7. \A p \in Widget!Members(widgetReported) \cup Widget!Outcomes(page) : ~Widget!Same(p, again)
  BY <1>1, <1>2, <1>3, <1>5 DEF Widget!Same
<1>8. Widget!Fair(again, t, widgetWallet)
  BY <1>1, <1>3 DEF Widget!Fair
<1>9. Widget!Heard(widgetReported, Append(page, again), t, widgetWallet)
  BY <1>1, <1>3, <1>4, <1>6, <1>7, <1>8, HeardOutcome
<1>10. Append(page, again) \in Seq(Widget!Posts)
  BY <1>1, <1>3, AppendMembers
<1>. QED BY <1>1, <1>9, <1>10 DEF t, m, page, again

(* The page takes the next message.                                         *)
LEMMA PageTakes ==
  ASSUME Widget!WidgetInv, Widget!PageReceives
  PROVE  Widget!WidgetInv'
<1> DEFINE m == Head(widgetToPage)
<1>1. /\ widgetToPage # <<>> /\ widgetToPage' = Tail(widgetToPage)
      /\ UNCHANGED <<widgetAttempt, widgetRender, widgetToWidget>>
      /\ IF m.type = "pay"
         THEN widgetWallet' = Append(widgetWallet, [of |-> m.of, state |-> "asked"])
           /\ UNCHANGED widgetReported
         ELSE widgetReported' = Append(widgetReported, m) /\ UNCHANGED widgetWallet
  BY DEF Widget!PageReceives
<1>2. /\ Widget!WShape /\ Widget!AnswersTrue
      /\ Widget!Heard(widgetReported, widgetToPage, widgetAttempt, widgetWallet)
      /\ widgetToPage \in Seq(Widget!Posts) /\ widgetReported \in Seq(Widget!Posts)
  BY DEF Widget!WidgetInv, Widget!WShape
<1>3. widgetToPage' \in Seq(Widget!Posts) /\ m \in Widget!Posts
  BY <1>1, <1>2, TailMembers
<1>4. /\ m.type = "pay" =>
           Widget!Heard(widgetReported, widgetToPage', widgetAttempt, widgetWallet)
      /\ m.type # "pay" =>
           Widget!Heard(Append(widgetReported, m), widgetToPage', widgetAttempt, widgetWallet)
  BY <1>1, <1>2, HeardTaken
<1> HIDE DEF m
<1>5. CASE m.type = "pay"
  <2> DEFINE a == [of |-> m.of, state |-> "asked"]
  <2>1. a \in Widget!Asks
    BY <1>3 DEF Widget!Asks, Widget!Posts
  <2>2. widgetWallet' = Append(widgetWallet, a) /\ UNCHANGED widgetReported
    BY <1>1, <1>5
  <2> HIDE DEF a
  <2>3. /\ widgetWallet' \in Seq(Widget!Asks)
        /\ \A k \in DOMAIN widgetWallet : k \in DOMAIN widgetWallet'
           /\ widgetWallet'[k] = widgetWallet[k]
    <3>1. widgetWallet \in Seq(Widget!Asks)
      BY <1>2 DEF Widget!WShape
    <3>2. /\ Append(widgetWallet, a) \in Seq(Widget!Asks) /\ Len(widgetWallet) \in Nat
          /\ DOMAIN widgetWallet = 1 .. Len(widgetWallet)
          /\ DOMAIN Append(widgetWallet, a) = 1 .. Len(widgetWallet) + 1
          /\ \A k \in DOMAIN widgetWallet : Append(widgetWallet, a)[k] = widgetWallet[k]
      BY <2>1, <3>1, AppendMembers
    <3>. QED BY <2>2, <3>2
  <2>4. \A k, s : Widget!Made(widgetWallet, k, s) => Widget!Made(widgetWallet', k, s)
    BY <2>3 DEF Widget!Made
  <2>5. Widget!WShape'
    BY <1>1, <1>2, <1>3, <2>2, <2>3 DEF Widget!WShape
  <2>6. Widget!Heard(widgetReported, widgetToPage', widgetAttempt, widgetWallet')
    BY <1>4, <1>5, <2>4, HeardLater
  <2>7. Widget!AnswersTrue'
    BY <1>1, <1>2, <2>4 DEF Widget!AnswersTrue
  <2>. QED BY <1>1, <2>2, <2>5, <2>6, <2>7 DEF Widget!WidgetInv
<1>6. CASE m.type # "pay"
  <2>1. widgetReported' = Append(widgetReported, m) /\ UNCHANGED widgetWallet
    BY <1>1, <1>6
  <2>2. widgetReported' \in Seq(Widget!Posts)
    BY <1>2, <1>3, <2>1, AppendMembers
  <2>3. Widget!WShape'
    BY <1>1, <1>2, <1>3, <2>1, <2>2 DEF Widget!WShape
  <2>4. Widget!AnswersTrue'
    BY <1>1, <1>2, <2>1 DEF Widget!AnswersTrue
  <2>. QED BY <1>1, <1>4, <1>6, <2>1, <2>3, <2>4 DEF Widget!WidgetInv
<1>. QED BY <1>5, <1>6

(* The widget takes an answer.                                              *)
LEMMA AnswerTaken ==
  ASSUME Widget!WidgetInv, Widget!HandleAnswer
  PROVE  Widget!WidgetInv'
<1> DEFINE m == Head(widgetToWidget)
<1>1. /\ Widget!Takes({"success", "error"})
      /\ UNCHANGED <<widgetRender, widgetWallet, widgetReported>>
      /\ \/ \E n \in Widget!HandlerOf(m) : Widget!Concludes(n, m.type)
         \/ UNCHANGED <<widgetAttempt, widgetToPage>>
  BY DEF Widget!HandleAnswer
<1>2. /\ Widget!WShape /\ Widget!AnswersTrue
      /\ Widget!Heard(widgetReported, widgetToPage, widgetAttempt, widgetWallet)
  BY DEF Widget!WidgetInv
<1>3. /\ widgetToWidget' \in Seq(Widget!ToWidget) /\ Widget!AnswersTrue'
      /\ m \in Widget!Members(widgetToWidget) /\ m.type \in {"success", "error"}
  BY <1>1, <1>2, WidgetTakes
<1>4. /\ m.type = "success" => Widget!Made(widgetWallet, m.of, "paid")
      /\ m.type = "error" => Widget!Made(widgetWallet, m.of, "refused")
  BY <1>2, <1>3 DEF Widget!AnswersTrue
<1> HIDE DEF m
<1>5. ASSUME NEW n \in Widget!HandlerOf(m), Widget!Concludes(n, m.type) PROVE Widget!WidgetInv'
  <2>1. n \in Widget!Waiting /\ n = m.of
    BY DEF Widget!HandlerOf
  <2>2. \E state \in {"answered", "thrown"} :
          /\ widgetAttempt' = Widget!Settled({n}, state)
          /\ widgetAttempt' \in Seq(Widget!Attempts) /\ widgetToPage' \in Seq(Widget!Posts)
          /\ Widget!Heard(widgetReported, widgetToPage', widgetAttempt', widgetWallet)
    <3>1. CASE /\ Widget!Ends({n}, "answered")
               /\ widgetToPage' = Append(widgetToPage, Widget!Post(m.type, n, FALSE))
      <4>1. widgetAttempt' = Widget!Settled({n}, "answered")
        BY <3>1 DEF Widget!Ends
      <4>2. /\ widgetAttempt' \in Seq(Widget!Attempts) /\ widgetToPage' \in Seq(Widget!Posts)
            /\ Widget!Heard(widgetReported, widgetToPage', widgetAttempt', widgetWallet)
        BY <1>3, <1>4, <2>1, <3>1, <4>1, OutcomeJoins DEF Widget!Ended
      <4>. QED BY <4>1, <4>2
    <3>2. CASE /\ Widget!Ends({n}, "thrown")
               /\ widgetToPage' = Append(Append(widgetToPage, Widget!Post(m.type, n, FALSE)),
                                         Widget!Post("error", n, TRUE))
      <4>1. widgetAttempt' = Widget!Settled({n}, "thrown")
        BY <3>2 DEF Widget!Ends
      <4>2. /\ widgetAttempt' \in Seq(Widget!Attempts) /\ widgetToPage' \in Seq(Widget!Posts)
            /\ Widget!Heard(widgetReported, widgetToPage', widgetAttempt', widgetWallet)
        BY <1>3, <1>4, <2>1, <3>2, <4>1, ErrorFollows
      <4>. QED BY <4>1, <4>2
    <3>. QED BY <1>5, <3>1, <3>2 DEF Widget!Concludes
  <2>3. Widget!WShape'
    BY <1>1, <1>2, <1>3, <2>2 DEF Widget!WShape
  <2>. QED BY <1>1, <1>3, <2>2, <2>3 DEF Widget!WidgetInv
<1>6. CASE UNCHANGED <<widgetAttempt, widgetToPage>>
  <2>1. Widget!WShape'
    BY <1>1, <1>2, <1>3, <1>6 DEF Widget!WShape
  <2>. QED BY <1>1, <1>2, <1>3, <1>6, <2>1 DEF Widget!WidgetInv
<1>. QED BY <1>1, <1>5, <1>6

(* The page sends a message that is no answer.                              *)
LEMMA RequestSent ==
  ASSUME Widget!WidgetInv, NEW type \in Widget!Requests, NEW of \in Nat, Widget!Sends(type, of)
  PROVE  Widget!WidgetInv'
<1> DEFINE m == [type |-> type, of |-> of]
<1>1. /\ widgetToWidget' = Append(widgetToWidget, m)
      /\ UNCHANGED <<widgetAttempt, widgetRender, widgetToPage, widgetWallet, widgetReported>>
  BY DEF Widget!Sends
<1>2. m \in Widget!ToWidget /\ m.type \in Widget!Requests
  BY DEF Widget!ToWidget
<1> HIDE DEF m
<1>3. widgetToWidget' \in Seq(Widget!ToWidget)
      /\ Widget!Members(widgetToWidget') = Widget!Members(widgetToWidget) \cup {m}
  BY <1>1, <1>2, AppendMembers DEF Widget!WidgetInv, Widget!WShape
<1>4. Widget!WShape'
  BY <1>1, <1>3 DEF Widget!WidgetInv, Widget!WShape
<1>5. Widget!AnswersTrue'
  BY <1>1, <1>2, <1>3 DEF Widget!WidgetInv, Widget!AnswersTrue, Widget!Requests, Widget!Members
<1>. QED BY <1>1, <1>4, <1>5 DEF Widget!WidgetInv

(* The wallet answers.                                                      *)
LEMMA WalletAnswered ==
  ASSUME Widget!WidgetInv, NEW i \in DOMAIN widgetWallet, NEW state \in {"paid", "refused"},
         Widget!WalletAnswers(i, state)
  PROVE  Widget!WidgetInv'
<1> DEFINE m == [type |-> IF state = "paid" THEN "success" ELSE "error", of |-> widgetWallet[i].of]
           a == [widgetWallet[i] EXCEPT !.state = state]
<1>1. /\ widgetWallet[i].state = "asked"
         /\ widgetWallet' = [widgetWallet EXCEPT ![i].state = state]
      /\ widgetToWidget' = Append(widgetToWidget, m)
         /\ UNCHANGED <<widgetAttempt, widgetRender, widgetToPage, widgetReported>>
  BY DEF Widget!WalletAnswers
<1>2. Len(widgetWallet) \in Nat /\ DOMAIN widgetWallet = 1 .. Len(widgetWallet)
      /\ widgetWallet \in [1 .. Len(widgetWallet) -> Widget!Asks]
  BY LenProperties DEF Widget!WidgetInv, Widget!WShape
<1>3. a \in Widget!Asks /\ a.of = widgetWallet[i].of /\ a.state = state
      /\ widgetWallet[i].of \in Nat
  BY <1>2 DEF Widget!Asks
<1>4. /\ m \in Widget!ToWidget /\ m.of = widgetWallet[i].of
      /\ m.type = "success" => state = "paid"
      /\ m.type = "error" => state = "refused"
  BY <1>3 DEF Widget!ToWidget
<1>5. /\ widgetWallet' \in [1 .. Len(widgetWallet) -> Widget!Asks]
         /\ DOMAIN widgetWallet' = DOMAIN widgetWallet
      /\ widgetWallet'[i] = a
         /\ \A k \in DOMAIN widgetWallet : k # i => widgetWallet'[k] = widgetWallet[k]
  BY <1>1, <1>2, <1>3
<1> HIDE DEF m, a
<1>6. widgetWallet' \in Seq(Widget!Asks)
  BY <1>2, <1>5, SeqDef
<1>7. /\ \E k \in DOMAIN widgetWallet' : widgetWallet'[k].of = m.of
         /\ widgetWallet'[k].state = state
      /\ \A k, s : s \in {"paid", "refused"} /\ Widget!Made(widgetWallet, k, s) =>
           Widget!Made(widgetWallet', k, s)
  BY <1>1, <1>3, <1>4, <1>5 DEF Widget!Made
<1>8. widgetToWidget' \in Seq(Widget!ToWidget)
      /\ Widget!Members(widgetToWidget') = Widget!Members(widgetToWidget) \cup {m}
  BY <1>1, <1>4, AppendMembers DEF Widget!WidgetInv, Widget!WShape
<1>9. Widget!WShape'
  BY <1>1, <1>6, <1>8 DEF Widget!WidgetInv, Widget!WShape
<1>10. Widget!Heard(widgetReported, widgetToPage, widgetAttempt, widgetWallet')
  <2>1. Widget!Heard(widgetReported, widgetToPage, widgetAttempt, widgetWallet)
    BY DEF Widget!WidgetInv
  <2>. QED BY <1>7, <2>1, HeardLater
<1>11. Widget!AnswersTrue'
  <2>1. ASSUME NEW x \in Widget!Members(widgetToWidget')
        PROVE  /\ x.type = "success" => Widget!Made(widgetWallet', x.of, "paid")
               /\ x.type = "error" => Widget!Made(widgetWallet', x.of, "refused")
    <3>1. CASE x = m
      BY <1>4, <1>7, <3>1 DEF Widget!Made
    <3>2. CASE x \in Widget!Members(widgetToWidget)
      BY <1>7, <3>2 DEF Widget!WidgetInv, Widget!AnswersTrue
    <3>. QED BY <1>8, <3>1, <3>2
  <2>. QED BY <2>1 DEF Widget!AnswersTrue
<1>. QED BY <1>1, <1>9, <1>10, <1>11 DEF Widget!WidgetInv

(* Every step keeps the invariant.                                          *)
LEMMA WidgetStep == Widget!WidgetInv /\ [Widget!Next]_(Widget!vars) => Widget!WidgetInv'
<1> SUFFICES ASSUME Widget!WidgetInv, [Widget!Next]_(Widget!vars) PROVE Widget!WidgetInv'
  OBVIOUS
<1>1. Widget!WShape /\ Widget!AnswersTrue /\ {} \in SUBSET Widget!Waiting
      /\ Widget!Heard(widgetReported, widgetToPage, widgetAttempt, widgetWallet)
      /\ widgetRender \in Nat /\ widgetToWidget \in Seq(Widget!ToWidget)
  BY DEF Widget!WidgetInv, Widget!WShape
<1>2. CASE Widget!Click \/ Widget!Pay
  <2>1. Widget!InitiatePayment({}) /\ widgetToWidget' = widgetToWidget
    BY <1>2 DEF Widget!Click, Widget!Pay
  <2>2. Widget!AnswersTrue'
    BY <1>1, <2>1 DEF Widget!AnswersTrue, Widget!InitiatePayment
  <2>. QED BY <1>1, <2>1, <2>2, AttemptBegins
<1>3. CASE Widget!Render
  <2>1. /\ widgetRender' = widgetRender + 1
        /\ UNCHANGED <<widgetAttempt, widgetToPage, widgetToWidget, widgetWallet, widgetReported>>
    BY <1>3 DEF Widget!Render
  <2>2. Widget!WShape'
    BY <1>1, <2>1 DEF Widget!WShape
  <2>3. Widget!AnswersTrue'
    BY <1>1, <2>1 DEF Widget!AnswersTrue
  <2>. QED BY <1>1, <2>1, <2>2, <2>3 DEF Widget!WidgetInv
<1>4. CASE Widget!HandleAnswer
  BY <1>4, AnswerTaken
<1>5. CASE Widget!HandlePay
  <2>1. /\ Widget!Takes({"pay"}) /\ UNCHANGED widgetWallet
        /\ Widget!InitiatePayment(Widget!HandlerOf(Head(widgetToWidget)))
    BY <1>5 DEF Widget!HandlePay, Widget!InitiatePayment
  <2>2. /\ widgetToWidget' \in Seq(Widget!ToWidget) /\ Widget!AnswersTrue'
        /\ Widget!HandlerOf(Head(widgetToWidget)) \in SUBSET Widget!Waiting
    BY <1>1, <2>1, WidgetTakes
  <2>. QED BY <2>1, <2>2, AttemptBegins
<1>6. CASE Widget!HandleConfig \/ Widget!HandleCancel
  <2>1. /\ Widget!Takes({"config"}) \/ Widget!Takes({"cancel"})
        /\ UNCHANGED <<widgetWallet, widgetReported>> /\ widgetRender' \in Nat
        /\ Widget!Ends(Widget!HandlerOf(Head(widgetToWidget)), "dropped")
        /\ \/ widgetToPage' = widgetToPage
           \/ widgetToPage' = Append(widgetToPage, Widget!Post("error", 0, FALSE))
    <3>1. CASE Widget!HandleConfig
      <4>1. /\ Widget!Takes({"config"}) /\ UNCHANGED <<widgetToPage, widgetWallet, widgetReported>>
            /\ widgetRender' = widgetRender + 1
            /\ Widget!Ends(Widget!HandlerOf(Head(widgetToWidget)), "dropped")
        BY <3>1 DEF Widget!HandleConfig
      <4>2. widgetRender' \in Nat
        BY <1>1, <4>1
      <4>. QED BY <4>1, <4>2
    <3>2. CASE Widget!HandleCancel
      BY <1>1, <3>2 DEF Widget!HandleCancel
    <3>. QED BY <1>6, <3>1, <3>2
  <2>2. /\ widgetToWidget' \in Seq(Widget!ToWidget) /\ Widget!AnswersTrue'
        /\ Widget!HandlerOf(Head(widgetToWidget)) \in SUBSET Widget!Waiting
    BY <1>1, <2>1, WidgetTakes
  <2>. QED BY <2>1, <2>2, AttemptsDropped
<1>7. CASE Widget!PageReceives
  BY <1>7, PageTakes
<1>8. ASSUME NEW n \in Widget!Started, Widget!MessageTimeout(n) PROVE Widget!WidgetInv'
  <2>1. /\ n \in Widget!Waiting /\ widgetAttempt' = Widget!Settled({n}, "timed out")
        /\ widgetToPage' = Append(widgetToPage, Widget!Post("error", n, FALSE))
        /\ UNCHANGED <<widgetRender, widgetToWidget, widgetWallet, widgetReported>>
    BY <1>8 DEF Widget!MessageTimeout, Widget!Ends
  <2>2. /\ widgetAttempt' \in Seq(Widget!Attempts) /\ widgetToPage' \in Seq(Widget!Posts)
        /\ Widget!Heard(widgetReported, widgetToPage', widgetAttempt', widgetWallet)
    <3>1. "timed out" \in Widget!Ended /\ "error" \in {"success", "error"}
      BY DEF Widget!Ended
    <3>. QED BY <2>1, <3>1, OutcomeJoins
  <2>3. Widget!WShape'
    BY <1>1, <2>1, <2>2 DEF Widget!WShape
  <2>4. Widget!AnswersTrue'
    BY <1>1, <2>1 DEF Widget!AnswersTrue
  <2>. QED BY <2>1, <2>2, <2>3, <2>4 DEF Widget!WidgetInv
<1>9. ASSUME NEW i \in DOMAIN widgetWallet, NEW state \in {"paid", "refused"},
             Widget!WalletAnswers(i, state)
      PROVE  Widget!WidgetInv'
  BY <1>9, WalletAnswered
<1>10. ASSUME NEW type \in Widget!Requests, Widget!SendToWidget(type) PROVE Widget!WidgetInv'
  BY <1>10, RequestSent DEF Widget!SendToWidget
<1>11. ASSUME NEW i \in DOMAIN widgetWallet, NEW type \in Widget!Requests, Widget!SendsBack(i, type)
       PROVE  Widget!WidgetInv'
  <2>1. widgetWallet[i].of \in Nat
    <3>1. widgetWallet \in [1 .. Len(widgetWallet) -> Widget!Asks]
          /\ DOMAIN widgetWallet = 1 .. Len(widgetWallet)
      BY <1>1, LenProperties DEF Widget!WShape
    <3>. QED BY <3>1 DEF Widget!Asks
  <2>. QED BY <1>11, <2>1, RequestSent DEF Widget!SendsBack
<1>12. CASE UNCHANGED Widget!vars
  <2>1. UNCHANGED <<widgetAttempt, widgetRender, widgetToPage, widgetToWidget, widgetWallet,
                    widgetReported>>
    BY <1>12 DEF Widget!vars
  <2>2. Widget!WShape'
    BY <1>1, <2>1 DEF Widget!WShape
  <2>3. Widget!AnswersTrue'
    BY <1>1, <2>1 DEF Widget!AnswersTrue
  <2>. QED BY <1>1, <2>1, <2>2, <2>3 DEF Widget!WidgetInv
<1>. QED
  BY <1>2, <1>3, <1>4, <1>5, <1>6, <1>7, <1>8, <1>9, <1>10, <1>11, <1>12 DEF Widget!Next

(* The invariant is more than what is promised.                             *)
LEMMA WidgetMeans == Widget!WidgetInv => Widget!OutcomesAreTrue
<1> SUFFICES ASSUME Widget!WidgetInv PROVE Widget!OutcomesAreTrue
  OBVIOUS
<1>1. /\ Widget!Once(widgetReported) /\ Widget!Behind(widgetReported)
      /\ \A i \in DOMAIN widgetReported :
           widgetReported[i].type # "pay"
             /\ Widget!Fair(widgetReported[i], widgetAttempt, widgetWallet)
  BY DEF Widget!WidgetInv, Widget!Heard, Widget!Members
<1>2. \A i, j \in DOMAIN widgetReported :
        widgetReported[i].of = widgetReported[j].of
          /\ widgetReported[i].again = widgetReported[j].again
          /\ widgetReported[i].of # 0 => i = j
  BY <1>1 DEF Widget!Once, Widget!Same
<1>3. \A i \in DOMAIN widgetReported :
        widgetReported[i].type = "success" =>
          \E k \in DOMAIN widgetWallet : widgetWallet[k].of = widgetReported[i].of
            /\ widgetWallet[k].state = "paid"
  BY <1>1 DEF Widget!Fair, Widget!Made
<1>4. \A i \in DOMAIN widgetReported :
        widgetReported[i].type = "error" /\ ~widgetReported[i].again /\ widgetReported[i].of # 0
          /\ widgetAttempt[widgetReported[i].of].state # "timed out" =>
               \E k \in DOMAIN widgetWallet : widgetWallet[k].of = widgetReported[i].of
                 /\ widgetWallet[k].state = "refused"
  BY <1>1 DEF Widget!Fair, Widget!Made
<1>5. \A i \in DOMAIN widgetReported :
        widgetReported[i].again =>
          /\ widgetReported[i].type = "error"
          /\ widgetAttempt[widgetReported[i].of].state = "thrown"
          /\ \E j \in 1 .. i - 1 : widgetReported[j].of = widgetReported[i].of
               /\ ~widgetReported[j].again
  BY <1>1 DEF Widget!Fair, Widget!Behind, Widget!Leads
<1>. QED BY <1>2, <1>3, <1>4, <1>5 DEF Widget!OutcomesAreTrue

(* The widget keeps its invariant.                                          *)
LEMMA WidgetKept == Widget!Init /\ [][Widget!Next]_(Widget!vars) => []Widget!WidgetInv
BY WidgetInit, WidgetStep, PTL

(* The module keeps what it promises, whatever the constants. *)
LEMMA WidgetHolds ==
  Widget!Init /\ [][Widget!Next]_(Widget!vars) => []Widget!OutcomesAreTrue
<1>1. Widget!Init /\ [][Widget!Next]_(Widget!vars) => []Widget!WidgetInv
  BY WidgetKept
<1>2. Widget!WidgetInv => Widget!OutcomesAreTrue
  BY WidgetMeans
<1>. QED BY <1>1, <1>2, PTL

LEMMA WidgetRuns ==
  MCSafe => []~(machine = "widget") \/ (Widget!Init /\ [][Widget!Next]_(Widget!vars))
<1>1. MCInit /\ machine = "widget" => Widget!Init
  BY DEF MCInit
<1>2. machine = "widget" /\ [MCNext]_all => (machine = "widget")' /\ [Widget!Next]_(Widget!vars)
  BY DEF MCNext, all, inst, Widget!vars
<1>3. ~(machine = "widget") /\ [MCNext]_all => (~(machine = "widget"))'
  BY DEF MCNext, all
<1>. QED BY <1>1, <1>2, <1>3, PTL DEF MCSafe

(* A drawer shows what its own actions did, whatever tabs, polls and late   *)
(* answers overlap; and a page that uses the widget is told the outcome of  *)
(* an attempt once, and of a payment only if the wallet made one.           *)
THEOREM OutcomesAlwaysShow == MCSafe => []OutcomesShow
<1>1. Center!Init /\ [][Center!Next]_(Center!vars) => []Center!ActionsShow
  BY CenterHolds
<1>2. Widget!Init /\ [][Widget!Next]_(Widget!vars) => []Widget!OutcomesAreTrue
  BY WidgetHolds
<1>3. (~(machine = "center") \/ Center!ActionsShow)
      /\ (~(machine = "widget") \/ Widget!OutcomesAreTrue) => OutcomesShow
  BY DEF OutcomesShow
<1>. QED BY <1>1, <1>2, <1>3, CenterRuns, WidgetRuns, PTL

-----------------------------------------------------------------------------
(* Subscriptions.  The end of a period is a day, and an action that moves   *)
(* it is one of a subscription that goes on, or an immediate cancellation.  *)
billingNow == v1
billingSub == v2
billingCharges == v3
billingChanges == v4

USE DEF billingNow, billingSub, billingCharges, billingChanges

(* The invariant holds for a new subscription.                              *)
LEMMA BillingInit == ASSUME Billing!SubscriptionAssumption PROVE Billing!Init => Billing!BillingInv
BY DEF Billing!SubscriptionAssumption, Billing!Init, Billing!BillingInv, Billing!Fields,
   Billing!NextBillingDate, Billing!NoGrace

(* Every step keeps the invariant, and an end that was reached.             *)
LEMMA BillingStep ==
  ASSUME Billing!SubscriptionAssumption
  PROVE  Billing!BillingInv /\ [Billing!Next]_(Billing!vars) => Billing!BillingInv'
           /\ (Billing!EndStays \/ UNCHANGED Billing!vars)
<1> SUFFICES ASSUME Billing!BillingInv, [Billing!Next]_(Billing!vars) PROVE Billing!BillingInv'
                    /\ (Billing!EndStays \/ UNCHANGED Billing!vars)
  OBVIOUS
<1>0. billingNow \in Nat /\ DOMAIN billingSub = Billing!Fields /\ billingSub.end \in Nat
      /\ Interval \in Nat
  BY DEF Billing!BillingInv, Billing!SubscriptionAssumption
<1>1. CASE Billing!DayPasses
  BY <1>0, <1>1 DEF Billing!DayPasses, Billing!BillingInv, Billing!EndStays
<1>2. CASE Billing!AdvancePeriod
  <2>1. CASE Billing!Leaves
    <3>1. billingSub' = [billingSub EXCEPT !.status = "expired"] /\ billingNow' = billingNow
      BY <1>2, <2>1 DEF Billing!AdvancePeriod
    <3>2. DOMAIN billingSub' = DOMAIN billingSub /\ billingSub'.end = billingSub.end
      BY <1>0, <3>1 DEF Billing!Fields
    <3>. QED BY <1>0, <3>1, <3>2 DEF Billing!BillingInv, Billing!EndStays
  <2>2. CASE ~Billing!Leaves
    <3>1. /\ billingSub' = [billingSub EXCEPT !.status = "active", !.start = billingSub.end,
                                               !.end = Billing!NextBillingDate(billingSub.end),
                                               !.grace = Billing!NoGrace]
          /\ billingNow' = billingNow /\ ~billingSub.cancel
      BY <1>2, <2>2 DEF Billing!AdvancePeriod, Billing!Leaves
    <3>2. DOMAIN billingSub' = DOMAIN billingSub
          /\ billingSub'.end = Billing!NextBillingDate(billingSub.end)
      BY <1>0, <3>1 DEF Billing!Fields
    <3>3. Billing!NextBillingDate(billingSub.end) \in Nat
      BY <1>0 DEF Billing!NextBillingDate
    <3>. QED BY <1>0, <3>1, <3>2, <3>3 DEF Billing!BillingInv, Billing!EndStays
  <2>. QED BY <2>1, <2>2
<1>3. CASE Billing!ExpireIfGraceElapsed
  <2>1. billingSub' = [billingSub EXCEPT !.status = "expired"] /\ billingNow' = billingNow
    BY <1>3 DEF Billing!ExpireIfGraceElapsed
  <2>2. DOMAIN billingSub' = DOMAIN billingSub /\ billingSub'.end = billingSub.end
    BY <1>0, <2>1 DEF Billing!Fields
  <2>. QED BY <1>0, <2>1, <2>2 DEF Billing!BillingInv, Billing!EndStays
<1>4. ASSUME NEW succeeded \in BOOLEAN, Billing!ApplyChargeResult(succeeded)
      PROVE  Billing!BillingInv' /\ Billing!EndStays
  <2>1. DOMAIN billingSub' = DOMAIN billingSub /\ billingSub'.end = billingSub.end
        /\ billingNow' = billingNow
    <3>1. CASE succeeded
      BY <1>0, <1>4, <3>1 DEF Billing!ApplyChargeResult, Billing!Fields
    <3>2. CASE ~succeeded
      BY <1>0, <1>4, <3>2 DEF Billing!ApplyChargeResult, Billing!Fields
    <3>. QED BY <3>1, <3>2
  <2>. QED BY <1>0, <2>1 DEF Billing!BillingInv, Billing!EndStays
<1>5. CASE Billing!CancelAtPeriodEnd \/ Billing!Reactivate
  <2>1. DOMAIN billingSub' = DOMAIN billingSub /\ billingSub'.end = billingSub.end
        /\ billingNow' = billingNow
    BY <1>0, <1>5 DEF Billing!CancelAtPeriodEnd, Billing!Reactivate, Billing!Fields
  <2>. QED BY <1>0, <2>1 DEF Billing!BillingInv, Billing!EndStays
<1>6. CASE Billing!CancelImmediately
  <2>1. DOMAIN billingSub' = DOMAIN billingSub /\ billingSub'.end = billingNow
        /\ billingNow' = billingNow
    BY <1>0, <1>6 DEF Billing!CancelImmediately, Billing!Fields
  <2>. QED BY <1>0, <2>1 DEF Billing!BillingInv, Billing!EndStays
<1>7. CASE UNCHANGED Billing!vars
  BY <1>7 DEF Billing!vars, Billing!BillingInv
<1>. QED BY <1>1, <1>2, <1>3, <1>4, <1>5, <1>6, <1>7 DEF Billing!Next

(* A customer who has cancelled, and has not taken it back, is not billed   *)
(* for another period: the end of the subscription moves no further than    *)
(* the day it was given, whatever charges settle late, fail or are retried. *)
THEOREM CancelledEndsStay ==
  ASSUME Billing!SubscriptionAssumption
  PROVE  MCSafe => EndsStay
<1> DEFINE Sound == machine = "billing" => Billing!BillingInv
<1>1. MCInit => Sound
  BY BillingInit DEF MCInit
<1>2. ASSUME Sound, [MCNext]_all PROVE Sound' /\ [machine = "billing" => Billing!EndStays]_all
  <2>1. CASE machine = "billing"
    <3>1. [Billing!Next]_(Billing!vars) /\ machine' = machine
      BY <1>2, <2>1 DEF MCNext, all, inst, Billing!vars
    <3>2. Billing!BillingInv' /\ (Billing!EndStays \/ UNCHANGED Billing!vars)
      BY <1>2, <2>1, <3>1, BillingStep
    <3>3. UNCHANGED Billing!vars => UNCHANGED all
      BY <1>2, <2>1 DEF MCNext, Keep4, all, inst, Billing!vars
    <3>. QED BY <3>1, <3>2, <3>3
  <2>2. CASE machine # "billing"
    BY <1>2, <2>2 DEF MCNext, all
  <2>. QED BY <2>1, <2>2
<1>. QED BY <1>1, <1>2, PTL DEF MCSafe, EndsStay
=============================================================================
