--------------------------- MODULE Indexer_proofs ---------------------------
(***************************************************************************)
(* The cursor of the indexer never passes a transfer that is not booked,   *)
(* not in the reported gap and was not answered for by a node that had not *)
(* closed its ledger, for every chain, every set of runs and every value   *)
(* of the bounds, the lag of the nodes included.  The invariant is not     *)
(* inductive by itself: Indexer's SweepInv says what a run in flight knows *)
(* of the books, and LockInv that nobody else moves the cursor or purges   *)
(* rows meanwhile.  That nothing goes unserved when nodes do not lag       *)
(* behind one another is a theorem of its own.                             *)
(***************************************************************************)
EXTENDS Indexer, WellFoundedInduction, TLAPS

-----------------------------------------------------------------------------
(* The upsert.                                                             *)

\* Of the transfers of one transaction in a batch one is first.
LEMMA FirstOfExists ==
  ASSUME NEW E \in SUBSET Transfer, NEW t \in Fresh(E)
  PROVE  FirstOf(E, t) \in E /\ TxOf[FirstOf(E, t)] = t
<1> DEFINE Of == {x \in E : TxOf[x] = t}
<1>1. Of # {}
  BY DEF Fresh
<1>2. Of \subseteq Nat
  BY PaymentsAssumption
<1> DEFINE Less == {ss \in Nat \X Nat : ss[1] < ss[2]}
<1>0. IsWellFoundedOn(Less, Nat)
  BY NatLessThanWellFounded DEF OpToRel
<1> HIDE DEF Less
<1>3. PICK x \in Of : \A y \in Of : ~ (<<y, x>> \in Less)
  BY <1>0, <1>1, <1>2, WFMin
<1>4. ASSUME NEW y \in Of PROVE x <= y
  <2>1. x \in Nat /\ y \in Nat
    BY <1>2
  <2>2. ~ (y < x)
    BY <1>3, <2>1 DEF Less
  <2>. QED BY <2>1, <2>2
<1>5. \E z \in E : TxOf[z] = t /\ \A y \in E : TxOf[y] = t => z <= y
  BY <1>3, <1>4
<1>. QED
  BY <1>5 DEF FirstOf

\* A batch books its transfers and leaves every booked row as it was.
LEMMA InsertBooks ==
  ASSUME RowsTypeOK, NEW E \in SUBSET Transfer, InsertRows(E)
  PROVE  /\ RowsTypeOK'
         /\ \A t \in Tx : Booked(t) => Booked(t)'
         /\ \A x \in E : Booked(TxOf[x])'
<1>1. \A t \in Fresh(E) : FirstOf(E, t) \in Transfer /\ TxOf[FirstOf(E, t)] = t
  BY FirstOfExists
<1>2. Fresh(E) \subseteq Tx
  BY PaymentsAssumption DEF Fresh
<1>3. \A t \in Tx : paid'[t] = IF t \in Fresh(E) THEN FirstOf(E, t) ELSE paid[t]
  BY DEF InsertRows
<1>4. 0 \notin Transfer
  BY PaymentsAssumption DEF NoTransfer
<1>5. paid' \in [Tx -> Transfer \cup {NoTransfer}]
  BY <1>1, <1>2 DEF InsertRows, RowsTypeOK
<1>6. \A t \in Tx : Booked(t)' => TxOf[paid'[t]] = t
  BY <1>1, <1>3 DEF Booked, RowsTypeOK
<1>7. \A t \in Tx : Booked(t) => Booked(t)'
  BY <1>1, <1>3, <1>4 DEF Booked, NoTransfer
<1>8. \A x \in E : Booked(TxOf[x])'
  <2> SUFFICES ASSUME NEW x \in E PROVE Booked(TxOf[x])'
    OBVIOUS
  <2>1. TxOf[x] \in Tx
    BY PaymentsAssumption
  <2>2. CASE TxOf[x] \in Fresh(E)
    BY <2>1, <2>2, <1>1, <1>3, <1>4 DEF Booked, NoTransfer
  <2>3. CASE TxOf[x] \notin Fresh(E)
    BY <2>1, <2>3, <1>7 DEF Fresh
  <2>. QED BY <2>2, <2>3
<1>. QED
  BY <1>5, <1>6, <1>7, <1>8 DEF InsertRows, RowsTypeOK

\* A purge keeps every transfer at or below the ledger it rewinds to.
LEMMA PurgeKeeps ==
  ASSUME RowsTypeOK, NEW l \in Nat, PurgeAbove(l)
  PROVE  /\ RowsTypeOK'
         /\ \A x \in Transfer : LedgerOf[x] <= l /\ Booked(TxOf[x]) => Booked(TxOf[x])'
<1>1. \A t \in Tx : paid'[t] = IF t \in Purged(l) THEN NoTransfer ELSE paid[t]
  BY DEF PurgeAbove
<1>2. RowsTypeOK'
  <2>1. paid' \in [Tx -> Transfer \cup {NoTransfer}] /\ reportedAt' \in [Tx -> Nat]
    BY DEF PurgeAbove, RowsTypeOK, NoReport
  <2>2. \A t \in Tx : Booked(t)' => TxOf[paid'[t]] = t
    BY <1>1 DEF Booked, RowsTypeOK
  <2>. QED BY <2>1, <2>2 DEF RowsTypeOK
<1>3. ASSUME NEW x \in Transfer, LedgerOf[x] <= l, Booked(TxOf[x])
      PROVE  Booked(TxOf[x])'
  <2>1. TxOf[x] \in Tx /\ paid[TxOf[x]] \in Transfer /\ TxOf[paid[TxOf[x]]] = TxOf[x]
    BY <1>3, PaymentsAssumption DEF RowsTypeOK, Booked
  <2>2. LedgerOf[paid[TxOf[x]]] = LedgerOf[x] /\ LedgerOf[x] \in Nat
    BY <2>1, PaymentsAssumption
  <2>3. TxOf[x] \notin Purged(l)
    BY <1>3, <2>2 DEF Purged
  <2>. QED BY <1>1, <1>3, <2>1, <2>3 DEF Booked
<1>. QED BY <1>2, <1>3

-----------------------------------------------------------------------------
(* Types.                                                                  *)

\* Leaving a run keeps the types of the lock and of every local.
LEMMA LeaveType ==
  ASSUME TypeOK, NEW r \in Run, Leave(r)
  PROVE  /\ lock' \in Run \cup {NoRun} /\ pc' \in [Run -> PC]
         /\ latest' \in [Run -> Nat] /\ seen' \in [Run -> Nat \cup {NoCursor}]
         /\ start' \in [Run -> Nat] /\ swept' \in [Run -> Nat]
         /\ batch' \in [Run -> [events : SUBSET Transfer, through : Nat, drained : BOOLEAN]]
         /\ fresh' \in [Run -> SUBSET Tx] /\ tries' \in [Run -> Nat]
         /\ unread' \in [Run -> SUBSET Nat]
BY DEF TypeOK, Leave, Goto, PC, NoBatch

\* A run resumes at a ledger from 1 on, past the cursor it works from.
LEMMA StartLedgerBounds ==
  ASSUME NEW c \in Nat \cup {NoCursor}, NEW l \in Nat
  PROVE  /\ StartLedger(c, l) \in Nat /\ 1 <= StartLedger(c, l)
         /\ c < StartLedger(c, l)
BY IndexerAssumption DEF StartLedger, Maximum, NoCursor

\* The steps of the environment keep the types.
LEMMA EnvironmentType ==
  ASSUME TypeOK,
         \/ CloseLedger \/ CooldownPasses
         \/ \E t \in Tx, at \in 1 .. MaxReports : ReportSettlement(t, at)
  PROVE  TypeOK'
<1>1. CASE CloseLedger
  BY <1>1 DEF TypeOK, RowsTypeOK, Booked, CloseLedger, table, db, locals, told, bounds
<1>2. CASE CooldownPasses
  BY <1>2 DEF TypeOK, RowsTypeOK, Booked, CooldownPasses, table, locals, told, bounds
<1>3. ASSUME NEW t \in Tx, NEW at \in 1 .. MaxReports, ReportSettlement(t, at)
      PROVE  TypeOK'
  <2>1. at \in Nat
    BY IndexerAssumption
  <2>2. reportedAt' \in [Tx -> Nat] /\ paid' = paid
    BY <1>3, <2>1 DEF TypeOK, RowsTypeOK, ReportSettlement, RecordSettlement
  <2>3. RowsTypeOK'
    BY <2>2 DEF TypeOK, RowsTypeOK, Booked
  <2>. QED
    BY <1>3, <2>3 DEF TypeOK, ReportSettlement, db, locals, told
<1>. QED BY <1>1, <1>2, <1>3

\* Reading a window keeps the types.
LEMMA ReadWindowType ==
  ASSUME TypeOK, NEW r \in Run, ReadWindow(r)
  PROVE  TypeOK'
<1> DEFINE to == Minimum(swept[r] + Window, latest[r])
           Result == [events : SUBSET Transfer, through : Nat, drained : BOOLEAN]
<1>1. to \in Nat /\ swept[r] \in Nat
  BY IndexerAssumption DEF TypeOK, Minimum
<1>3. PICK b \in Result : batch' = [batch EXCEPT ![r] = b]
  <2>1. PICK h : Drain(r, Answer(swept[r] + 1, to, h), to, h)
    BY DEF ReadWindow
  <2> DEFINE E == Answer(swept[r] + 1, to, h)
  <2>2. E \subseteq Transfer
    BY DEF Answer, Between
  <2> HIDE DEF to, E
  <2>3. CASE batch' = [batch EXCEPT ![r] = [events |-> E, through |-> to, drained |-> TRUE]]
    BY <2>3, <1>1, <2>2
  <2>4. ASSUME NEW x \in E,
               batch' = [batch EXCEPT ![r] = [events |-> {y \in E : y <= x},
                                              through |-> swept[r], drained |-> FALSE]]
        PROVE  \E b \in Result : batch' = [batch EXCEPT ![r] = b]
    BY <2>4, <1>1, <2>2
  <2>. QED BY <2>1, <2>3, <2>4 DEF Drain, E
<1>4. batch' \in [Run -> Result]
  BY <1>3 DEF TypeOK
<1>5. faults' \in Nat /\ pc' \in [Run -> PC]
  BY DEF ReadWindow, Drain, TypeOK, Goto, PC
<1>7. unread' \in [Run -> SUBSET Nat]
  <2>1. PICK h \in swept[r] + 1 .. head : Drain(r, Answer(swept[r] + 1, to, h), to, h)
    BY DEF ReadWindow
  <2> HIDE DEF to
  <2>2. h \in Nat /\ h + 1 .. to \subseteq Nat
    BY <1>1, <2>1
  <2>3. unread' = unread \/ unread' = [unread EXCEPT ![r] = @ \cup (h + 1 .. to)]
    BY <2>1 DEF Drain
  <2>. QED BY <2>2, <2>3 DEF TypeOK
<1>6. RowsTypeOK'
  BY DEF ReadWindow, table, TypeOK, RowsTypeOK, Booked
<1>. QED
  BY <1>4, <1>5, <1>6, <1>7 DEF ReadWindow, TypeOK, table, db, told

\* A step of a run keeps the types.
LEMMA RunType ==
  ASSUME TypeOK, NEW r \in Run,
         AcquireLock(r) \/ Step(r) \/ BudgetExhausted(r) \/ Abort(r)
  PROVE  TypeOK'
<1> USE DEF TypeOK, Goto, PC
<1>0. table' = table => RowsTypeOK'
  BY DEF RowsTypeOK, Booked, table
<1>1. CASE AcquireLock(r)
  BY <1>0, <1>1 DEF AcquireLock, db, locals, told, bounds
<1>2. CASE Cooldown(r)
  BY <1>0, <1>2, LeaveType DEF Cooldown, db, told, bounds
<1>3. CASE Plan(r)
  <2>1. CASE Leave(r)
    BY <1>0, <1>3, <2>1, LeaveType DEF Plan, db, told, bounds
  <2>2. CASE BeginSweep(r, seen[r])
    <3>1. /\ StartLedger(seen[r], latest[r]) \in Nat
          /\ StartLedger(seen[r], latest[r]) - 1 \in Nat
      <4>1. seen[r] \in Nat \cup {NoCursor} /\ latest[r] \in Nat
        OBVIOUS
      <4>2. /\ StartLedger(seen[r], latest[r]) \in Nat
            /\ 1 <= StartLedger(seen[r], latest[r])
        BY <4>1, StartLedgerBounds
      <4>. QED BY <4>2
    <3>. QED BY <1>0, <1>3, <2>2, <3>1 DEF Plan, BeginSweep, db, told, bounds
  <2>. QED BY <1>3, <2>1, <2>2 DEF Plan
<1>4. CASE Rollback(r)
  <2>1. RowsTypeOK'
    BY <1>4, PurgeKeeps DEF Rollback
  <2>2. sent' \in [Tx -> Nat] /\ answered' \in [Tx -> Nat] /\ queued' = queued
    BY <1>4 DEF Rollback
  <2>3. /\ cursor' \in Nat \cup {NoCursor} /\ gap' \subseteq Nat
        /\ unserved' \subseteq Nat /\ recent' \in BOOLEAN
    BY <1>4 DEF Rollback
  <2>. QED BY <1>4, <2>1, <2>2, <2>3, LeaveType DEF Rollback, bounds
<1>5. CASE ReadWindow(r)
  BY <1>5, ReadWindowType
<1>6. CASE CommitWindow(r)
  <2>1. batch[r].events \in SUBSET Transfer
    OBVIOUS
  <2>2. RowsTypeOK'
    BY <1>6, <2>1, InsertBooks DEF CommitWindow
  <2>3. Fresh(batch[r].events) \in SUBSET Tx
    BY <2>1, PaymentsAssumption DEF Fresh
  <2>4. fresh' \in [Run -> SUBSET Tx]
    BY <1>6, <2>3 DEF CommitWindow
  <2>. QED BY <1>6, <2>2, <2>4 DEF CommitWindow, db, told, bounds
<1>7. CASE InsertFails(r)
  BY <1>0, <1>7, LeaveType DEF InsertFails, db, told, bounds
<1>8. CASE NextWindow(r)
  <2>1. swept' \in [Run -> Nat]
    BY <1>8 DEF NextWindow
  <2>2. batch' \in [Run -> [events : SUBSET Transfer, through : Nat, drained : BOOLEAN]]
    BY <1>8 DEF NextWindow, NoBatch
  <2>. QED BY <1>0, <1>8, <2>1, <2>2 DEF NextWindow, db, told, bounds
<1>14. CASE QueueChat(r)
  <2>1. fresh' \in [Run -> SUBSET Tx] /\ queued' \subseteq Tx /\ faults' \in Nat
    BY <1>14 DEF QueueChat
  <2>. QED BY <1>0, <1>14, <2>1 DEF QueueChat, db
<1>15. CASE Post(r)
  <2> DEFINE u == Turn(fresh[r])
  <2>0. u \in Tx
    BY <1>15 DEF Post, Turn
  <2>1. /\ sent' = [sent EXCEPT ![u] = @ + 1]
        /\ answered' \in {answered, [answered EXCEPT ![u] = sent[u] + 1]}
        /\ faults' \in {faults, faults + 1}
        /\ \/ /\ fresh' = [fresh EXCEPT ![r] = @ \ {u}]
              /\ tries' = [tries EXCEPT ![r] = 0]
           \/ tries' = [tries EXCEPT ![r] = @ + 1] /\ UNCHANGED fresh
    BY <1>15 DEF Post
  <2> HIDE DEF u
  <2>2. sent' \in [Tx -> Nat] /\ answered' \in [Tx -> Nat] /\ faults' \in Nat
    BY <2>0, <2>1
  <2>3. fresh' \in [Run -> SUBSET Tx] /\ tries' \in [Run -> Nat]
    <3>1. fresh[r] \ {u} \in SUBSET Tx
      OBVIOUS
    <3>2. fresh' \in {fresh, [fresh EXCEPT ![r] = fresh[r] \ {u}]}
      BY <2>1
    <3>3. tries' = [tries EXCEPT ![r] = 0] \/ tries' = [tries EXCEPT ![r] = @ + 1]
      BY <2>1
    <3>4. fresh' \in [Run -> SUBSET Tx]
      BY <3>1, <3>2
    <3>5. tries' \in [Run -> Nat]
      <4>1. tries \in [Run -> Nat] /\ tries[r] + 1 \in Nat
        OBVIOUS
      <4>2. CASE tries' = [tries EXCEPT ![r] = 0]
        BY <4>1, <4>2
      <4>3. CASE tries' = [tries EXCEPT ![r] = tries[r] + 1]
        BY <4>1, <4>3
      <4>. QED BY <3>3, <4>2, <4>3
    <3>. QED BY <3>4, <3>5
  <2>. QED BY <1>0, <1>15, <2>2, <2>3 DEF Post, db
<1>9. CASE SweepDone(r)
  BY <1>0, <1>9 DEF SweepDone, db, locals, told, bounds
<1>10. CASE AdvanceCursor(r)
  <2>1. cursor' \in Nat \cup {NoCursor} /\ recent' \in BOOLEAN /\ unserved' \subseteq Nat
    BY <1>10 DEF AdvanceCursor, db
  <2>2. gap' \subseteq Nat
    <3>1. Maximum(seen[r] + 1, 1) \in Nat
      BY DEF Maximum, NoCursor
    <3>2. Maximum(seen[r] + 1, 1) .. (start[r] - 1) \subseteq Nat
      BY <3>1
    <3>. QED BY <1>10, <3>2 DEF AdvanceCursor, db
  <2>. QED BY <1>0, <1>10, <2>1, <2>2, LeaveType DEF AdvanceCursor, told, bounds
<1>11. ASSUME NEW h \in 1 .. head, ReadHead(r, h) PROVE TypeOK'
  BY <1>0, <1>11 DEF ReadHead, db, told, bounds
<1>12. CASE BudgetExhausted(r)
  BY <1>0, <1>12 DEF BudgetExhausted, db, locals, told
<1>13. CASE Abort(r)
  BY <1>0, <1>13, LeaveType DEF Abort, db, told
<1>. QED
  BY <1>1, <1>2, <1>3, <1>4, <1>5, <1>6, <1>7, <1>8, <1>9, <1>10, <1>11, <1>12, <1>13, <1>14,
     <1>15 DEF Step

\* Every reachable state is well typed, and a booked row holds a transfer of
\* the transaction it is keyed by.
THEOREM TypeCorrect == Spec => []TypeOK
<1>1. ASSUME Init PROVE TypeOK
  <2>1. RowsTypeOK
    BY <1>1 DEF Init, RowsInit, RowsTypeOK, Booked, NoReport
  <2>2. NoBatch \in [events : SUBSET Transfer, through : Nat, drained : BOOLEAN]
    BY DEF NoBatch
  <2>. QED BY <1>1, <2>1, <2>2 DEF Init, TypeOK, NoCursor, PC
<1>2. TypeOK /\ [Next]_vars => TypeOK'
  <2> SUFFICES ASSUME TypeOK, [Next]_vars PROVE TypeOK'
    OBVIOUS
  <2>1. CASE UNCHANGED vars
    BY <2>1 DEF TypeOK, RowsTypeOK, Booked, vars
  <2>. QED BY <2>1, EnvironmentType, RunType DEF Next
<1>. QED BY <1>1, <1>2, PTL DEF Spec

-----------------------------------------------------------------------------
(* The books and the cursor.                                               *)

\* A step by which no run but r moves, books nothing and purges nothing.
Quiet(r) ==
  /\ paid' = paid /\ cursor' = cursor /\ gap' = gap /\ unserved' = unserved
  /\ \A s \in Run \ {r} : /\ pc'[s] = pc[s] /\ latest'[s] = latest[s] /\ seen'[s] = seen[s]
                          /\ start'[s] = start[s] /\ swept'[s] = swept[s]
                          /\ batch'[s] = batch[s] /\ unread'[s] = unread[s]

\* A quiet step leaves the books covered and what the other runs know true.
LEMMA QuietKeeps ==
  ASSUME NEW r \in Run, SweepInv, CursorCoversBooks, Quiet(r)
  PROVE  /\ CursorCoversBooks'
         /\ \A s \in Run \ {r} : SweepInvOf(s)'
<1>1. \A t : Booked(t)' <=> Booked(t)
  BY DEF Quiet, Booked
<1>2. CursorCoversBooks'
  BY <1>1 DEF CursorCoversBooks, Quiet
<1>3. ASSUME NEW s \in Run \ {r} PROVE SweepInvOf(s)'
  <2>1. SweepInvOf(s)
    BY DEF SweepInv
  <2>. QED BY <1>1, <2>1 DEF SweepInvOf, Quiet
<1>. QED BY <1>2, <1>3

\* A run that leaves knows nothing any more.
LEMMA LeaveKnows ==
  ASSUME NEW r \in Run, TypeOK, Leave(r)
  PROVE  SweepInvOf(r)'
BY DEF SweepInvOf, Leave, Goto, TypeOK, InSweep, Announcing

\* Each step of run r keeps the books covered and what runs know true.
LEMMA StepKeeps ==
  ASSUME NEW r \in Run, IInv, TypeOK', LockInv',
         AcquireLock(r) \/ Step(r) \/ BudgetExhausted(r) \/ Abort(r)
  PROVE  CursorCoversBooks' /\ SweepInv'
<1> USE DEF IInv
<1>1. SUFFICES CursorCoversBooks' /\ SweepInvOf(r)' /\ \A s \in Run \ {r} : SweepInvOf(s)'
  BY DEF SweepInv
<1>2. SweepInvOf(r)
  BY DEF SweepInv
<1> USE DEF TypeOK, Goto
<1>3. CASE Quiet(r)
  <2>1. CursorCoversBooks' /\ \A s \in Run \ {r} : SweepInvOf(s)'
    BY <1>3, QuietKeeps
  <2>2. \A t : Booked(t)' <=> Booked(t)
    BY <1>3 DEF Quiet, Booked
  <2>3. SweepInvOf(r)'
    <3>1. CASE AcquireLock(r)
      BY <3>1 DEF AcquireLock, SweepInvOf, InSweep, Announcing
    <3>2. CASE Leave(r)
      BY <3>2, LeaveKnows
    <3>3. CASE Plan(r) /\ ~Leave(r)
      <4>1. seen[r] \in Nat \cup {NoCursor} /\ latest[r] \in Nat
        OBVIOUS
      <4>2. /\ StartLedger(seen[r], latest[r]) \in Nat
            /\ 1 <= StartLedger(seen[r], latest[r])
        BY <4>1, StartLedgerBounds
      <4>3. /\ pc'[r] = "sweep" /\ seen'[r] = seen[r] /\ cursor' = cursor
            /\ start'[r] = StartLedger(seen[r], latest[r])
            /\ swept'[r] = StartLedger(seen[r], latest[r]) - 1
        BY <3>3 DEF Plan, BeginSweep, db
      <4>4. seen[r] = cursor
        BY <1>2, <3>3 DEF SweepInvOf, Plan
      <4>5. \A x \in Transfer : LedgerOf[x] \in Nat
        BY PaymentsAssumption
      <4>. QED BY <4>2, <4>3, <4>4, <4>5 DEF SweepInvOf, Announcing
    <3>4. CASE ReadWindow(r)
      <4> DEFINE Whole(b) ==
                   /\ swept[r] <= b.through
                   /\ \A x \in Transfer :
                        swept[r] < LedgerOf[x] /\ LedgerOf[x] <= b.through =>
                          x \in b.events \/ LedgerOf[x] \in unread'[r]
      <4>1. (\E b : batch' = [batch EXCEPT ![r] = b] /\ Whole(b)) /\ unread[r] \subseteq unread'[r]
        <5> DEFINE to == Minimum(swept[r] + Window, latest[r])
        <5>1. to \in Nat /\ swept[r] \in Nat /\ swept[r] <= to /\ to <= latest[r]
          BY <3>4, IndexerAssumption DEF Minimum, ReadWindow
        <5>2. PICK h \in swept[r] + 1 .. head :
                Drain(r, Answer(swept[r] + 1, to, h), to, h)
          BY <3>4 DEF ReadWindow
        <5> DEFINE E == Answer(swept[r] + 1, to, h)
                   All == [events |-> E, through |-> to, drained |-> TRUE]
                   Part(x) == [events |-> {y \in E : y <= x}, through |-> swept[r],
                               drained |-> FALSE]
        <5>3. h \in Nat
          BY <5>1, <5>2
        <5> HIDE DEF to
        <5>4. \A x \in Transfer :
                swept[r] < LedgerOf[x] /\ LedgerOf[x] <= to =>
                  x \in E \/ LedgerOf[x] \in h + 1 .. to
          <6>1. \A x \in Transfer : LedgerOf[x] \in Nat
            BY PaymentsAssumption
          <6>2. ASSUME NEW x \in Transfer, swept[r] < LedgerOf[x], LedgerOf[x] <= to,
                       LedgerOf[x] <= h
                PROVE  x \in E
            BY <5>1, <5>3, <6>1, <6>2 DEF Answer, Between, Minimum
          <6>. QED BY <5>1, <5>3, <6>1, <6>2
        <5>5. \/ /\ batch' = [batch EXCEPT ![r] = All]
                 /\ unread' = [unread EXCEPT ![r] = @ \cup (h + 1 .. to)]
              \/ unread' = unread /\ \E x \in E : batch' = [batch EXCEPT ![r] = Part(x)]
          BY <5>2 DEF Drain
        <5> HIDE DEF E
        <5>6. unread'[r] = unread[r] \cup (h + 1 .. to) => Whole(All)
          BY <5>1, <5>4
        <5>7. \A x : Whole(Part(x))
          BY <5>1, PaymentsAssumption
        <5> HIDE DEF Whole, All, Part
        <5>. QED BY <5>5, <5>6, <5>7
      <4>3. PICK b : batch' = [batch EXCEPT ![r] = b] /\ Whole(b)
        BY <4>1
      <4>2. batch'[r] = b /\ pc'[r] = "commit" /\ swept' = swept /\ start' = start
            /\ seen' = seen /\ cursor' = cursor
        BY <3>4, <4>3 DEF ReadWindow, db
      <4>. QED BY <1>2, <2>2, <3>4, <4>1, <4>2, <4>3 DEF SweepInvOf, ReadWindow, InSweep, Announcing
    <3>5. CASE NextWindow(r)
      <4>1. /\ swept'[r] = batch[r].through /\ start' = start /\ seen' = seen /\ cursor' = cursor
            /\ unread' = unread /\ pc'[r] \in {"sweep", "advance"} /\ pc[r] = "post"
        BY <3>5 DEF NextWindow, db
      <4>2. /\ start[r] \in Nat /\ swept[r] \in Nat /\ batch[r].through \in Nat
            /\ \A x \in Transfer : LedgerOf[x] \in Nat
        BY PaymentsAssumption
      <4>. QED BY <1>2, <2>2, <4>1, <4>2 DEF SweepInvOf, InSweep, Announcing
    <3>10. CASE QueueChat(r) \/ Post(r)
      <4>1. /\ pc[r] \in Announcing /\ pc'[r] = "post" /\ seen' = seen /\ cursor' = cursor
            /\ UNCHANGED <<start, swept, batch, unread>>
        BY <3>10 DEF QueueChat, Post, Announcing, db
      <4>. QED BY <1>2, <2>2, <4>1 DEF SweepInvOf, InSweep, Announcing
    <3>6. CASE SweepDone(r) \/ BudgetExhausted(r)
      BY <1>2, <2>2, <3>6
         DEF SweepDone, BudgetExhausted, SweepInvOf, InSweep, Announcing, db, locals
    <3>7. ASSUME NEW h \in 1 .. head, ReadHead(r, h) PROVE SweepInvOf(r)'
      BY <3>7 DEF ReadHead, SweepInvOf, InSweep, Announcing, db
    <3>8. CASE Rollback(r) \/ AdvanceCursor(r)
      BY <3>8, LeaveKnows DEF Rollback, AdvanceCursor
    <3>9. CASE CommitWindow(r)
      BY <1>2, <2>2, <3>9, InsertBooks DEF CommitWindow, SweepInvOf, InSweep, Announcing, db
    <3>. QED
      BY <3>1, <3>2, <3>3, <3>4, <3>5, <3>6, <3>7, <3>8, <3>9, <3>10
         DEF Step, Cooldown, InsertFails, Abort, Plan
  <2>. QED BY <2>1, <2>3
<1>4. CASE CommitWindow(r)
  <2>1. batch[r].events \in SUBSET Transfer
    OBVIOUS
  <2>2. /\ \A t \in Tx : Booked(t) => Booked(t)'
        /\ \A x \in batch[r].events : Booked(TxOf[x])'
    BY <1>4, <2>1, InsertBooks DEF CommitWindow
  <2>3. \A x \in Transfer : TxOf[x] \in Tx
    BY PaymentsAssumption
  <2>4. CursorCoversBooks'
    BY <1>4, <2>2, <2>3 DEF CursorCoversBooks, CommitWindow, db
  <2>5. SweepInvOf(r)'
    BY <1>2, <1>4, <2>2, <2>3 DEF SweepInvOf, CommitWindow, InSweep, Announcing, db
  <2>6. ASSUME NEW s \in Run \ {r} PROVE SweepInvOf(s)'
    <3>1. SweepInvOf(s) /\ pc'[s] = pc[s]
      BY <1>4 DEF SweepInv, CommitWindow
    <3>2. pc[s] = "idle"
      BY <1>4 DEF LockInv, CommitWindow
    <3>. QED BY <3>1, <3>2 DEF SweepInvOf, InSweep, Announcing
  <2>. QED BY <2>4, <2>5, <2>6
<1>5. ASSUME NEW s \in Run \ {r}, Rollback(r) \/ AdvanceCursor(r) PROVE SweepInvOf(s)'
  <2>1. pc[s] = "idle"
    BY <1>5 DEF LockInv, Rollback, AdvanceCursor
  <2>2. pc'[s] = pc[s]
    BY <1>5 DEF Rollback, AdvanceCursor, Leave
  <2>. QED BY <2>1, <2>2 DEF SweepInvOf, InSweep, Announcing
<1>6. CASE Rollback(r)
  <2>1. /\ latest[r] \in Nat /\ cursor' = latest[r] /\ latest[r] < cursor
        /\ gap' = {l \in gap : l <= latest[r]} /\ unserved' = {l \in unserved : l <= latest[r]}
    BY <1>2, <1>6 DEF Rollback, SweepInvOf
  <2>2. \A x \in Transfer :
          LedgerOf[x] <= latest[r] /\ Booked(TxOf[x]) => Booked(TxOf[x])'
    BY <1>6, PurgeKeeps DEF Rollback
  <2>3. cursor \in Nat \cup {NoCursor} /\ \A x \in Transfer : LedgerOf[x] \in Nat
    BY PaymentsAssumption
  <2>4. CursorCoversBooks'
    BY <2>1, <2>2, <2>3 DEF CursorCoversBooks, NoCursor
  <2>. QED BY <1>5, <1>6, <2>4, LeaveKnows DEF Rollback
<1>7. CASE AdvanceCursor(r)
  <2>1. \A t : Booked(t)' <=> Booked(t)
    BY <1>7 DEF AdvanceCursor, table, Booked
  <2>2. CASE ~(cursor < swept[r])
    <3>1. cursor' = cursor /\ gap' = gap /\ unserved' = unserved
      BY <1>7, <2>2 DEF AdvanceCursor, db
    <3>2. CursorCoversBooks'
      BY <2>1, <3>1 DEF CursorCoversBooks
    <3>. QED BY <1>5, <1>7, <3>2, LeaveKnows DEF AdvanceCursor
  <2>3. CASE cursor < swept[r]
    <3>1. /\ cursor' = swept[r] /\ seen[r] = cursor
          /\ gap' = gap \cup (Maximum(cursor + 1, 1) .. (start[r] - 1))
          /\ unserved' = unserved \cup unread[r]
      BY <1>2, <1>7, <2>3 DEF AdvanceCursor, SweepInvOf, InSweep
    <3>2. \A x \in Transfer :
            start[r] <= LedgerOf[x] /\ LedgerOf[x] <= swept[r] =>
              Booked(TxOf[x]) \/ LedgerOf[x] \in unread[r]
      BY <1>2, <1>7 DEF AdvanceCursor, SweepInvOf, InSweep
    <3>3. SUFFICES ASSUME NEW x \in Transfer, LedgerOf[x] <= swept[r]
                   PROVE  Booked(TxOf[x]) \/ LedgerOf[x] \in gap' \cup unserved'
      BY <1>5, <1>7, <2>1, <3>1, LeaveKnows DEF CursorCoversBooks, AdvanceCursor
    <3>4. LedgerOf[x] \in Nat \ {0} /\ start[r] \in Nat /\ cursor \in Nat \cup {NoCursor}
      BY PaymentsAssumption
    <3>5. CASE LedgerOf[x] <= cursor
      BY <3>1, <3>5 DEF CursorCoversBooks
    <3>6. CASE start[r] <= LedgerOf[x]
      BY <3>1, <3>2, <3>3, <3>6
    <3>7. CASE ~(LedgerOf[x] <= cursor) /\ ~(start[r] <= LedgerOf[x])
      <4>1. LedgerOf[x] \in Maximum(cursor + 1, 1) .. (start[r] - 1)
        BY <3>4, <3>7 DEF Maximum, NoCursor
      <4>. QED BY <3>1, <4>1
    <3>. QED BY <3>5, <3>6, <3>7
  <2>. QED BY <1>5, <1>7, <2>2, <2>3, LeaveKnows DEF AdvanceCursor
<1>8. Quiet(r) \/ CommitWindow(r) \/ Rollback(r) \/ AdvanceCursor(r)
  <2>1. CASE Cooldown(r) \/ InsertFails(r) \/ Abort(r)
    BY <2>1 DEF Quiet, Cooldown, InsertFails, Abort, Leave, table, db
  <2>2. CASE Plan(r)
    BY <2>2 DEF Quiet, Plan, Leave, BeginSweep, table, db
  <2>3. CASE ReadWindow(r)
    BY <2>3 DEF Quiet, ReadWindow, Drain, table, db
  <2>4. CASE AcquireLock(r) \/ SweepDone(r) \/ BudgetExhausted(r)
    BY <2>4 DEF Quiet, AcquireLock, SweepDone, BudgetExhausted, table, db, locals
  <2>5. CASE QueueChat(r) \/ Post(r) \/ NextWindow(r)
    BY <2>5 DEF Quiet, QueueChat, Post, NextWindow, table, db
  <2>6. ASSUME NEW h \in 1 .. head, ReadHead(r, h) PROVE Quiet(r)
    BY <2>6 DEF Quiet, ReadHead, table, db
  <2>. QED BY <2>1, <2>2, <2>3, <2>4, <2>5, <2>6 DEF Step
<1>. QED BY <1>3, <1>4, <1>6, <1>7, <1>8

\* The lock has one holder, and only the holder is in flight.
LEMMA LockStep ==
  ASSUME TypeOK, LockInv, [Next]_vars
  PROVE  LockInv'
<1> USE DEF TypeOK, LockInv, Goto
<1>1. CASE UNCHANGED vars
  BY <1>1 DEF vars
<1>2. CASE CloseLedger \/ CooldownPasses \/ \E t \in Tx, at \in 1 .. MaxReports : ReportSettlement(t, at)
  BY <1>2 DEF CloseLedger, CooldownPasses, ReportSettlement
<1>3. ASSUME NEW r \in Run, AcquireLock(r) \/ Step(r) \/ BudgetExhausted(r) \/ Abort(r)
      PROVE  LockInv'
  <2>1. CASE AcquireLock(r)
    BY <2>1, IndexerAssumption DEF AcquireLock
  <2>2. CASE Leave(r) /\ pc[r] # "idle"
    BY <2>2 DEF Leave
  <2>3. CASE lock' = lock /\ pc[r] # "idle" /\ \A s \in Run \ {r} : pc'[s] = pc[s]
    BY <2>3
  <2>. QED
    BY <1>3, <2>1, <2>2, <2>3
       DEF Step, Cooldown, Plan, BeginSweep, Rollback, ReadWindow, CommitWindow, InsertFails,
           QueueChat, Post, NextWindow, SweepDone, AdvanceCursor, ReadHead, BudgetExhausted,
           Abort, locals
<1>. QED BY <1>1, <1>2, <1>3 DEF Next

\* What a run in flight knows holds.
LEMMA Knows == Spec => []IInv
<1>1. ASSUME Init PROVE LockInv /\ SweepInv /\ CursorCoversBooks
  <2>1. \A x \in Transfer : LedgerOf[x] \in Nat
    BY PaymentsAssumption
  <2>. QED
    BY <1>1, <2>1
       DEF Init, LockInv, SweepInv, SweepInvOf, InSweep, Announcing, CursorCoversBooks, NoCursor
<1>2. IInv /\ TypeOK' /\ [Next]_vars => (LockInv /\ SweepInv /\ CursorCoversBooks)'
  <2> SUFFICES ASSUME IInv, TypeOK', [Next]_vars
               PROVE  (LockInv /\ SweepInv /\ CursorCoversBooks)'
    OBVIOUS
  <2>1. LockInv'
    BY LockStep DEF IInv
  <2>2. CASE /\ paid' = paid /\ cursor' = cursor /\ gap' = gap /\ unserved' = unserved
             /\ UNCHANGED <<pc, seen, start, swept, batch, unread>>
    BY <2>1, <2>2 DEF IInv, SweepInv, SweepInvOf, CursorCoversBooks, Booked
  <2>3. ASSUME NEW r \in Run, AcquireLock(r) \/ Step(r) \/ BudgetExhausted(r) \/ Abort(r)
        PROVE  (LockInv /\ SweepInv /\ CursorCoversBooks)'
    BY <2>1, <2>3, StepKeeps
  <2>. QED
    BY <2>2, <2>3
       DEF Next, vars, CloseLedger, CooldownPasses, ReportSettlement, RecordSettlement,
           table, db, locals
<1>3. LockInv /\ SweepInv /\ CursorCoversBooks /\ TypeOK <=> IInv
  BY DEF IInv
<1>. QED BY <1>1, <1>2, <1>3, TypeCorrect, PTL DEF Spec

\* The cursor never passes a transfer that is not booked, but for those in the
\* gap the runs report and those in a ledger that a node answered for before it
\* had closed it, however far nodes lag.
THEOREM CursorCovered == Spec => []CursorCoversBooks
<1>1. IInv => CursorCoversBooks
  BY DEF IInv
<1>. QED BY <1>1, Knows, PTL

\* A run reads every ledger it passes when the node that serves its events is
\* never behind the one that named the head it was given.
THEOREM NothingUnserved == PeerLag = 0 => (Spec => [](unserved = {}))
<1> SUFFICES ASSUME PeerLag = 0 PROVE Spec => [](unserved = {})
  OBVIOUS
<1>1. Init => LagInv
  BY DEF Init, LagInv
<1>2. TypeOK /\ LagInv /\ [Next]_vars => LagInv'
  <2> SUFFICES ASSUME TypeOK, LagInv, [Next]_vars PROVE LagInv'
    OBVIOUS
  <2> USE DEF TypeOK, LagInv
  <2>1. CASE unserved' = unserved /\ unread' = unread
    BY <2>1
  <2>2. ASSUME NEW r \in Run, Leave(r), UNCHANGED unserved PROVE LagInv'
    BY <2>2 DEF Leave
  <2>3. ASSUME NEW r \in Run, Rollback(r) \/ AdvanceCursor(r) PROVE LagInv'
    BY <2>3 DEF Rollback, AdvanceCursor, Leave, db
  <2>4. ASSUME NEW r \in Run, ReadWindow(r) PROVE LagInv'
    <3> DEFINE to == Minimum(swept[r] + Window, latest[r])
    <3>1. to \in Nat /\ to <= latest[r]
      BY IndexerAssumption DEF Minimum
    <3>2. PICK h \in swept[r] + 1 .. head :
            latest[r] - PeerLag <= h /\ Drain(r, Answer(swept[r] + 1, to, h), to, h)
      BY <2>4 DEF ReadWindow
    <3> HIDE DEF to
    <3>3. h + 1 .. to = {}
      BY <3>1, <3>2
    <3>. QED BY <2>4, <3>2, <3>3 DEF Drain, ReadWindow, db
  <2>. QED
    BY <2>1, <2>2, <2>3, <2>4
       DEF Next, vars, CloseLedger, CooldownPasses, ReportSettlement, AcquireLock, Step, Cooldown,
           Plan, BeginSweep, ReadHead, CommitWindow, InsertFails, QueueChat, Post, NextWindow,
           SweepDone, BudgetExhausted, Abort, db, locals
<1>3. LagInv => unserved = {}
  BY DEF LagInv
<1>. QED BY <1>1, <1>2, <1>3, TypeCorrect, PTL DEF Spec

-----------------------------------------------------------------------------
(* Announcements.                                                          *)

\* A step that moves no row and sends nothing, by which each run drops what it has
\* to announce, or keeps it and stays where it was.
LEMMA SilentKeeps ==
  ASSUME TypeOK, AnnounceInv, paid' = paid, sent' = sent, answered' = answered,
         \A s \in Run : \/ fresh'[s] = {} /\ tries'[s] = 0
                        \/ /\ fresh'[s] = fresh[s] /\ tries'[s] = tries[s]
                           /\ pc'[s] = pc[s] \/ fresh[s] = {}
  PROVE  AnnounceInv'
<1> USE DEF TypeOK
<1>1. \A t : Booked(t)' <=> Booked(t)
  BY DEF Booked
<1>2. \A s \in Run : /\ tries'[s] < Attempts
                     /\ fresh'[s] # {} => pc'[s] \in Announcing
                     /\ tries'[s] # 0 => pc'[s] = "post" /\ fresh'[s] # {}
  BY IndexerAssumption DEF AnnounceInv, Announcing
<1>3. \A s \in Run : \A t \in fresh'[s] : fresh'[s] = fresh[s] /\ tries'[s] = tries[s]
  OBVIOUS
<1>. QED BY <1>1, <1>2, <1>3 DEF AnnounceInv

\* A run commits rows that were never announced, sends one payment after the
\* other, or purges what was sent with the row, and no other run is in flight
\* meanwhile.
LEMMA AnnounceStep ==
  ASSUME TypeOK, LockInv, AnnounceInv, NEW r \in Run,
         AcquireLock(r) \/ Step(r) \/ BudgetExhausted(r) \/ Abort(r)
  PROVE  AnnounceInv'
<1> USE DEF TypeOK, Goto
<1>0. /\ pc[r] \notin Announcing => fresh[r] = {}
      /\ pc[r] # "post" => tries[r] = 0
      /\ \A s \in Run \ {r} : pc[r] # "idle" => /\ fresh[s] = {} /\ pc[s] = "idle"
                                               /\ tries[s] = 0
  BY DEF AnnounceInv, LockInv, Announcing
<1>1. CASE CommitWindow(r)
  <2> DEFINE F == Fresh(batch[r].events)
  <2>1. batch[r].events \in SUBSET Transfer
    OBVIOUS
  <2>2. \A t \in F : t \in Tx /\ ~Booked(t) /\ Booked(t)'
    <3>1. \A x \in batch[r].events : TxOf[x] \in Tx /\ Booked(TxOf[x])'
      BY <1>1, <2>1, InsertBooks, PaymentsAssumption DEF CommitWindow
    <3>. QED BY <3>1 DEF Fresh
  <2>3. \A t \in Tx : Booked(t) => Booked(t)'
    BY <1>1, <2>1, InsertBooks DEF CommitWindow
  <2>4. /\ sent' = sent /\ answered' = answered /\ tries' = tries
        /\ pc' = [pc EXCEPT ![r] = "queue"]
        /\ fresh' = [fresh EXCEPT ![r] = F] /\ pc[r] = "commit"
    BY <1>1 DEF CommitWindow, told
  <2> HIDE DEF F
  <2>5. F \in SUBSET Tx
    BY <2>2
  <2>6. \A s \in Run : fresh'[s] = (IF s = r THEN F ELSE {}) /\ tries'[s] = 0
    BY <1>0, <2>4
  <2>7. \A t \in F : sent[t] = 0 /\ answered[t] = 0
    BY <2>2 DEF AnnounceInv
  <2>. QED
    BY <2>2, <2>3, <2>4, <2>5, <2>6, <2>7, IndexerAssumption DEF AnnounceInv, Announcing
<1>2. CASE Rollback(r)
  <2>1. \A s \in Run : fresh'[s] = {} /\ tries'[s] = 0
    BY <1>0, <1>2 DEF Rollback, Leave
  <2>2. \A t \in Tx : /\ sent'[t] = IF t \in Purged(latest[r]) THEN 0 ELSE sent[t]
                      /\ answered'[t] = IF t \in Purged(latest[r]) THEN 0 ELSE answered[t]
    BY <1>2 DEF Rollback
  <2>3. \A t \in Tx : t \notin Purged(latest[r]) => (Booked(t)' <=> Booked(t))
    BY <1>2 DEF Rollback, PurgeAbove, Booked
  <2>. QED BY <2>1, <2>2, <2>3, IndexerAssumption DEF AnnounceInv
<1>3. CASE QueueChat(r)
  <2>1. /\ paid' = paid /\ sent' = sent /\ answered' = answered
        /\ tries' = tries /\ tries[r] = 0
        /\ pc'[r] = "post" /\ \A s \in Run \ {r} : fresh'[s] = fresh[s] /\ pc'[s] = pc[s]
        /\ fresh'[r] \in {fresh[r], {}}
    BY <1>0, <1>3 DEF QueueChat, table
  <2>2. \A t : Booked(t)' <=> Booked(t)
    BY <2>1 DEF Booked
  <2>3. \A s \in Run : /\ tries'[s] < Attempts
                       /\ fresh'[s] # {} => pc'[s] \in Announcing
                       /\ tries'[s] # 0 => pc'[s] = "post" /\ fresh'[s] # {}
    BY <2>1 DEF AnnounceInv, Announcing
  <2>4. \A s \in Run : \A t \in fresh'[s] : fresh'[s] = fresh[s]
    BY <2>1
  <2>. QED BY <2>1, <2>2, <2>3, <2>4 DEF AnnounceInv
<1>4. CASE Post(r)
  <2> DEFINE u == Turn(fresh[r])
  <2>1. u \in fresh[r] /\ u \in Tx
    BY <1>4 DEF Post, Turn
  <2>2. Booked(u) /\ sent[u] = tries[r] /\ answered[u] = 0 /\ tries[r] < Attempts
    BY <2>1 DEF AnnounceInv
  <2>3. PICK ok \in BOOLEAN :
          /\ sent' = [sent EXCEPT ![u] = @ + 1]
          /\ answered' = IF ok /\ answered[u] = 0
                         THEN [answered EXCEPT ![u] = sent[u] + 1] ELSE answered
          /\ IF ok \/ tries[r] + 1 = Attempts
             THEN /\ fresh' = [fresh EXCEPT ![r] = @ \ {u}]
                  /\ tries' = [tries EXCEPT ![r] = 0]
             ELSE tries' = [tries EXCEPT ![r] = @ + 1] /\ UNCHANGED fresh
    BY <1>4 DEF Post
  <2>4. paid' = paid /\ pc' = pc /\ pc[r] = "post"
    BY <1>4 DEF Post, table
  <2> HIDE DEF u
  <2>5. /\ sent'[u] = tries[r] + 1
        /\ answered'[u] = IF ok THEN tries[r] + 1 ELSE 0
    BY <2>1, <2>2, <2>3
  <2>6. \A t \in Tx \ {u} : sent'[t] = sent[t] /\ answered'[t] = answered[t]
    BY <2>3
  <2>7. \A t : Booked(t)' <=> Booked(t)
    BY <2>4 DEF Booked
  <2>8. \A s \in Run \ {r} : fresh'[s] = {} /\ tries'[s] = 0
    BY <1>0, <2>3, <2>4
  <2>9. \A t \in Tx : /\ sent'[t] <= Attempts
                      /\ answered'[t] \in {0, sent'[t]}
                      /\ ~Booked(t)' => sent'[t] = 0
    BY <2>2, <2>5, <2>6, <2>7, IndexerAssumption DEF AnnounceInv
  <2>10. CASE ok \/ tries[r] + 1 = Attempts
    <3>1. fresh'[r] = fresh[r] \ {u} /\ tries'[r] = 0
      BY <2>3, <2>10
    <3>2. \A t \in fresh'[r] : /\ t \in Tx \ {u} /\ Booked(t) /\ sent[t] = 0
                               /\ answered[t] = 0
      BY <3>1 DEF AnnounceInv, u
    <3>3. \A t \in fresh'[r] : sent'[t] = 0 /\ answered'[t] = 0
      BY <2>6, <3>2
    <3>4. \A s \in Run : /\ tries'[s] < Attempts
                         /\ fresh'[s] # {} => pc'[s] \in Announcing
                         /\ tries'[s] = 0
      BY <2>4, <2>8, <3>1, IndexerAssumption DEF Announcing
    <3>5. \A s \in Run : \A t \in fresh'[s] : Booked(t)' /\ sent'[t] = 0 /\ answered'[t] = 0
      BY <2>7, <2>8, <3>2, <3>3
    <3>. QED BY <2>9, <3>4, <3>5 DEF AnnounceInv
  <2>11. CASE ~(ok \/ tries[r] + 1 = Attempts)
    <3>1. fresh' = fresh /\ tries'[r] = tries[r] + 1 /\ tries'[r] < Attempts /\ ~ok
      BY <2>2, <2>3, <2>11, IndexerAssumption
    <3>2. \A t \in fresh[r] \ {u} : /\ t \in Tx /\ Booked(t)
                                    /\ sent'[t] = 0 /\ answered'[t] = 0
      BY <2>6 DEF AnnounceInv, u
    <3>3. Turn(fresh'[r]) = u /\ fresh'[r] # {}
      BY <2>1, <3>1 DEF u
    <3>4. \A t \in fresh'[r] : /\ Booked(t)' /\ answered'[t] = 0
                               /\ sent'[t] = IF t = Turn(fresh'[r]) THEN tries'[r] ELSE 0
      BY <2>2, <2>5, <2>7, <3>1, <3>2, <3>3
    <3>5. \A s \in Run : /\ tries'[s] < Attempts
                         /\ fresh'[s] # {} => pc'[s] \in Announcing
                         /\ tries'[s] # 0 => pc'[s] = "post" /\ fresh'[s] # {}
      BY <2>4, <2>8, <3>1, <3>3, IndexerAssumption DEF Announcing
    <3>6. \A s \in Run : \A t \in fresh'[s] :
            /\ Booked(t)' /\ answered'[t] = 0
            /\ sent'[t] = IF t = Turn(fresh'[s]) THEN tries'[s] ELSE 0
      BY <2>8, <3>4
    <3>. QED BY <2>9, <3>5, <3>6 DEF AnnounceInv
  <2>. QED BY <2>10, <2>11
<1>5. /\ ~CommitWindow(r) /\ ~Rollback(r) /\ ~QueueChat(r) /\ ~Post(r)
      => /\ paid' = paid /\ sent' = sent /\ answered' = answered
         /\ \A s \in Run \ {r} :
              fresh'[s] = fresh[s] /\ pc'[s] = pc[s] /\ tries'[s] = tries[s]
         /\ fresh'[r] = {} /\ tries'[r] = 0
  <2> DEFINE Silent ==
               /\ \A s \in Run \ {r} :
                    fresh'[s] = fresh[s] /\ pc'[s] = pc[s] /\ tries'[s] = tries[s]
               /\ fresh'[r] = {} /\ tries'[r] = 0
  <2>1. Leave(r) => Silent
    BY DEF Leave
  <2>2. CASE AcquireLock(r) \/ SweepDone(r) \/ BudgetExhausted(r)
    BY <1>0, <2>2 DEF AcquireLock, SweepDone, BudgetExhausted, locals, table, told, Announcing
  <2>3. CASE Cooldown(r) \/ InsertFails(r) \/ AdvanceCursor(r) \/ Abort(r)
    BY <2>1, <2>3 DEF Cooldown, InsertFails, AdvanceCursor, Abort, table, told
  <2>4. CASE Plan(r)
    BY <1>0, <2>1, <2>4 DEF Plan, BeginSweep, table, told, Announcing
  <2>5. CASE ReadWindow(r)
    BY <1>0, <2>5 DEF ReadWindow, table, told, Announcing
  <2>6. ASSUME NEW h \in 1 .. head, ReadHead(r, h)
        PROVE  paid' = paid /\ sent' = sent /\ answered' = answered /\ Silent
    BY <1>0, <2>6 DEF ReadHead, table, told, Announcing
  <2>7. CASE NextWindow(r)
    <3>1. fresh[r] = {} /\ tries[r] = 0
      BY <2>7 DEF NextWindow, AnnounceInv
    <3>. QED BY <2>7, <3>1 DEF NextWindow, table, told
  <2>. QED BY <2>2, <2>3, <2>4, <2>5, <2>6, <2>7 DEF Step
<1>6. CASE ~CommitWindow(r) /\ ~Rollback(r) /\ ~QueueChat(r) /\ ~Post(r)
  BY <1>5, <1>6, SilentKeeps
<1>. QED BY <1>1, <1>2, <1>3, <1>4, <1>6

\* Over windows read again, overlapping runs, crashes and rewinds, a booked payment
\* is POSTed at most Attempts times, never again once answered, and none that is
\* off the books: no assumption on the nodes is needed.
THEOREM AnnouncedInBounds == Spec => []AnnouncedPerBooking
<1>1. Init => LockInv /\ AnnounceInv
  BY IndexerAssumption DEF Init, RowsInit, LockInv, AnnounceInv, Booked
<1>2. TypeOK /\ LockInv /\ AnnounceInv /\ [Next]_vars => LockInv' /\ AnnounceInv'
  <2> SUFFICES ASSUME TypeOK, LockInv, AnnounceInv, [Next]_vars PROVE AnnounceInv'
    BY LockStep
  <2>1. CASE UNCHANGED vars
    BY <2>1 DEF vars, AnnounceInv, Booked
  <2>2. CASE \/ CloseLedger \/ CooldownPasses
             \/ \E t \in Tx, at \in 1 .. MaxReports : ReportSettlement(t, at)
    <3>1. UNCHANGED <<paid, sent, answered, fresh, tries, pc>>
      BY <2>2 DEF CloseLedger, CooldownPasses, ReportSettlement, RecordSettlement, table, locals,
                  told
    <3>. QED BY <3>1, SilentKeeps
  <2>3. ASSUME NEW r \in Run, AcquireLock(r) \/ Step(r) \/ BudgetExhausted(r) \/ Abort(r)
        PROVE  AnnounceInv'
    BY <2>3, AnnounceStep
  <2>. QED BY <2>1, <2>2, <2>3 DEF Next
<1>3. TypeOK /\ AnnounceInv => AnnouncedPerBooking
  BY DEF TypeOK, AnnounceInv, AnnouncedPerBooking
<1>. QED BY <1>1, <1>2, <1>3, TypeCorrect, PTL DEF Spec

-----------------------------------------------------------------------------
(* What a step does to the books.                                          *)

\* Rows are booked by a window's transaction and taken back by a rewind.
LEMMA RowsStep ==
  ASSUME [Next]_vars
  PROVE  paid' = paid \/ \E r \in Run : CommitWindow(r) \/ Rollback(r)
BY DEF Next, vars, CloseLedger, CooldownPasses, ReportSettlement, RecordSettlement, AcquireLock,
       Step, Cooldown, Plan, ReadHead, ReadWindow, InsertFails, QueueChat, Post, NextWindow,
       SweepDone, AdvanceCursor, BudgetExhausted, Abort, table

\* A booked payment keeps its transfer or loses its row.
LEMMA FrozenStep ==
  ASSUME TypeOK, [Next]_vars, NEW t \in Tx, Booked(t)
  PROVE  paid'[t] \in {paid[t], NoTransfer}
<1>1. CASE paid' = paid
  BY <1>1
<1>2. ASSUME NEW r \in Run, CommitWindow(r) PROVE paid'[t] = paid[t]
  BY <1>2 DEF CommitWindow, InsertRows, Fresh
<1>3. ASSUME NEW r \in Run, Rollback(r) PROVE paid'[t] \in {paid[t], NoTransfer}
  BY <1>3 DEF Rollback, PurgeAbove
<1>. QED BY <1>1, <1>2, <1>3, RowsStep

\* No step rewrites the on-chain columns of a booked payment.
THEOREM BookedStays == Spec => BookedFieldsFrozen
<1>1. TypeOK /\ [Next]_vars => \A t \in Tx : Booked(t) => paid'[t] \in {paid[t], NoTransfer}
  BY FrozenStep
<1>. QED BY <1>1, TypeCorrect, PTL DEF Spec, BookedFieldsFrozen

\* What a rewind leaves on the books, and where it leaves the cursor.
LEMMA RollbackStrikes ==
  ASSUME IInv, NEW r \in Run, Rollback(r)
  PROVE  /\ cursor' = latest[r] /\ cursor' \in Nat /\ cursor' < cursor
         /\ gap' \cup unserved' = {l \in gap \cup unserved : l <= cursor'}
         /\ \A t \in Tx : Booked(t)' <=> Booked(t) /\ ~(LedgerOf[paid[t]] > cursor')
<1>1. seen[r] = cursor
  BY DEF IInv, SweepInv, SweepInvOf, Rollback
<1>2. cursor' = latest[r] /\ cursor' \in Nat /\ cursor' < cursor
  BY <1>1 DEF IInv, TypeOK, Rollback
<1>3. gap' \cup unserved' = {l \in gap \cup unserved : l <= cursor'}
  BY <1>2 DEF Rollback
<1>4. ASSUME NEW t \in Tx PROVE Booked(t)' <=> Booked(t) /\ ~(LedgerOf[paid[t]] > cursor')
  BY <1>2 DEF Rollback, PurgeAbove, Purged, Booked
<1>. QED BY <1>2, <1>3, <1>4

\* A payment leaves the books by a rewind that moves the cursor back with it.
THEOREM RewindsTogether == Spec => PurgeRewindsCursor
<1>1. ASSUME IInv, [Next]_vars, NEW t \in Tx, Booked(t), ~Booked(t)'
      PROVE  cursor' < cursor /\ \A u \in Tx : Booked(u)' => LedgerOf[paid[u]] <= cursor'
  <2>1. CASE paid' = paid
    BY <1>1, <2>1 DEF Booked
  <2>2. ASSUME NEW r \in Run, CommitWindow(r) PROVE FALSE
    <3>1. batch[r].events \in SUBSET Transfer
      BY <1>1 DEF IInv, TypeOK
    <3>. QED BY <1>1, <2>2, <3>1, InsertBooks DEF CommitWindow, IInv, TypeOK
  <2>3. ASSUME NEW r \in Run, Rollback(r)
        PROVE  cursor' < cursor /\ \A u \in Tx : Booked(u)' => LedgerOf[paid[u]] <= cursor'
    <3>1. ASSUME NEW u \in Tx, Booked(u)' PROVE LedgerOf[paid[u]] <= cursor'
      <4>1. Booked(u) /\ ~(LedgerOf[paid[u]] > cursor') /\ cursor' \in Nat
        BY <1>1, <2>3, <3>1, RollbackStrikes
      <4>2. LedgerOf[paid[u]] \in Nat
        BY <1>1, <4>1, PaymentsAssumption DEF IInv, TypeOK, RowsTypeOK, Booked
      <4>. QED BY <4>1, <4>2
    <3>. QED BY <1>1, <2>3, <3>1, RollbackStrikes
  <2>. QED BY <1>1, <2>1, <2>2, <2>3, RowsStep
<1>2. IInv /\ [Next]_vars =>
        ((\E t \in Tx : Booked(t) /\ ~Booked(t)') =>
           cursor' < cursor /\ \A t \in Tx : Booked(t)' => LedgerOf[paid[t]] <= cursor')
  BY <1>1
<1>. QED BY <1>2, Knows, PTL DEF Spec, PurgeRewindsCursor

-----------------------------------------------------------------------------
(* The indexer implements the books.                                       *)

\* Steps that leave the payments and the cursor alone leave the books alone.
LEMMA DbStep ==
  ASSUME [Next]_vars
  PROVE  \/ cursor' = cursor /\ gap' = gap /\ unserved' = unserved /\ paid' = paid
         \/ \E r \in Run : CommitWindow(r) \/ Rollback(r) \/ AdvanceCursor(r)
BY DEF Next, vars, CloseLedger, CooldownPasses, ReportSettlement, RecordSettlement, AcquireLock,
       Step, Cooldown, Plan, ReadHead, ReadWindow, InsertFails, QueueChat, Post, NextWindow,
       SweepDone, BudgetExhausted, Abort, table, db

\* Every step of the indexer enters payments, closes or reopens the books, or
\* does nothing they see.
LEMMA BooksStep ==
  ASSUME IInv, IInv', [Next]_vars
  PROVE  [Books!BooksNext]_(Books!books)
<1> DEFINE entries == {t \in Tx : Booked(t)}
<1>1. CASE cursor' = cursor /\ gap' = gap /\ unserved' = unserved /\ paid' = paid
  BY <1>1 DEF Books!books, Booked
<1>2. ASSUME NEW r \in Run, CommitWindow(r) PROVE Books!Enter(entries')
  <2>1. batch[r].events \in SUBSET Transfer
    BY DEF IInv, TypeOK
  <2>2. \A t \in Tx : Booked(t) => Booked(t)'
    BY <1>2, <2>1, InsertBooks DEF CommitWindow, IInv, TypeOK
  <2>3. cursor' = cursor /\ gap' = gap /\ unserved' = unserved
    BY <1>2 DEF CommitWindow, db
  <2>. QED BY <2>2, <2>3 DEF Books!Enter
<1>3. ASSUME NEW r \in Run, AdvanceCursor(r)
      PROVE  \/ Books!Close(cursor')
             \/ cursor' = cursor /\ gap' = gap /\ unserved' = unserved /\ paid' = paid
  <2>1. paid' = paid
    BY <1>3 DEF AdvanceCursor, table
  <2>2. CASE cursor < swept[r]
    <3>1. cursor' > cursor /\ gap \cup unserved \subseteq gap' \cup unserved'
      BY <1>3, <2>2 DEF AdvanceCursor, IInv, TypeOK, NoCursor
    <3>2. ASSUME NEW x \in Transfer, LedgerOf[x] <= cursor'
          PROVE  TxOf[x] \in entries \/ LedgerOf[x] \in gap' \cup unserved'
      <4>1. Booked(TxOf[x])' \/ LedgerOf[x] \in gap' \cup unserved'
        BY <3>2 DEF IInv, CursorCoversBooks
      <4>. QED BY <4>1, <2>1, PaymentsAssumption DEF Booked
    <3>3. entries' = entries
      BY <2>1 DEF Booked
    <3>. QED BY <3>1, <3>2, <3>3 DEF Books!Close
  <2>3. CASE ~(cursor < swept[r])
    BY <1>3, <2>1, <2>3 DEF AdvanceCursor, db
  <2>. QED BY <2>2, <2>3
<1>4. ASSUME NEW r \in Run, Rollback(r) PROVE Books!Reopen(cursor')
  <2>1. /\ cursor' \in Nat /\ cursor' < cursor
        /\ gap' \cup unserved' = {l \in gap \cup unserved : l <= cursor'}
        /\ \A t \in Tx : Booked(t)' <=> Booked(t) /\ ~(LedgerOf[paid[t]] > cursor')
    BY <1>4, RollbackStrikes
  <2>2. ASSUME NEW t \in Tx, Booked(t)
        PROVE  LedgerOf[paid[t]] > cursor' <=> t \in Books!Above(cursor')
    <3>1. paid[t] \in Transfer /\ TxOf[paid[t]] = t
      BY <2>2 DEF IInv, TypeOK, RowsTypeOK, Booked
    <3>2. \A y \in Transfer : TxOf[y] = t => LedgerOf[y] = LedgerOf[paid[t]]
      BY <3>1, PaymentsAssumption
    <3>. QED BY <3>1, <3>2 DEF Books!Above
  <2>3. entries' = entries \ Books!Above(cursor')
    BY <2>1, <2>2
  <2>. QED BY <2>1, <2>3 DEF Books!Reopen
<1>. QED
  BY <1>1, <1>2, <1>3, <1>4, DbStep DEF Books!BooksNext, Books!books, Booked

\* Read as books, the indexer only ever enters what was paid, closes through
\* a ledger with every payment up to it entered or reported lost, and reopens
\* by striking what lies above.
THEOREM BooksRefined == Spec => ImplementsBooks
<1>1. Init => Books!BooksInit
  BY DEF Init, RowsInit, Booked, NoCursor, Books!BooksInit
<1>2. IInv /\ IInv' /\ [Next]_vars => [Books!BooksNext]_(Books!books)
  BY BooksStep
<1>. QED BY <1>1, <1>2, Knows, PTL DEF Spec, ImplementsBooks, Books!BooksSpec
=============================================================================
