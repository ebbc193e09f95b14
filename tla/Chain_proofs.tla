---------------------------- MODULE Chain_proofs ----------------------------
(***************************************************************************)
(* What is proved of the programs around the chain, for all values of the  *)
(* constants: of the sweep of EventPager, of receipt trees, and of the     *)
(* machines "verifier", "anchor" and "audit" of MCChain.  The inductive    *)
(* invariants of those three stand in their modules; a variable of theirs  *)
(* has its own name here, with the machine's before it.                    *)
(*                                                                         *)
(* The sweep moves past a window when it is drained, so two facts are      *)
(* needed: a drained window has read every event of its ledgers (ReadInv), *)
(* and the windows of a batch follow one another from sweptThrough         *)
(* (BatchInv).                                                             *)
(***************************************************************************)
EXTENDS MCChain, FiniteSetTheorems, WellFoundedInduction, SequenceTheorems, TLAPS

(* A nonempty set of natural numbers has a least element.                  *)
LEMMA LeastElement ==
  ASSUME NEW T, T \subseteq Nat, T # {}
  PROVE  \E x \in T : \A y \in T : x <= y
<1>. DEFINE R == OpToRel(<, Nat)
<1>1. \A x, y \in Nat : x < y => <<x, y>> \in R
  BY DEF OpToRel
<1>2. IsWellFoundedOn(R, Nat)
  BY NatLessThanWellFounded
<1>. HIDE DEF R
<1>3. PICK x \in T : \A y \in T : ~(<<y, x>> \in R)
  BY <1>2, WFMin
<1>4. ASSUME NEW y \in T PROVE x <= y
  <2>1. x \in Nat /\ y \in Nat
    OBVIOUS
  <2>2. ~(y < x)
    BY <1>1, <1>3, <2>1, Zenon
  <2>. QED
    BY <2>1, <2>2
<1>. QED
  BY <1>4

UpTo(S, e) == {f \in S : f <= e}

(* More lies at or below the greater of two numbers.                       *)
LEMMA UpToGrows ==
  ASSUME NEW S, S \subseteq Nat, NEW e \in Nat, NEW f \in Nat, e <= f
  PROVE  UpTo(S, e) \in SUBSET UpTo(S, f)
<1>. SUFFICES ASSUME NEW g \in S, g <= e PROVE g <= f
  BY DEF UpTo
<1>1. g \in Nat
  OBVIOUS
<1>. QED
  BY <1>1

(* How many elements of a finite set lie at or below one of them, and that *)
(* the greater of two elements has more.                                   *)
LEMMA RankGrows ==
  ASSUME NEW S, S \subseteq Nat, IsFiniteSet(S)
  PROVE  /\ \A e : /\ IsFiniteSet(UpTo(S, e))
                   /\ Cardinality(UpTo(S, e)) \in Nat
                   /\ Cardinality(UpTo(S, e)) <= Cardinality(S)
         /\ \A e, f \in S : e < f => Cardinality(UpTo(S, e)) < Cardinality(UpTo(S, f))
<1>1. ASSUME NEW e
      PROVE  /\ IsFiniteSet(UpTo(S, e)) /\ Cardinality(UpTo(S, e)) \in Nat
             /\ Cardinality(UpTo(S, e)) <= Cardinality(S)
  <2>1. UpTo(S, e) \in SUBSET S
    BY DEF UpTo
  <2>. QED
    BY <2>1, FS_Subset, FS_CardinalityType
<1>2. ASSUME NEW e \in S, NEW f \in S, e < f
      PROVE  Cardinality(UpTo(S, e)) < Cardinality(UpTo(S, f))
  <2>0. e \in Nat /\ f \in Nat /\ e <= f
    BY <1>2
  <2>1. UpTo(S, e) \in SUBSET UpTo(S, f)
    BY <2>0, UpToGrows
  <2>2. f \in UpTo(S, f) /\ f \notin UpTo(S, e)
    BY <1>2 DEF UpTo
  <2>3. UpTo(S, e) # UpTo(S, f)
    BY <2>2
  <2>4. /\ Cardinality(UpTo(S, e)) <= Cardinality(UpTo(S, f))
        /\ Cardinality(UpTo(S, f)) # Cardinality(UpTo(S, e))
    BY <1>1, <2>1, <2>3, FS_Subset
  <2>. QED
    BY <1>1, <2>4
<1>. QED
  BY <1>1, <1>2

(* Highest is what its name says.                                          *)
LEMMA HighestIsLast ==
  ASSUME NEW S, S \subseteq Nat, IsFiniteSet(S), S # {}
  PROVE  Highest(S) \in S /\ \A f \in S : f <= Highest(S)
<1>. DEFINE rank == [e \in S |-> Cardinality(UpTo(S, e))]
            T == {Cardinality(S) - rank[e] : e \in S}
<1>1. /\ Cardinality(S) \in Nat
      /\ \A e \in S : rank[e] \in Nat /\ rank[e] <= Cardinality(S)
      /\ \A e, f \in S : e < f => rank[e] < rank[f]
  BY FS_CardinalityType, RankGrows
<1>. HIDE DEF rank
<1>2. T \subseteq Nat /\ T # {}
  <2>1. \A e \in S : Cardinality(S) - rank[e] \in Nat
    BY <1>1
  <2>. QED
    BY <2>1
<1>3. PICK x \in T : \A y \in T : x <= y
  BY <1>2, LeastElement
<1>4. PICK e \in S : x = Cardinality(S) - rank[e]
  BY <1>3
<1>5. ASSUME NEW f \in S PROVE f <= e
  <2>1. Cardinality(S) - rank[e] <= Cardinality(S) - rank[f]
    BY <1>3, <1>4
  <2>2. rank[f] <= rank[e] /\ rank[f] \in Nat /\ rank[e] \in Nat
    BY <1>1, <2>1
  <2>3. e < f => rank[e] < rank[f]
    BY <1>1
  <2>4. e \in Nat /\ f \in Nat
    OBVIOUS
  <2>. QED
    BY <2>2, <2>3, <2>4
<1>. QED
  BY <1>5 DEF Highest

(* A page holds the first events there are, and all of them when it is     *)
(* short.                                                                  *)
LEMMA PageIsPrefix ==
  ASSUME PagerAssumption, NEW S, S \subseteq Event
  PROVE  /\ Page(S) \subseteq S /\ IsFiniteSet(Page(S))
         /\ \A e \in S, f \in Page(S) : e <= f => e \in Page(S)
         /\ Cardinality(Page(S)) < PageLimit => Page(S) = S
<1>. DEFINE P == Page(S)
<1>0. /\ S \subseteq Nat /\ IsFiniteSet(S) /\ PageLimit \in Nat \ {0}
  BY FS_Subset DEF PagerAssumption
<1>1. P \subseteq S /\ P \in SUBSET S /\ P = {e \in S : Cardinality(UpTo(S, e)) <= PageLimit}
  BY DEF Page, UpTo
<1>. HIDE DEF P
<1>2. IsFiniteSet(P) /\ Cardinality(P) \in Nat
  BY <1>0, <1>1, FS_Subset, FS_CardinalityType
<1>3. ASSUME NEW e \in S, NEW f \in P, e <= f PROVE e \in P
  <2>1. UpTo(S, e) \in SUBSET UpTo(S, f)
    <3>1. e \in Nat /\ f \in Nat /\ e <= f
      BY <1>0, <1>1, <1>3
    <3>. QED
      BY <1>0, <3>1, UpToGrows
  <2>2. Cardinality(UpTo(S, e)) <= Cardinality(UpTo(S, f))
    BY <1>0, <2>1, RankGrows, FS_Subset
  <2>3. /\ Cardinality(UpTo(S, e)) \in Nat /\ Cardinality(UpTo(S, f)) \in Nat
        /\ Cardinality(UpTo(S, f)) <= PageLimit
    BY <1>0, <1>1, RankGrows
  <2>. QED
    BY <1>0, <1>1, <2>2, <2>3
<1>4. ASSUME Cardinality(P) < PageLimit, P # S PROVE FALSE
  <2>1. S \ P # {} /\ S \ P \subseteq Nat
    BY <1>0, <1>1, <1>4
  <2>2. PICK m \in S \ P : \A y \in S \ P : m <= y
    BY <2>1, LeastElement
  <2>3. UpTo(S, m) \in SUBSET (P \cup {m})
    <3>. SUFFICES ASSUME NEW y \in S, y <= m, y \notin P PROVE y = m
      BY DEF UpTo
    <3>1. m <= y /\ m \in Nat /\ y \in Nat
      BY <1>0, <2>2
    <3>. QED
      BY <3>1
  <2>4. IsFiniteSet(P \cup {m}) /\ Cardinality(P \cup {m}) = Cardinality(P) + 1
    BY <1>2, <2>2, FS_AddElement
  <2>5. Cardinality(UpTo(S, m)) <= Cardinality(P) + 1 /\ Cardinality(UpTo(S, m)) \in Nat
    <3>1. Cardinality(UpTo(S, m)) <= Cardinality(P \cup {m})
      BY <2>3, <2>4, FS_Subset
    <3>. QED
      BY <1>0, <2>4, <3>1, RankGrows
  <2>6. Cardinality(UpTo(S, m)) <= PageLimit
    BY <1>0, <1>2, <1>4, <2>5
  <2>. QED
    BY <1>1, <2>2, <2>6
<1>. QED
  BY <1>1, <1>2, <1>3, <1>4 DEF P

-----------------------------------------------------------------------------
(* The invariant.                                                          *)

InWindow(s, e) == s <= LedgerOf[e] /\ LedgerOf[e] <= EndOf(s)

(* A drain has read its window up to its cursor, and the whole of it once  *)
(* it is drained.                                                          *)
ReadInvOf(s, t) ==
  /\ t.events \subseteq Event /\ t.cursor \in Event \cup {0}
  /\ t.state \in {"reading", "drained", "stopped"}
  /\ \A e \in Event : InWindow(s, e) /\ (e <= t.cursor \/ t.state = "drained") => e \in t.events

ReadInv == \A s \in DOMAIN tasks : ReadInvOf(s, tasks[s])

(* The windows in flight start at sweptThrough + 1, one window apart, and  *)
(* end where the next batch begins.                                        *)
Behind(l) == {l + 1 + i * Window : i \in Nat}
Ahead == Behind(swept)
BatchInv ==
  /\ swept \in Int /\ next \in Int /\ batchSize \in Nat \ {0}
  /\ phase \in {"batch", "fetch", "emit", "done", "rejected"}
  /\ phase = "batch" => next = swept + 1
  /\ phase \in {"fetch", "emit"} =>
       /\ DOMAIN tasks = {s \in Ahead : s < next}
       /\ swept + 1 < next /\ next <= EndLedger + 1
       /\ next \in Ahead \cup {EndLedger + 1}
  /\ phase = "emit" => \A s \in DOMAIN tasks : tasks[s].state # "reading"

GivenInv ==
  /\ given \subseteq Event
  /\ \A e \in Event : StartLedger <= LedgerOf[e] /\ LedgerOf[e] <= swept => e \in given

PagerInv == ReadInv /\ BatchInv /\ GivenInv

(* The assumption, in the form the steps use.                              *)
LEMMA ConstantTypes ==
  ASSUME PagerAssumption
  PROVE  /\ StartLedger \in Nat /\ EndLedger \in Nat
         /\ HeadLedger \in Nat /\ EndLedger <= HeadLedger
         /\ Window \in Nat /\ Window > 0 /\ PageLimit \in Nat
         /\ Concurrency \subseteq Nat \ {0} /\ Event \subseteq Nat \ {0}
         /\ \A e \in Event : LedgerOf[e] \in Nat
BY DEF PagerAssumption

(* A sweep starts with nothing read, in flight or handed over.             *)
LEMMA InitInv == PagerAssumption /\ Init => PagerInv
<1>. SUFFICES ASSUME PagerAssumption, Init PROVE PagerInv
  OBVIOUS
<1>1. ReadInv
  BY DEF Init, ReadInv
<1>2. BatchInv
  BY ConstantTypes DEF Init, BatchInv
<1>3. GivenInv
  BY ConstantTypes DEF Init, GivenInv
<1>. QED
  BY <1>1, <1>2, <1>3 DEF PagerInv

(* A page keeps what a drain has read.                                     *)
LEMMA PageKeepsRead ==
  ASSUME PagerAssumption, NEW s \in DOMAIN tasks, ReadInvOf(s, tasks[s]), s \in Int
  PROVE  ReadInvOf(s, Received(s, Page(Matching(s))))
<1>. DEFINE t == tasks[s]  M == Matching(s)  P == Page(M)  c == t.cursor
            n == Received(s, P)
<1>0. c \in Nat
  <2>1. c \in Event \cup {0}
    BY DEF ReadInvOf
  <2>2. Event \subseteq Nat
    BY ConstantTypes
  <2>3. 0 \in Nat
    OBVIOUS
  <2>. QED
    BY <2>1, <2>2, <2>3, Zenon
<1>1. M \subseteq Event /\ M \subseteq Nat
  BY DEF Matching, PagerAssumption
<1>2. /\ P \subseteq M /\ IsFiniteSet(P)
      /\ \A e \in M, f \in P : e <= f => e \in P
      /\ Cardinality(P) < PageLimit => P = M
  BY <1>1, PageIsPrefix
<1>3. \A e \in Event : InWindow(s, e) => e \in t.events \/ e \in M
  <2>. SUFFICES ASSUME NEW e \in Event, InWindow(s, e), e \notin t.events PROVE e \in M
    OBVIOUS
  <2>1. ~(e <= c)
    BY DEF ReadInvOf
  <2>2. e \in Nat /\ LedgerOf[e] \in Nat /\ c \in Nat /\ EndLedger \in Nat
        /\ HeadLedger \in Nat /\ EndLedger <= HeadLedger /\ Window \in Nat
    BY <1>0, ConstantTypes
  <2>3. LedgerOf[e] <= HeadLedger
    BY <2>2 DEF InWindow, EndOf, Minimum
  <2>4. c < e
    BY <2>1, <2>2
  <2>. QED
    BY <2>3, <2>4 DEF Matching, InWindow
<1>4. /\ n.events = t.events \cup P
      /\ P = {} => n.cursor = c
      /\ P # {} => n.cursor = Highest(P)
      /\ n.state \in {"reading", "drained", "stopped"}
      /\ n.state = "drained" => Cardinality(P) < PageLimit
  BY DEF Received
<1>5. P # {} => Highest(P) \in P /\ \A f \in P : f <= Highest(P)
  BY <1>1, <1>2, HighestIsLast
<1>. HIDE DEF P, M, n
<1>6. ASSUME NEW e \in Event, InWindow(s, e), e <= n.cursor \/ n.state = "drained"
      PROVE  e \in t.events \cup P
  <2>1. CASE n.state = "drained"
    BY <1>2, <1>3, <1>4, <1>6, <2>1
  <2>2. CASE P = {} /\ e <= n.cursor
    <3>1. e <= c
      BY <1>4, <2>2
    <3>. QED
      BY <1>6, <3>1 DEF ReadInvOf
  <2>3. CASE P # {} /\ e <= n.cursor
    <3>1. Highest(P) \in P /\ e <= Highest(P)
      BY <1>4, <1>5, <2>3
    <3>. QED
      BY <1>2, <1>3, <1>6, <3>1
  <2>. QED
    BY <1>6, <2>1, <2>2, <2>3
<1>7. n.events \subseteq Event /\ n.cursor \in Event \cup {0}
  BY <1>1, <1>2, <1>4, <1>5 DEF ReadInvOf
<1>8. ReadInvOf(s, n)
  BY <1>4, <1>6, <1>7 DEF ReadInvOf
<1>. QED
  BY <1>8 DEF n, P, M

-----------------------------------------------------------------------------
(* The windows of a batch.                                                 *)

(* Multiples of a window's length are at least a window apart.             *)
LEMMA Multiples ==
  ASSUME NEW i \in Nat, NEW j \in Nat, i < j, NEW w \in Nat, w > 0
  PROVE  /\ i * w \in Nat /\ j * w \in Nat
         /\ i * w + w <= j * w
<1>1. \A d \in Nat : d * w \in Nat
  OBVIOUS
<1>2. PICK k \in Nat : j = i + 1 + k
  <2>1. j - i - 1 \in Nat /\ j = i + 1 + (j - i - 1)
    OBVIOUS
  <2>. QED
    BY <2>1
<1>3. j * w = i * w + w + k * w
  BY <1>2
<1>. QED
  BY <1>1, <1>3

(* The first window in flight is the one behind sweptThrough.              *)
LEMMA UpcomingIsNext ==
  ASSUME PagerAssumption, BatchInv, phase \in {"fetch", "emit"}
  PROVE  swept + 1 \in DOMAIN tasks /\ Upcoming = swept + 1
<1>1. swept + 1 \in DOMAIN tasks
  <2>1. swept + 1 = swept + 1 + 0 * Window
    BY ConstantTypes DEF BatchInv
  <2>. QED
    BY <2>1 DEF BatchInv, Ahead, Behind
<1>2. ASSUME NEW s \in DOMAIN tasks PROVE s \in Int /\ swept + 1 <= s
  <2>1. PICK i \in Nat : s = swept + 1 + i * Window
    BY DEF BatchInv, Ahead, Behind
  <2>2. i * Window \in Nat
    BY ConstantTypes
  <2>. QED
    BY <2>1, <2>2 DEF BatchInv
<1>3. \A s \in DOMAIN tasks : (\A t \in DOMAIN tasks : s <= t) => s = swept + 1
  BY <1>1, <1>2 DEF BatchInv
<1>. QED
  BY <1>1, <1>2, <1>3 DEF Upcoming

(* The windows of a new batch.                                             *)
LEMMA BatchPlanned ==
  ASSUME PagerAssumption, BatchInv, phase = "batch", next <= EndLedger
  PROVE  /\ Starts(next) = {s \in Ahead : s < After(next)}
         /\ After(next) \in Int /\ next < After(next) /\ After(next) <= EndLedger + 1
         /\ After(next) \in Ahead \cup {EndLedger + 1}
<1>. DEFINE b == batchSize * Window
<1>1. /\ next = swept + 1 /\ next \in Int /\ batchSize \in Nat /\ 0 < batchSize
      /\ Window \in Nat /\ Window > 0 /\ EndLedger \in Nat
  BY ConstantTypes DEF BatchInv
<1>2. b \in Nat /\ Window <= b
  <2>1. 0 * Window + Window <= b /\ b \in Nat /\ 0 * Window = 0
    BY <1>1, Multiples
  <2>. QED
    BY <1>1, <2>1
<1>3. After(next) = IF next + b - 1 <= EndLedger THEN next + b ELSE EndLedger + 1
  BY <1>1, <1>2 DEF After, Minimum
<1>4. /\ After(next) \in Int /\ next < After(next) /\ After(next) <= EndLedger + 1
  BY <1>1, <1>2, <1>3
<1>5. After(next) \in Ahead \cup {EndLedger + 1}
  BY <1>1, <1>3 DEF Ahead, Behind
<1>6. ASSUME NEW i \in Nat
      PROVE  /\ i * Window \in Nat
             /\ i < batchSize <=> i * Window < b
  <2>1. i * Window \in Nat
    BY <1>1
  <2>2. CASE i < batchSize
    BY <1>1, <1>2, <2>1, <2>2, Multiples
  <2>3. CASE i = batchSize
    BY <1>1, <2>1, <2>3
  <2>4. CASE batchSize < i
    <3>1. b + Window <= i * Window
      BY <1>1, <2>4, Multiples
    <3>. QED
      BY <1>1, <1>2, <2>1, <2>4, <3>1
  <2>. QED
    BY <1>1, <2>1, <2>2, <2>3, <2>4
<1>7. ASSUME NEW i \in Nat
      PROVE  /\ i \in 0 .. batchSize - 1 /\ next + i * Window \in next .. EndLedger
               <=> next + i * Window < After(next)
  BY <1>1, <1>2, <1>3, <1>6
<1>8. Starts(next) \subseteq {s \in Ahead : s < After(next)}
  <2>. SUFFICES ASSUME NEW i \in 0 .. batchSize - 1, next + i * Window \in next .. EndLedger
                PROVE  next + i * Window \in Ahead /\ next + i * Window < After(next)
    BY DEF Starts
  <2>1. i \in Nat
    BY <1>1
  <2>. QED
    BY <1>1, <1>7, <2>1 DEF Ahead, Behind
<1>9. {s \in Ahead : s < After(next)} \subseteq Starts(next)
  <2>. SUFFICES ASSUME NEW i \in Nat, swept + 1 + i * Window < After(next)
                PROVE  swept + 1 + i * Window \in Starts(next)
    BY DEF Ahead, Behind
  <2>. QED
    BY <1>1, <1>7 DEF Starts
<1>. QED
  BY <1>4, <1>5, <1>8, <1>9

(* Once the first window is done, the others follow from its end.          *)
LEMMA BatchMovesOn ==
  ASSUME PagerAssumption, BatchInv, phase = "emit",
         NEW end, end = EndOf(swept + 1), NEW rest, rest = DOMAIN tasks \ {swept + 1}
  PROVE  /\ end \in Int /\ swept < end /\ end <= EndLedger
         /\ rest = {s \in Behind(end) : s < next}
         /\ rest = {} => next = end + 1
         /\ rest # {} => end + 1 < next
         /\ next \in Behind(end) \cup {EndLedger + 1}
<1>1. /\ swept \in Int /\ next \in Int /\ EndLedger \in Nat /\ Window \in Nat /\ Window > 0
      /\ swept + 1 < next /\ next <= EndLedger + 1 /\ next \in Ahead \cup {EndLedger + 1}
      /\ rest = {s \in Ahead : s < next} \ {swept + 1}
  BY ConstantTypes DEF BatchInv
<1>2. /\ end = IF swept + Window <= EndLedger THEN swept + Window ELSE EndLedger
      /\ end \in Int /\ swept < end /\ end <= EndLedger
  BY <1>1 DEF EndOf, Minimum
<1>3. \A i \in Nat : i * Window \in Nat /\ (i = 0 => i * Window = 0)
  BY <1>1
<1>4. ASSUME NEW s \in Ahead, s # swept + 1
      PROVE  \E i \in Nat : s = swept + Window + 1 + i * Window
  <2>1. PICK j \in Nat : s = swept + 1 + j * Window
    BY DEF Ahead, Behind
  <2>2. j # 0
    BY <1>1, <1>3, <1>4, <2>1
  <2>3. j - 1 \in Nat /\ j * Window = Window + (j - 1) * Window
    BY <1>1, <2>2
  <2>4. (j - 1) * Window \in Nat
    BY <1>3, <2>3
  <2>5. s = swept + Window + 1 + (j - 1) * Window
    BY <1>1, <2>1, <2>3, <2>4
  <2>. QED
    BY <2>3, <2>5
<1>5. ASSUME NEW s \in Behind(end) PROVE s \in Int /\ end + 1 <= s
  BY <1>2, <1>3 DEF Behind
<1>6. CASE swept + Window <= EndLedger
  <2>0. end = swept + Window
    BY <1>2, <1>6
  <2>1. rest \subseteq {s \in Behind(end) : s < next}
    <3>. SUFFICES ASSUME NEW s \in Ahead, s < next, s # swept + 1
                  PROVE  s \in Behind(end)
      BY <1>1
    <3>. QED
      BY <1>4, <2>0 DEF Behind
  <2>2. ASSUME NEW i \in Nat PROVE end + 1 + i * Window \in Ahead \ {swept + 1}
    <3>1. i + 1 \in Nat /\ (i + 1) * Window = i * Window + Window /\ i * Window \in Nat
      BY <1>1, <1>3
    <3>2. end + 1 + i * Window = swept + 1 + (i + 1) * Window
      BY <1>1, <2>0, <3>1
    <3>3. end + 1 + i * Window # swept + 1
      BY <1>1, <2>0, <3>1
    <3>. QED
      BY <3>1, <3>2, <3>3 DEF Ahead, Behind
  <2>3. {s \in Behind(end) : s < next} \subseteq rest
    BY <1>1, <2>2 DEF Behind
  <2>4. next \in Behind(end) \cup {EndLedger + 1}
    <3>1. CASE next \in Ahead
      <4>1. next # swept + 1
        BY <1>1
      <4>. QED
        BY <1>4, <2>0, <3>1, <4>1 DEF Behind
    <3>. QED
      BY <1>1, <3>1
  <2>5. end + 1 <= next
    BY <1>1, <1>2, <1>5, <2>4
  <2>6. end + 1 \in Behind(end)
    <3>1. end + 1 = end + 1 + 0 * Window
      BY <1>1, <1>2
    <3>. QED
      BY <3>1 DEF Behind
  <2>7. rest = {} => next = end + 1
    BY <1>1, <1>2, <2>3, <2>5, <2>6
  <2>8. rest # {} => end + 1 < next
    BY <1>1, <1>2, <1>5, <2>1
  <2>. QED
    BY <1>2, <2>1, <2>3, <2>4, <2>7, <2>8
<1>7. CASE EndLedger < swept + Window
  <2>0. end = EndLedger
    BY <1>1, <1>2, <1>7
  <2>1. ASSUME NEW s \in Ahead, s # swept + 1 PROVE s \in Int /\ EndLedger + 1 < s
    <3>1. PICK i \in Nat : s = swept + Window + 1 + i * Window
      BY <1>4, <2>1
    <3>. QED
      BY <1>1, <1>3, <1>7, <3>1
  <2>2. rest = {}
    <3>. SUFFICES ASSUME NEW s \in Ahead, s < next, s # swept + 1 PROVE FALSE
      BY <1>1
    <3>. QED
      BY <1>1, <2>1
  <2>3. {s \in Behind(end) : s < next} = {}
    BY <1>1, <1>2, <1>5, <2>0
  <2>4. next = EndLedger + 1
    BY <1>1, <2>1
  <2>. QED
    BY <1>2, <2>0, <2>2, <2>3, <2>4
<1>8. swept + Window <= EndLedger \/ EndLedger < swept + Window
  BY <1>1
<1>. QED
  BY <1>6, <1>7, <1>8, Zenon

-----------------------------------------------------------------------------
(* The steps.                                                              *)

(* Every step keeps the invariant; MoveOn is where all of it is needed.    *)
LEMMA StepInv == PagerAssumption /\ PagerInv /\ [Next]_vars => PagerInv'
<1>. SUFFICES ASSUME PagerAssumption, PagerInv, [Next]_vars PROVE PagerInv'
  OBVIOUS
<1>0. ReadInv /\ BatchInv /\ GivenInv
  BY DEF PagerInv
<1>1. CASE BudgetRunsOut \/ UNCHANGED vars
  <2>1. UNCHANGED <<batchSize, phase, swept, next, tasks, given>>
    BY <1>1 DEF BudgetRunsOut, vars
  <2>. QED
    BY <1>0, <2>1 DEF PagerInv, ReadInv, ReadInvOf, BatchInv, Ahead, Behind, GivenInv
<1>2. CASE PlanBatch
  <2>1. ReadInv'
    <3>1. CASE tasks' = tasks
      BY <1>0, <3>1 DEF ReadInv
    <3>2. CASE tasks' = [s \in Starts(next) |->
                           [state |-> "reading", events |-> {}, cursor |-> 0]]
      <4>1. ASSUME NEW e \in Event PROVE ~(e <= 0)
        <5>1. e \in Nat \ {0}
          BY ConstantTypes
        <5>. QED
          BY <5>1
      <4>. QED
        BY <3>2, <4>1 DEF ReadInv, ReadInvOf
    <3>. QED
      BY <1>2, <3>1, <3>2 DEF PlanBatch
  <2>2. BatchInv'
    <3>1. CASE next > EndLedger \/ ~budget
      BY <1>0, <1>2, <3>1 DEF PlanBatch, BatchInv, Ahead
    <3>2. CASE ~(next > EndLedger \/ ~budget)
      <4>1. next <= EndLedger /\ phase = "batch"
        BY <1>0, <1>2, <3>2, ConstantTypes DEF PlanBatch, BatchInv
      <4>2. /\ phase' = "fetch" /\ next' = After(next) /\ DOMAIN tasks' = Starts(next)
            /\ UNCHANGED <<batchSize, swept>>
        BY <1>2, <3>2 DEF PlanBatch
      <4>3. Ahead' = Ahead
        BY <4>2 DEF Ahead, Behind
      <4>4. /\ Starts(next) = {s \in Ahead : s < After(next)}
            /\ After(next) \in Int /\ next < After(next) /\ After(next) <= EndLedger + 1
            /\ After(next) \in Ahead \cup {EndLedger + 1}
        BY <1>0, <4>1, BatchPlanned
      <4>. QED
        BY <1>0, <4>1, <4>2, <4>3, <4>4 DEF BatchInv
    <3>. QED
      BY <3>1, <3>2
  <2>3. GivenInv'
    BY <1>0, <1>2 DEF PlanBatch, GivenInv
  <2>. QED
    BY <2>1, <2>2, <2>3 DEF PagerInv
<1>3. ASSUME NEW s \in DOMAIN tasks, FetchPage(s) PROVE PagerInv'
  <2>. DEFINE n == Received(s, Page(Matching(s)))
  <2>1. /\ phase = "fetch" /\ tasks' = [tasks EXCEPT ![s] = n]
        /\ UNCHANGED <<batchSize, phase, swept, next, given>>
    BY <1>3 DEF FetchPage
  <2>2. s \in Int
    <3>1. PICK i \in Nat : s = swept + 1 + i * Window
      BY <1>0, <2>1 DEF BatchInv, Ahead, Behind
    <3>2. i * Window \in Nat
      BY ConstantTypes
    <3>. QED
      BY <1>0, <3>1, <3>2 DEF BatchInv
  <2>3. ReadInvOf(s, n)
    BY <1>0, <2>2, PageKeepsRead DEF ReadInv
  <2>. HIDE DEF n
  <2>4. ReadInv'
    <3>1. ASSUME NEW r \in DOMAIN tasks' PROVE ReadInvOf(r, tasks'[r])
      <4>1. r \in DOMAIN tasks /\ tasks'[r] = IF r = s THEN n ELSE tasks[r]
        BY <2>1
      <4>. QED
        BY <1>0, <2>3, <4>1 DEF ReadInv
    <3>. QED
      BY <3>1 DEF ReadInv, ReadInvOf
  <2>5. BatchInv'
    <3>1. DOMAIN tasks' = DOMAIN tasks
      BY <2>1
    <3>. QED
      BY <1>0, <2>1, <3>1 DEF BatchInv, Ahead, Behind
  <2>6. GivenInv'
    BY <1>0, <2>1 DEF GivenInv
  <2>. QED
    BY <2>4, <2>5, <2>6 DEF PagerInv
<1>4. CASE Reject
  <2>1. /\ phase' = "rejected" /\ tasks' = <<>> /\ UNCHANGED <<batchSize, swept, next, given>>
    BY <1>4 DEF Reject
  <2>2. ReadInv'
    BY <2>1 DEF ReadInv
  <2>. QED
    BY <1>0, <2>1, <2>2 DEF PagerInv, BatchInv, Ahead, Behind, GivenInv
<1>5. CASE AllResolved
  <2>1. ReadInv' /\ GivenInv'
    BY <1>0, <1>5 DEF AllResolved, ReadInv, ReadInvOf, GivenInv
  <2>2. BatchInv'
    BY <1>0, <1>5 DEF AllResolved, BatchInv, Ahead
  <2>. QED
    BY <2>1, <2>2 DEF PagerInv
<1>6. CASE Emit
  <2>1. /\ phase = "emit" /\ given' = given \cup tasks[Upcoming].events
        /\ UNCHANGED <<batchSize, phase, swept, next, tasks>>
    BY <1>6 DEF Emit
  <2>2. tasks[Upcoming].events \subseteq Event
    BY <1>0, <2>1, UpcomingIsNext DEF ReadInv, ReadInvOf
  <2>3. ReadInv' /\ GivenInv'
    BY <1>0, <2>1, <2>2 DEF ReadInv, ReadInvOf, GivenInv
  <2>4. BatchInv'
    BY <1>0, <2>1 DEF BatchInv, Ahead, Behind
  <2>. QED
    BY <2>3, <2>4 DEF PagerInv
<1>7. CASE MoveOn
  <2>1. /\ phase = "emit" /\ Upcoming = swept + 1 /\ swept + 1 \in DOMAIN tasks
        /\ tasks[swept + 1].events \subseteq given
        /\ UNCHANGED <<batchSize, next, given>>
    BY <1>0, <1>7, UpcomingIsNext DEF MoveOn
  <2>2. CASE tasks[swept + 1].state # "drained"
    <3>1. phase' = "done" /\ tasks' = <<>> /\ swept' = swept
      BY <1>7, <2>1, <2>2 DEF MoveOn
    <3>2. ReadInv'
      BY <3>1 DEF ReadInv
    <3>. QED
      BY <1>0, <2>1, <3>1, <3>2 DEF PagerInv, BatchInv, GivenInv
  <2>3. CASE tasks[swept + 1].state = "drained"
    <3>. DEFINE rest == DOMAIN tasks \ {swept + 1}
    <3>1. /\ swept' = EndOf(swept + 1) /\ DOMAIN tasks' = rest
          /\ \A s \in rest : tasks'[s] = tasks[s]
          /\ phase' = IF rest = {} THEN "batch" ELSE "emit"
      BY <1>7, <2>1, <2>3 DEF MoveOn
    <3>2. /\ swept' \in Int /\ swept < swept' /\ swept' <= EndLedger
          /\ rest = {s \in Ahead' : s < next}
          /\ rest = {} => next = swept' + 1
          /\ rest # {} => swept' + 1 < next
          /\ next \in Ahead' \cup {EndLedger + 1}
      <4>1. Ahead' = Behind(swept')
        BY DEF Ahead, Behind
      <4>. QED
        BY <1>0, <2>1, <3>1, <4>1, BatchMovesOn, Zenon
    <3>3. ReadInv'
      BY <1>0, <3>1 DEF ReadInv, ReadInvOf
    <3>4. BatchInv'
      BY <1>0, <2>1, <3>1, <3>2 DEF BatchInv
    <3>5. GivenInv'
      <4>. SUFFICES ASSUME NEW e \in Event, StartLedger <= LedgerOf[e], LedgerOf[e] <= swept'
                    PROVE  e \in given
        BY <1>0, <2>1 DEF GivenInv
      <4>1. CASE LedgerOf[e] <= swept
        BY <1>0, <4>1 DEF GivenInv
      <4>2. CASE ~(LedgerOf[e] <= swept)
        <5>1. InWindow(swept + 1, e)
          BY <1>0, <3>1, <4>2, ConstantTypes DEF InWindow, BatchInv
        <5>2. e \in tasks[swept + 1].events
          BY <1>0, <2>1, <2>3, <5>1 DEF ReadInv, ReadInvOf
        <5>. QED
          BY <2>1, <5>2
      <4>. QED
        BY <4>1, <4>2
    <3>. QED
      BY <3>3, <3>4, <3>5 DEF PagerInv
  <2>. QED
    BY <2>2, <2>3
<1>. QED
  BY <1>1, <1>2, <1>3, <1>4, <1>5, <1>6, <1>7 DEF Next, Step


-----------------------------------------------------------------------------
(* The theorems.                                                           *)

(* For any range, window, page size and number of concurrent windows, what *)
(* sweptThrough has passed was handed to onEvents.                         *)
THEOREM SweptIsGiven == PagerAssumption => (Spec => []GivenInv)
<1>. SUFFICES ASSUME PagerAssumption
              PROVE  Spec => []GivenInv
  OBVIOUS
<1>1. Init => PagerInv
  BY InitInv
<1>2. PagerInv /\ [Next]_vars => PagerInv'
  BY StepInv
<1>3. PagerInv => GivenInv
  BY DEF PagerInv
<1>. QED
  BY <1>1, <1>2, <1>3, PTL DEF Spec

(* Every step of either sweep is one of LedgerSweep's, or none of its      *)
(* business.                                                               *)
LEMMA StepSweeps ==
  PagerAssumption /\ PagerInv /\ PagerInv' /\ [Next]_vars
    => [Sweep!SweepNext]_<<swept, given>>
<1>. SUFFICES ASSUME PagerAssumption, PagerInv, PagerInv', [Next]_vars, ~UNCHANGED <<swept, given>>
              PROVE  Sweep!SweepNext
  OBVIOUS
<1>0. ReadInv /\ BatchInv /\ GivenInv /\ BatchInv' /\ GivenInv'
  BY DEF PagerInv
<1>1. Emit \/ MoveOn
  BY DEF Next, Step, BudgetRunsOut, PlanBatch, FetchPage, Reject, AllResolved, vars
<1>2. CASE Emit
  BY <1>0, <1>2 DEF Emit, GivenInv, Sweep!SweepNext, Sweep!Hand
<1>3. CASE MoveOn
  <2>1. /\ phase = "emit" /\ Upcoming = swept + 1 /\ given' = given
        /\ swept' = EndOf(swept + 1) /\ swept + 1 < next /\ next <= EndLedger + 1
    BY <1>0, <1>3, UpcomingIsNext DEF MoveOn, BatchInv
  <2>2. swept < swept' /\ swept' <= EndLedger
    BY <1>0, <2>1, ConstantTypes DEF EndOf, Minimum, BatchInv
  <2>. QED
    BY <1>0, <2>1, <2>2 DEF GivenInv, Sweep!SweepNext, Sweep!MoveTo
<1>. QED
  BY <1>1, <1>2, <1>3

(* Both sweeps implement LedgerSweep, however their fetches are interleaved, *)
(* wherever the budget stops them and whichever of them fails.             *)
THEOREM SweepRefined == PagerAssumption => (Spec => ImplementsSweep)
<1>. SUFFICES ASSUME PagerAssumption
              PROVE  Spec => ImplementsSweep
  OBVIOUS
<1>1. Init => PagerInv /\ Sweep!SweepInit
  BY InitInv DEF Init, Sweep!SweepInit
<1>2. PagerInv /\ [Next]_vars => PagerInv'
  BY StepInv
<1>3. PagerInv /\ PagerInv' /\ [Next]_vars => [Sweep!SweepNext]_<<swept, given>>
  BY StepSweeps
<1>. QED
  BY <1>1, <1>2, <1>3, PTL DEF Spec, ImplementsSweep, Sweep!SweepSpec

-----------------------------------------------------------------------------
(* Receipt trees of any size.  What is said of every level of a tree, or of *)
(* every hash of a proof, goes from one to the next: CountUp is induction   *)
(* over a set, Iterates that a function defined from the number before      *)
(* exists.                                                                  *)

(* A set with 0 that has the successor of each of its numbers has them all. *)
LEMMA CountUp ==
  ASSUME NEW T, 0 \in T, \A n \in Nat : n \in T => n + 1 \in T
  PROVE  \A n \in Nat : n \in T
<1>. SUFFICES ASSUME NEW m \in Nat, m \notin T PROVE FALSE
  OBVIOUS
<1>. DEFINE Missing == {n \in Nat : n \notin T}
<1>1. PICK x \in Missing : \A y \in Missing : x <= y
  <2>1. Missing \subseteq Nat /\ Missing # {}
    OBVIOUS
  <2>. QED BY <2>1, LeastElement
<1>2. x \in Nat /\ x # 0
  OBVIOUS
<1>3. x - 1 \in Nat /\ x - 1 \in T
  BY <1>1, <1>2
<1>. QED BY <1>2, <1>3

Iterated(f, n, a, G) == f[0] = a /\ \A k \in 1 .. n : f[k] = G[k][f[k - 1]]

(* A function that is given at 0, and at each number up to n by its value   *)
(* at the one before, exists.                                               *)
LEMMA Iterates ==
  ASSUME NEW S, NEW a \in S, NEW G \in [Nat -> [S -> S]], NEW n \in Nat
  PROVE  \E f \in [0 .. n -> S] : Iterated(f, n, a, G)
<1>. DEFINE T == {m \in Nat : \E f \in [0 .. m -> S] :
                    f[0] = a /\ \A k \in 1 .. m : f[k] = G[k][f[k - 1]]}
<1>1. 0 \in T
  <2>. DEFINE f == [k \in 0 .. 0 |-> a]
  <2>1. f \in [0 .. 0 -> S] /\ f[0] = a /\ \A k \in 1 .. 0 : f[k] = G[k][f[k - 1]]
    OBVIOUS
  <2>. QED BY <2>1
<1>2. ASSUME NEW m \in Nat, m \in T PROVE m + 1 \in T
  <2>1. PICK f \in [0 .. m -> S] : f[0] = a /\ \A k \in 1 .. m : f[k] = G[k][f[k - 1]]
    BY <1>2
  <2>. DEFINE g == [k \in 0 .. m + 1 |-> IF k = m + 1 THEN G[m + 1][f[m]] ELSE f[k]]
  <2>2. g \in [0 .. m + 1 -> S]
    <3>1. f[m] \in S /\ G[m + 1][f[m]] \in S
      OBVIOUS
    <3>2. \A k \in 0 .. m + 1 : k = m + 1 \/ k \in 0 .. m
      OBVIOUS
    <3>. QED BY <3>1, <3>2
  <2>3. g[0] = a
    BY <2>1
  <2>4. ASSUME NEW k \in 1 .. m + 1 PROVE g[k] = G[k][g[k - 1]]
    <3>1. k - 1 \in 0 .. m /\ g[k - 1] = f[k - 1]
      OBVIOUS
    <3>2. CASE k = m + 1
      BY <3>1, <3>2
    <3>3. CASE k # m + 1
      BY <2>1, <3>1, <3>3
    <3>. QED BY <3>2, <3>3
  <2>. HIDE DEF g
  <2>5. m + 1 \in Nat
    OBVIOUS
  <2>. QED BY <2>2, <2>3, <2>4, <2>5
<1>. HIDE DEF T
<1>3. n \in T
  BY <1>1, <1>2, CountUp
<1>. QED BY <1>3 DEF T, Iterated

LEMMA CombineType ==
  ASSUME MerkleAssumption, NEW a \in Nat, NEW b \in Nat
  PROVE  /\ Combine(a, b) \in Nat /\ Combine(a, b) >= Leaves
         /\ Combine(a, b) = Combine(b, a)
<1>1. \A h \in Nat : (h * (h + 1)) \div 2 \in Nat
  OBVIOUS
<1>2. a <= b \/ b <= a
  OBVIOUS
<1>. QED BY <1>1 DEF Combine, MerkleAssumption

(* The triangular numbers grow by more than what is added to them.          *)
LEMMA Triangles ==
  ASSUME NEW h \in Nat, NEW g \in Nat, h < g
  PROVE  (h * (h + 1)) \div 2 + h < (g * (g + 1)) \div 2
<1>1. (h + 1) * (h + 2) <= g * (g + 1)
  OBVIOUS
<1>2. (h + 1) * (h + 2) = h * (h + 1) + 2 * (h + 1)
  OBVIOUS
<1>3. \A x, y \in Nat : x + 2 * (h + 1) <= y => x \div 2 + (h + 1) <= y \div 2
  OBVIOUS
<1>4. h * (h + 1) \in Nat /\ g * (g + 1) \in Nat
  OBVIOUS
<1>5. (h * (h + 1)) \div 2 + (h + 1) <= (g * (g + 1)) \div 2
  BY <1>1, <1>2, <1>3, <1>4
<1>6. \A z \in Nat : z \div 2 \in Nat
  OBVIOUS
<1>. QED BY <1>4, <1>5, <1>6

(* Two pairs of hashes that combine to the same are the same pair.          *)
LEMMA CombineInjective ==
  ASSUME MerkleAssumption, NEW a \in Nat, NEW b \in Nat, NEW c \in Nat, NEW d \in Nat,
         Combine(a, b) = Combine(c, d)
  PROVE  (a = c /\ b = d) \/ (a = d /\ b = c)
<1>. DEFINE tri(h) == (h * (h + 1)) \div 2
            lo(x, y) == IF x <= y THEN x ELSE y
            hi(x, y) == IF x <= y THEN y ELSE x
<1>1. \A h \in Nat : tri(h) \in Nat
  OBVIOUS
<1>2. \A h, g \in Nat : h < g => tri(h) + h < tri(g)
  BY Triangles
<1>3. tri(hi(a, b)) + lo(a, b) = tri(hi(c, d)) + lo(c, d)
  BY <1>1 DEF Combine, MerkleAssumption
<1>4. /\ hi(a, b) \in Nat /\ lo(a, b) \in Nat /\ lo(a, b) <= hi(a, b)
      /\ hi(c, d) \in Nat /\ lo(c, d) \in Nat /\ lo(c, d) <= hi(c, d)
  OBVIOUS
<1>. HIDE DEF tri
<1>5. ~(hi(a, b) < hi(c, d)) /\ ~(hi(c, d) < hi(a, b))
  BY <1>1, <1>2, <1>3, <1>4
<1>6. hi(a, b) = hi(c, d)
  BY <1>4, <1>5
<1>7. lo(a, b) = lo(c, d)
  BY <1>1, <1>3, <1>4, <1>6
<1>. QED BY <1>6, <1>7

(* The level above a level of hashes is one of half as many, rounded up.    *)
LEMMA LevelAboveType ==
  ASSUME MerkleAssumption, NEW level \in Seq(Nat)
  PROVE  /\ LevelAbove(level) \in Seq(Nat)
         /\ Len(LevelAbove(level)) = (Len(level) + 1) \div 2
         /\ \A i \in 1 .. Len(LevelAbove(level)) :
              /\ 2 * i - 1 \in 1 .. Len(level)
              /\ 2 * i <= Len(level) => 2 * i \in 1 .. Len(level)
              /\ LevelAbove(level)[i] = IF 2 * i <= Len(level)
                                        THEN Combine(level[2 * i - 1], level[2 * i])
                                        ELSE level[2 * i - 1]
<1>. DEFINE half == (Len(level) + 1) \div 2
            At(i) == IF 2 * i <= Len(level) THEN Combine(level[2 * i - 1], level[2 * i])
                                            ELSE level[2 * i - 1]
<1>1. half \in Nat /\ \A i \in 1 .. half :
        2 * i - 1 \in 1 .. Len(level) /\ (2 * i <= Len(level) => 2 * i \in 1 .. Len(level))
  OBVIOUS
<1>2. \A i \in 1 .. half : At(i) \in Nat
  <2>. TAKE i \in 1 .. half
  <2>1. level[2 * i - 1] \in Nat
    BY <1>1
  <2>2. CASE 2 * i <= Len(level)
    <3>1. level[2 * i] \in Nat
      BY <1>1, <2>2
    <3>. QED BY <2>1, <2>2, <3>1, CombineType
  <2>3. CASE ~(2 * i <= Len(level))
    BY <2>1, <2>3
  <2>. QED BY <2>2, <2>3
<1>3. LevelAbove(level) = [i \in 1 .. half |-> At(i)]
  BY DEF LevelAbove
<1>. HIDE DEF half, At
<1>4. LevelAbove(level) \in Seq(Nat) /\ Len(LevelAbove(level)) = half
  BY <1>1, <1>2, <1>3, IsASeq
<1>5. \A i \in 1 .. half : LevelAbove(level)[i] = At(i)
  BY <1>3
<1>. QED BY <1>1, <1>4, <1>5 DEF half, At

(* The levels, one above the other.                                         *)
LEMMA LevelsType ==
  ASSUME MerkleAssumption, NEW leaves \in Seq(Nat)
  PROVE  /\ LevelsOf(leaves) \in [0 .. Len(leaves) -> Seq(Nat)]
         /\ LevelsOf(leaves)[0] = leaves
         /\ \A k \in 1 .. Len(leaves) :
              LevelsOf(leaves)[k] = LevelAbove(LevelsOf(leaves)[k - 1])
<1>. DEFINE n == Len(leaves)
            S == Seq(Nat)
            G == [k \in Nat |-> [s \in S |-> LevelAbove(s)]]
            g == LevelsOf(leaves)
<1>1. G \in [Nat -> [S -> S]] /\ n \in Nat /\ leaves \in S /\ \A s \in S : LevelAbove(s) \in S
  BY LevelAboveType
<1>2. \A k \in Nat, s \in S : G[k][s] = LevelAbove(s)
  OBVIOUS
<1>. HIDE DEF G, S, n
<1>3. PICK f \in [0 .. n -> S] : Iterated(f, n, leaves, G)
  BY <1>1, Iterates
<1>4. f = [k \in 0 .. n |-> IF k = 0 THEN leaves ELSE LevelAbove(f[k - 1])]
  <2>1. \A k \in 0 .. n : f[k] = IF k = 0 THEN leaves ELSE G[k][f[k - 1]]
    BY <1>1, <1>3 DEF Iterated
  <2>2. \A k \in 0 .. n : k # 0 => k \in Nat /\ f[k - 1] \in S
    BY <1>1
  <2>3. \A k \in 0 .. n : f[k] = IF k = 0 THEN leaves ELSE LevelAbove(f[k - 1])
    BY <1>2, <2>1, <2>2
  <2>. QED BY <2>3
<1>5. g = [k \in 0 .. n |-> IF k = 0 THEN leaves ELSE LevelAbove(g[k - 1])]
  BY <1>4 DEF LevelsOf, n
<1>. HIDE DEF g
<1>6. \A k \in 0 .. n : g[k] = IF k = 0 THEN leaves ELSE LevelAbove(g[k - 1])
  BY <1>5
<1>. DEFINE T == {k \in Nat : k \in 0 .. n => g[k] \in S}
<1>7. \A k \in Nat : k \in T
  <2>1. 0 \in T
    BY <1>1, <1>6
  <2>2. ASSUME NEW k \in Nat, k \in T PROVE k + 1 \in T
    <3>1. k + 1 \in 0 .. n => g[k + 1] = LevelAbove(g[k]) /\ g[k] \in S
      BY <1>1, <1>6, <2>2
    <3>. QED BY <1>1, <3>1
  <2>. HIDE DEF T
  <2>. QED BY <2>1, <2>2, CountUp
<1>8. g \in [0 .. n -> S]
  <2>1. \A k \in 0 .. n : g[k] \in S
    BY <1>1, <1>7
  <2>2. DOMAIN g = 0 .. n /\ g = [k \in DOMAIN g |-> g[k]]
    BY <1>5
  <2>. QED BY <2>1, <2>2
<1>9. g[0] = leaves /\ \A k \in 1 .. n : g[k] = LevelAbove(g[k - 1])
  BY <1>1, <1>6
<1>. QED BY <1>8, <1>9 DEF g, n, S

(* The last level is the root alone.                                        *)
LEMMA RootAlone ==
  ASSUME MerkleAssumption, NEW leaves \in Seq(Nat), leaves # <<>>
  PROVE  Len(LevelsOf(leaves)[Len(leaves)]) = 1
<1>. DEFINE n == Len(leaves)
            g == LevelsOf(leaves)
            T == {k \in Nat : k \in 0 .. n =>
                    /\ Len(g[k]) >= 1
                    /\ Len(g[k]) = 1 \/ Len(g[k]) <= n - k}
<1>1. n \in Nat /\ n >= 1
  BY EmptySeq
<1>2. /\ g \in [0 .. n -> Seq(Nat)] /\ g[0] = leaves
      /\ \A k \in 1 .. n : g[k] = LevelAbove(g[k - 1])
  BY LevelsType
<1>. HIDE DEF g, n
<1>3. 0 \in T
  BY <1>1, <1>2 DEF n
<1>4. ASSUME NEW k \in Nat, k \in T PROVE k + 1 \in T
  <2>. SUFFICES ASSUME k + 1 \in 0 .. n
       PROVE  Len(g[k + 1]) >= 1 /\ (Len(g[k + 1]) = 1 \/ Len(g[k + 1]) <= n - (k + 1))
    OBVIOUS
  <2>1. k \in 0 .. n /\ k + 1 \in 1 .. n
    BY <1>1
  <2>2. g[k] \in Seq(Nat) /\ g[k + 1] = LevelAbove(g[k])
    BY <1>2, <2>1
  <2>3. Len(g[k + 1]) = (Len(g[k]) + 1) \div 2 /\ Len(g[k]) \in Nat
    <3>. DEFINE s == g[k]
    <3>1. s \in Seq(Nat)
      BY <2>2
    <3>. HIDE DEF s
    <3>2. Len(LevelAbove(s)) = (Len(s) + 1) \div 2 /\ Len(s) \in Nat
      BY <3>1, LevelAboveType
    <3>. QED BY <2>2, <3>2 DEF s
  <2>4. Len(g[k]) >= 1 /\ (Len(g[k]) = 1 \/ Len(g[k]) <= n - k)
    BY <1>4, <2>1
  <2>5. \A x \in Nat : x >= 1 /\ (x = 1 \/ x <= n - k) =>
          (x + 1) \div 2 >= 1 /\ ((x + 1) \div 2 = 1 \/ (x + 1) \div 2 <= n - (k + 1))
    BY <1>1
  <2>. QED BY <2>3, <2>4, <2>5
<1>5. n \in T
  <2>. HIDE DEF T
  <2>. QED BY <1>1, <1>3, <1>4, CountUp
<1>6. Len(g[n]) >= 1 /\ (Len(g[n]) = 1 \/ Len(g[n]) <= 0) /\ Len(g[n]) \in Nat
  BY <1>1, <1>2, <1>5
<1>7. Len(g[n]) = 1
  BY <1>6
<1>. QED BY <1>7 DEF g, n

(* The hashes a verifier goes through, one from the other.                  *)
LEMMA ClimbType ==
  ASSUME MerkleAssumption, NEW leaf \in Nat, NEW proof \in Seq(Nat)
  PROVE  /\ Climb(leaf, proof) \in [0 .. Len(proof) -> Nat]
         /\ Climb(leaf, proof)[0] = leaf
         /\ \A k \in 1 .. Len(proof) :
              Climb(leaf, proof)[k] = Combine(Climb(leaf, proof)[k - 1], proof[k])
<1>. DEFINE n == Len(proof)
            At(k) == proof[k]
            G == [k \in Nat |-> [c \in Nat |-> IF k \in 1 .. n THEN Combine(c, At(k)) ELSE 0]]
            g == Climb(leaf, proof)
<1>1. n \in Nat /\ \A k \in 1 .. n : At(k) \in Nat
  OBVIOUS
<1>. HIDE DEF At, n
<1>2. \A k \in 1 .. n, c \in Nat : Combine(c, At(k)) \in Nat
  BY <1>1, CombineType
<1>3. G \in [Nat -> [Nat -> Nat]]
  BY <1>2
<1>4. \A k \in 1 .. n, c \in Nat : G[k][c] = Combine(c, At(k))
  BY <1>1
<1>. HIDE DEF G
<1>5. PICK f \in [0 .. n -> Nat] : Iterated(f, n, leaf, G)
  BY <1>1, <1>3, Iterates
<1>6. f = [k \in 0 .. n |-> IF k = 0 THEN leaf ELSE Combine(f[k - 1], At(k))]
  <2>1. \A k \in 0 .. n : k # 0 => k \in 1 .. n /\ f[k - 1] \in Nat
    BY <1>1
  <2>2. \A k \in 0 .. n : f[k] = IF k = 0 THEN leaf ELSE Combine(f[k - 1], At(k))
    BY <1>4, <1>5, <2>1 DEF Iterated
  <2>. QED BY <2>2
<1>7. g = [k \in 0 .. n |-> IF k = 0 THEN leaf ELSE Combine(g[k - 1], At(k))]
  BY <1>6 DEF Climb, n, At
<1>. HIDE DEF g
<1>8. \A k \in 0 .. n : g[k] = IF k = 0 THEN leaf ELSE Combine(g[k - 1], At(k))
  BY <1>7
<1>. DEFINE T == {k \in Nat : k \in 0 .. n => g[k] \in Nat}
<1>9. \A k \in Nat : k \in T
  <2>1. 0 \in T
    BY <1>1, <1>8
  <2>2. ASSUME NEW k \in Nat, k \in T PROVE k + 1 \in T
    <3>. SUFFICES ASSUME k + 1 \in 0 .. n PROVE g[k + 1] \in Nat
      OBVIOUS
    <3>1. k + 1 \in 1 .. n /\ k \in 0 .. n /\ k + 1 # 0 /\ (k + 1) - 1 = k
      BY <1>1
    <3>2. g[k + 1] = Combine(g[k], At(k + 1)) /\ g[k] \in Nat
      BY <1>8, <2>2, <3>1
    <3>3. Combine(g[k], At(k + 1)) \in Nat
      BY <1>2, <3>1, <3>2
    <3>. QED BY <3>2, <3>3
  <2>. HIDE DEF T
  <2>. QED BY <2>1, <2>2, CountUp
<1>10. g \in [0 .. n -> Nat]
  <2>1. \A k \in 0 .. n : g[k] \in Nat
    BY <1>1, <1>9
  <2>2. DOMAIN g = 0 .. n /\ g = [k \in DOMAIN g |-> g[k]]
    BY <1>7
  <2>. QED BY <2>1, <2>2
<1>11. g[0] = leaf /\ \A k \in 1 .. n : g[k] = Combine(g[k - 1], At(k))
  BY <1>1, <1>8
<1>. QED BY <1>10, <1>11 DEF g, n, At

(* Two leaves the same proof leads to the same root are one.                *)
LEMMA ClimbInjective ==
  ASSUME MerkleAssumption, NEW a \in Nat, NEW b \in Nat, NEW proof \in Seq(Nat),
         Climb(a, proof)[Len(proof)] = Climb(b, proof)[Len(proof)]
  PROVE  a = b
<1>. DEFINE n == Len(proof)
            f == Climb(a, proof)
            g == Climb(b, proof)
            At(k) == proof[k]
            T == {k \in Nat : k \in 0 .. n => f[n - k] = g[n - k]}
<1>1. n \in Nat /\ \A k \in 1 .. n : At(k) \in Nat
  OBVIOUS
<1>2. /\ f \in [0 .. n -> Nat] /\ f[0] = a /\ \A k \in 1 .. n : f[k] = Combine(f[k - 1], At(k))
      /\ g \in [0 .. n -> Nat] /\ g[0] = b /\ \A k \in 1 .. n : g[k] = Combine(g[k - 1], At(k))
      /\ f[n] = g[n]
  BY ClimbType
<1>. HIDE DEF n, f, g, At
<1>3. 0 \in T
  BY <1>1, <1>2
<1>4. ASSUME NEW k \in Nat, k \in T PROVE k + 1 \in T
  <2>. SUFFICES ASSUME k + 1 \in 0 .. n PROVE f[n - (k + 1)] = g[n - (k + 1)]
    OBVIOUS
  <2>. DEFINE m == n - k
  <2>1. m \in 1 .. n /\ k \in 0 .. n /\ m - 1 = n - (k + 1) /\ m - 1 \in 0 .. n
    BY <1>1
  <2>2. f[m] = g[m]
    BY <1>4, <2>1
  <2>. HIDE DEF m
  <2>3. Combine(f[m - 1], At(m)) = Combine(g[m - 1], At(m))
    BY <1>2, <2>1, <2>2
  <2>4. f[m - 1] \in Nat /\ g[m - 1] \in Nat /\ At(m) \in Nat
    BY <1>1, <1>2, <2>1
  <2>5. f[m - 1] = g[m - 1]
    BY <2>3, <2>4, CombineInjective
  <2>. QED BY <2>1, <2>5
<1>5. n \in T
  <2>. HIDE DEF T
  <2>. QED BY <1>1, <1>3, <1>4, CountUp
<1>. QED BY <1>1, <1>2, <1>5

(* A proof that goes on from another goes through its hashes first.         *)
LEMMA ClimbOn ==
  ASSUME MerkleAssumption, NEW leaf \in Nat, NEW p \in Seq(Nat), NEW h \in Nat
  PROVE  /\ p \o <<h>> \in Seq(Nat)
         /\ Climb(leaf, p \o <<h>>)[Len(p \o <<h>>)] = Combine(Climb(leaf, p)[Len(p)], h)
<1>. DEFINE n == Len(p)
            q == p \o <<h>>
            f == Climb(leaf, p)
            g == Climb(leaf, q)
            T == {k \in Nat : k \in 0 .. n => f[k] = g[k]}
<1>1. /\ n \in Nat /\ q \in Seq(Nat) /\ Len(q) = n + 1 /\ q[n + 1] = h
      /\ \A k \in 1 .. n : q[k] = p[k]
  OBVIOUS
<1>2. /\ f \in [0 .. n -> Nat] /\ f[0] = leaf /\ \A k \in 1 .. n : f[k] = Combine(f[k - 1], p[k])
      /\ g \in [0 .. Len(q) -> Nat] /\ g[0] = leaf
      /\ \A k \in 1 .. Len(q) : g[k] = Combine(g[k - 1], q[k])
  BY <1>1, ClimbType
<1>. HIDE DEF n, f, g, q
<1>3. /\ \A k \in 1 .. n : f[k] = Combine(f[k - 1], q[k]) /\ g[k] = Combine(g[k - 1], q[k])
      /\ g[n + 1] = Combine(g[n], h)
  <2>1. \A k \in 1 .. n : k \in 1 .. Len(q) /\ q[k] = p[k]
    BY <1>1
  <2>2. n + 1 \in 1 .. Len(q) /\ (n + 1) - 1 = n /\ q[n + 1] = h
    BY <1>1
  <2>3. g[n + 1] = Combine(g[n], h)
    BY <1>2, <2>2
  <2>. QED BY <1>2, <2>1, <2>3
<1>4. 0 \in T
  BY <1>2
<1>5. ASSUME NEW k \in Nat, k \in T PROVE k + 1 \in T
  <2>1. k + 1 \in 0 .. n => k + 1 \in 1 .. n /\ k \in 0 .. n /\ (k + 1) - 1 = k
    BY <1>1
  <2>. QED BY <1>3, <1>5, <2>1
<1>6. n \in T
  <2>. HIDE DEF T
  <2>. QED BY <1>1, <1>4, <1>5, CountUp
<1>7. g[Len(q)] = Combine(f[n], h)
  BY <1>1, <1>3, <1>6
<1>. QED BY <1>1, <1>7 DEF n, f, g, q

(* Where a leaf has got to, level by level.                                 *)
LEMMA PlacesType ==
  ASSUME NEW n \in Nat, NEW index \in Nat \ {0}
  PROVE  /\ PlacesOf(n, index) \in [0 .. n -> Nat]
         /\ PlacesOf(n, index)[0] = index - 1
         /\ \A k \in 1 .. n : PlacesOf(n, index)[k] = PlacesOf(n, index)[k - 1] \div 2
<1>. DEFINE G == [k \in Nat |-> [i \in Nat |-> i \div 2]]
            g == PlacesOf(n, index)
<1>1. G \in [Nat -> [Nat -> Nat]] /\ index - 1 \in Nat
  OBVIOUS
<1>2. \A k, i \in Nat : G[k][i] = i \div 2
  OBVIOUS
<1>. HIDE DEF G
<1>3. PICK f \in [0 .. n -> Nat] : Iterated(f, n, index - 1, G)
  BY <1>1, Iterates
<1>4. f = [k \in 0 .. n |-> IF k = 0 THEN index - 1 ELSE f[k - 1] \div 2]
  <2>1. \A k \in 0 .. n : k # 0 => k \in 1 .. n /\ f[k - 1] \in Nat
    OBVIOUS
  <2>2. ASSUME NEW k \in 0 .. n, k # 0 PROVE f[k] = f[k - 1] \div 2
    <3>1. f[k] = G[k][f[k - 1]] /\ k \in Nat /\ f[k - 1] \in Nat
      BY <1>3, <2>1, <2>2 DEF Iterated
    <3>. QED BY <1>2, <3>1
  <2>3. f[0] = index - 1
    BY <1>3 DEF Iterated
  <2>. QED BY <2>2, <2>3
<1>5. g = [k \in 0 .. n |-> IF k = 0 THEN index - 1 ELSE g[k - 1] \div 2]
  BY <1>4 DEF PlacesOf
<1>. HIDE DEF g
<1>6. \A k \in 0 .. n : g[k] = IF k = 0 THEN index - 1 ELSE g[k - 1] \div 2
  BY <1>5
<1>. DEFINE T == {k \in Nat : k \in 0 .. n => g[k] \in Nat}
<1>7. \A k \in Nat : k \in T
  <2>1. 0 \in T
    BY <1>6
  <2>2. ASSUME NEW k \in Nat, k \in T PROVE k + 1 \in T
    <3>. SUFFICES ASSUME k + 1 \in 0 .. n PROVE g[k + 1] \in Nat
      OBVIOUS
    <3>1. k \in 0 .. n /\ k + 1 # 0 /\ (k + 1) - 1 = k
      OBVIOUS
    <3>2. g[k + 1] = g[k] \div 2 /\ g[k] \in Nat
      BY <1>6, <2>2, <3>1
    <3>. QED BY <3>2
  <2>. HIDE DEF T
  <2>. QED BY <2>1, <2>2, CountUp
<1>8. g \in [0 .. n -> Nat]
  <2>1. \A k \in 0 .. n : g[k] \in Nat
    BY <1>7
  <2>2. DOMAIN g = 0 .. n /\ g = [k \in DOMAIN g |-> g[k]]
    BY <1>5
  <2>. QED BY <2>1, <2>2
<1>9. g[0] = index - 1 /\ \A k \in 1 .. n : g[k] = g[k - 1] \div 2
  BY <1>6
<1>. QED BY <1>8, <1>9 DEF g

(* One level up: a node is promoted and adds nothing to the proof, or is    *)
(* combined with the sibling the proof gets.                                *)
LEMMA OneLevelUp ==
  ASSUME MerkleAssumption, NEW s \in Seq(Nat), NEW i \in 0 .. Len(s) - 1
  PROVE  /\ i \div 2 \in 0 .. Len(LevelAbove(s)) - 1
         /\ \/ /\ SiblingAt(s, i) = <<>>
               /\ LevelAbove(s)[i \div 2 + 1] = s[i + 1]
            \/ \E h \in Nat : /\ SiblingAt(s, i) = <<h>>
                              /\ LevelAbove(s)[i \div 2 + 1] = Combine(s[i + 1], h)
<1>. DEFINE j == i \div 2 + 1
            up == LevelAbove(s)
<1>1. Len(s) \in Nat /\ i \in Nat /\ i + 1 \in 1 .. Len(s)
  OBVIOUS
<1>2. Len(up) = (Len(s) + 1) \div 2
  BY LevelAboveType
<1>3. i \div 2 \in 0 .. Len(up) - 1 /\ j \in 1 .. Len(up)
  BY <1>1, <1>2
<1>4. up[j] = IF 2 * j <= Len(s) THEN Combine(s[2 * j - 1], s[2 * j]) ELSE s[2 * j - 1]
  BY <1>3, LevelAboveType
<1>. HIDE DEF up
<1>5. CASE i % 2 = 0
  <2>1. 2 * j - 1 = i + 1 /\ 2 * j = i + 2 /\ Beside(i) = i + 1
    BY <1>1, <1>5 DEF Beside
  <2>2. CASE i + 1 < Len(s)
    <3>1. s[i + 2] \in Nat /\ SiblingAt(s, i) = <<s[i + 2]>>
      BY <1>1, <2>1, <2>2 DEF SiblingAt
    <3>2. up[j] = Combine(s[i + 1], s[i + 2])
      BY <1>1, <1>4, <2>1, <2>2
    <3>. QED BY <1>3, <3>1, <3>2 DEF up
  <2>3. CASE ~(i + 1 < Len(s))
    <3>1. SiblingAt(s, i) = <<>>
      BY <2>1, <2>3 DEF SiblingAt
    <3>2. up[j] = s[i + 1]
      BY <1>1, <1>4, <2>1, <2>3
    <3>. QED BY <1>3, <3>1, <3>2 DEF up
  <2>. QED BY <2>2, <2>3
<1>6. CASE i % 2 # 0
  <2>1. /\ 2 * j - 1 = i /\ 2 * j = i + 1 /\ Beside(i) = i - 1
        /\ i \in 1 .. Len(s) /\ i - 1 < Len(s) /\ (i - 1) + 1 = i
    BY <1>1, <1>6 DEF Beside
  <2>2. s[i] \in Nat /\ s[i + 1] \in Nat /\ SiblingAt(s, i) = <<s[i]>>
    BY <1>1, <2>1 DEF SiblingAt
  <2>3. up[j] = Combine(s[i], s[i + 1])
    BY <1>1, <1>4, <2>1
  <2>4. up[j] = Combine(s[i + 1], s[i])
    BY <2>2, <2>3, CombineType
  <2>. QED BY <1>3, <2>2, <2>4 DEF up
<1>. QED BY <1>5, <1>6

(* The proof grows by what each level adds to it.                           *)
LEMMA ProofsType ==
  ASSUME MerkleAssumption, NEW leaves \in Seq(Nat), NEW index \in Nat \ {0}
  PROVE  /\ ProofsOf(leaves, index) \in [0 .. Len(leaves) -> Seq(Nat)]
         /\ ProofsOf(leaves, index)[0] = <<>>
         /\ \A k \in 1 .. Len(leaves) :
              ProofsOf(leaves, index)[k] =
                ProofsOf(leaves, index)[k - 1]
                  \o SiblingAt(LevelsOf(leaves)[k - 1], PlacesOf(Len(leaves), index)[k - 1])
<1>. DEFINE n == Len(leaves)
            S == Seq(Nat)
            Sib(k) == SiblingAt(LevelsOf(leaves)[k], PlacesOf(n, index)[k])
            G == [k \in Nat |-> [p \in S |-> IF k \in 1 .. n THEN p \o Sib(k - 1) ELSE p]]
            g == ProofsOf(leaves, index)
<1>1. n \in Nat /\ <<>> \in S
  OBVIOUS
<1>2. \A k \in 1 .. n : Sib(k - 1) \in S
  <2>. TAKE k \in 1 .. n
  <2>. DEFINE s == LevelsOf(leaves)[k - 1]
              i == PlacesOf(n, index)[k - 1]
  <2>1. k - 1 \in 0 .. n
    BY <1>1
  <2>2. s \in Seq(Nat) /\ i \in Nat
    <3>1. LevelsOf(leaves) \in [0 .. n -> Seq(Nat)]
      BY LevelsType
    <3>2. PlacesOf(n, index) \in [0 .. n -> Nat]
      BY <1>1, PlacesType
    <3>. QED BY <2>1, <3>1, <3>2
  <2>. HIDE DEF s, i
  <2>3. SiblingAt(s, i) \in Seq(Nat)
    <3>1. CASE Beside(i) < Len(s)
      <4>1. Beside(i) + 1 \in 1 .. Len(s)
        BY <2>2, <3>1 DEF Beside
      <4>. QED BY <2>2, <3>1, <4>1 DEF SiblingAt
    <3>2. CASE ~(Beside(i) < Len(s))
      BY <3>2 DEF SiblingAt
    <3>. QED BY <3>1, <3>2
  <2>. QED BY <2>3 DEF s, i
<1>3. \A p, q \in S : p \o q \in S
  OBVIOUS
<1>. HIDE DEF S, Sib, n
<1>4. G \in [Nat -> [S -> S]]
  BY <1>2, <1>3
<1>5. \A k \in 1 .. n, p \in S : G[k][p] = p \o Sib(k - 1)
  BY <1>1
<1>. HIDE DEF G
<1>6. PICK f \in [0 .. n -> S] : Iterated(f, n, <<>>, G)
  BY <1>1, <1>4, Iterates
<1>7. f = [k \in 0 .. n |-> IF k = 0 THEN <<>> ELSE f[k - 1] \o Sib(k - 1)]
  <2>1. ASSUME NEW k \in 0 .. n, k # 0 PROVE f[k] = f[k - 1] \o Sib(k - 1)
    <3>1. k \in 1 .. n /\ f[k - 1] \in S
      BY <1>1, <2>1
    <3>. QED BY <1>5, <1>6, <3>1 DEF Iterated
  <2>2. f[0] = <<>>
    BY <1>6 DEF Iterated
  <2>. QED BY <2>1, <2>2
<1>8. g = [k \in 0 .. n |-> IF k = 0 THEN <<>> ELSE g[k - 1] \o Sib(k - 1)]
  BY <1>7 DEF ProofsOf, n, Sib
<1>. HIDE DEF g
<1>9. \A k \in 0 .. n : g[k] = IF k = 0 THEN <<>> ELSE g[k - 1] \o Sib(k - 1)
  BY <1>8
<1>. DEFINE T == {k \in Nat : k \in 0 .. n => g[k] \in S}
<1>10. \A k \in Nat : k \in T
  <2>1. 0 \in T
    BY <1>1, <1>9
  <2>2. ASSUME NEW k \in Nat, k \in T PROVE k + 1 \in T
    <3>. SUFFICES ASSUME k + 1 \in 0 .. n PROVE g[k + 1] \in S
      OBVIOUS
    <3>1. k + 1 \in 1 .. n /\ k \in 0 .. n /\ k + 1 # 0 /\ (k + 1) - 1 = k
      BY <1>1
    <3>2. g[k + 1] = g[k] \o Sib(k) /\ g[k] \in S
      BY <1>9, <2>2, <3>1
    <3>3. Sib(k) \in S
      BY <1>2, <3>1
    <3>. QED BY <1>3, <3>2, <3>3
  <2>. HIDE DEF T
  <2>. QED BY <2>1, <2>2, CountUp
<1>11. g \in [0 .. n -> S]
  <2>1. \A k \in 0 .. n : g[k] \in S
    BY <1>1, <1>10
  <2>2. DOMAIN g = 0 .. n /\ g = [k \in DOMAIN g |-> g[k]]
    BY <1>8
  <2>. QED BY <2>1, <2>2
<1>12. g[0] = <<>> /\ \A k \in 1 .. n : g[k] = g[k - 1] \o Sib(k - 1)
  <2>1. 0 \in 0 .. n /\ \A k \in 1 .. n : k \in 0 .. n /\ k # 0
    BY <1>1
  <2>. QED BY <1>9, <2>1
<1>. QED BY <1>11, <1>12 DEF g, n, S, Sib

(* Each leaf's proof leads from it to the root, for trees of any size: level *)
(* by level the verifier has the node the leaf has got to.                  *)
THEOREM ProofsVerify ==
  ASSUME MerkleAssumption, NEW leaves \in Seq(Nat), NEW index \in 1 .. Len(leaves)
  PROVE  /\ ProofOf(leaves, index) \in Seq(Nat)
         /\ VerifyReceipt(leaves[index], ProofOf(leaves, index), RootOf(leaves))
<1>. DEFINE n == Len(leaves)
            leaf == leaves[index]
            level == LevelsOf(leaves)
            place == PlacesOf(n, index)
            proof == ProofsOf(leaves, index)
            Reached(p) == Climb(leaf, p)[Len(p)]
            T == {k \in Nat : k \in 0 .. n =>
                    /\ place[k] \in 0 .. Len(level[k]) - 1
                    /\ Reached(proof[k]) = level[k][place[k] + 1]}
<1>1. n \in Nat /\ n >= 1 /\ index \in Nat \ {0} /\ leaf \in Nat /\ leaves # <<>>
  OBVIOUS
<1>2. /\ level \in [0 .. n -> Seq(Nat)] /\ level[0] = leaves
      /\ \A k \in 1 .. n : level[k] = LevelAbove(level[k - 1])
  BY LevelsType
<1>3. /\ place \in [0 .. n -> Nat] /\ place[0] = index - 1
      /\ \A k \in 1 .. n : place[k] = place[k - 1] \div 2
  BY <1>1, PlacesType
<1>4. /\ proof \in [0 .. n -> Seq(Nat)] /\ proof[0] = <<>>
      /\ \A k \in 1 .. n : proof[k] = proof[k - 1] \o SiblingAt(level[k - 1], place[k - 1])
  BY <1>1, ProofsType
<1>5. Len(level[n]) = 1
  BY <1>1, RootAlone
<1>6. 0 \in T
  <2>1. place[0] \in 0 .. Len(level[0]) - 1 /\ level[0][place[0] + 1] = leaf
    BY <1>1, <1>2, <1>3
  <2>2. Reached(proof[0]) = leaf
    <3>1. <<>> \in Seq(Nat) /\ Len(<<>>) = 0
      OBVIOUS
    <3>2. Climb(leaf, <<>>)[0] = leaf
      BY <1>1, <3>1, ClimbType
    <3>. QED BY <1>4, <3>1, <3>2
  <2>. QED BY <2>1, <2>2
<1>. HIDE DEF level, place, proof, n, leaf
<1>7. ASSUME NEW k \in Nat, k \in T PROVE k + 1 \in T
  <2>. SUFFICES ASSUME k + 1 \in 0 .. n
       PROVE  /\ place[k + 1] \in 0 .. Len(level[k + 1]) - 1
              /\ Reached(proof[k + 1]) = level[k + 1][place[k + 1] + 1]
    OBVIOUS
  <2>. DEFINE s == level[k]
              i == place[k]
              p == proof[k]
  <2>1. k + 1 \in 1 .. n /\ k \in 0 .. n /\ (k + 1) - 1 = k
    BY <1>1
  <2>2. /\ level[k + 1] = LevelAbove(s) /\ place[k + 1] = i \div 2
        /\ proof[k + 1] = p \o SiblingAt(s, i)
        /\ s \in Seq(Nat) /\ p \in Seq(Nat)
    BY <1>2, <1>3, <1>4, <2>1
  <2>3. i \in 0 .. Len(s) - 1 /\ Reached(p) = s[i + 1]
    BY <1>7, <2>1
  <2>. HIDE DEF s, i, p
  <2>4. /\ i \div 2 \in 0 .. Len(LevelAbove(s)) - 1
        /\ \/ SiblingAt(s, i) = <<>> /\ LevelAbove(s)[i \div 2 + 1] = s[i + 1]
           \/ \E h \in Nat : /\ SiblingAt(s, i) = <<h>>
                             /\ LevelAbove(s)[i \div 2 + 1] = Combine(s[i + 1], h)
    BY <2>2, <2>3, OneLevelUp
  <2>5. Reached(p \o SiblingAt(s, i)) = LevelAbove(s)[i \div 2 + 1]
    <3>1. CASE SiblingAt(s, i) = <<>> /\ LevelAbove(s)[i \div 2 + 1] = s[i + 1]
      <4>1. p \o SiblingAt(s, i) = p
        BY <2>2, <3>1
      <4>. QED BY <2>3, <3>1, <4>1
    <3>2. ASSUME NEW h \in Nat, SiblingAt(s, i) = <<h>>,
                 LevelAbove(s)[i \div 2 + 1] = Combine(s[i + 1], h)
          PROVE  Reached(p \o SiblingAt(s, i)) = LevelAbove(s)[i \div 2 + 1]
      <4>1. Reached(p \o <<h>>) = Combine(Reached(p), h)
        BY <1>1, <2>2, <3>2, ClimbOn
      <4>. QED BY <2>3, <3>2, <4>1
    <3>. QED BY <2>4, <3>1, <3>2
  <2>. QED BY <2>2, <2>4, <2>5
<1>8. n \in T
  <2>. HIDE DEF T
  <2>. QED BY <1>1, <1>6, <1>7, CountUp
<1>9. place[n] = 0 /\ Reached(proof[n]) = level[n][1] /\ proof[n] \in Seq(Nat)
  <2>1. n \in 0 .. n
    BY <1>1
  <2>2. place[n] \in 0 .. Len(level[n]) - 1 /\ Reached(proof[n]) = level[n][place[n] + 1]
    BY <1>8, <2>1
  <2>3. place[n] = 0
    BY <1>3, <1>5, <2>1, <2>2
  <2>. QED BY <1>4, <2>1, <2>2, <2>3
<1>. QED BY <1>9 DEF n, leaf, level, proof, ProofOf, RootOf, VerifyReceipt

Nodes(leaves) ==
  {v \in Nat : \E k \in 0 .. Len(leaves) :
     \E i \in 1 .. Len(LevelsOf(leaves)[k]) : v = LevelsOf(leaves)[k][i]}

(* A node of the tree is a leaf, or the combination of two nodes.           *)
LEMMA NodesMade ==
  ASSUME MerkleAssumption, NEW leaves \in Seq(Nat), NEW v \in Nodes(leaves)
  PROVE  \/ \E i \in 1 .. Len(leaves) : v = leaves[i]
         \/ \E a, b \in Nodes(leaves) : v = Combine(a, b)
<1>. DEFINE n == Len(leaves)
            level == LevelsOf(leaves)
            At(k) == \E i \in 1 .. Len(level[k]) : v = level[k][i]
            Where == {k \in 0 .. n : At(k)}
<1>1. /\ level \in [0 .. n -> Seq(Nat)] /\ level[0] = leaves /\ n \in Nat
      /\ \A k \in 1 .. n : level[k] = LevelAbove(level[k - 1])
  BY LevelsType
<1>2. v \in Nat /\ Where \subseteq Nat /\ Where # {}
  BY DEF Nodes
<1>3. PICK k \in Where : \A m \in Where : k <= m
  BY <1>2, LeastElement
<1>4. PICK i \in 1 .. Len(level[k]) : v = level[k][i]
  BY <1>3
<1>5. ASSUME NEW m \in 0 .. n, NEW j \in 1 .. Len(level[m]) PROVE level[m][j] \in Nodes(leaves)
  <2>1. level[m][j] \in Nat
    <3>1. level[m] \in Seq(Nat)
      BY <1>1
    <3>. QED BY <3>1, ElementOfSeq
  <2>. QED BY <2>1 DEF Nodes
<1>. HIDE DEF level
<1>6. CASE k = 0
  BY <1>1, <1>4, <1>6
<1>7. CASE k # 0
  <2>. DEFINE s == level[k - 1]
  <2>1. k \in 1 .. n /\ k - 1 \in 0 .. n /\ k - 1 \notin Where
    <3>1. k \in 0 .. n
      OBVIOUS
    <3>2. k \in 1 .. n /\ k - 1 \in 0 .. n /\ ~(k <= k - 1)
      BY <1>1, <1>7, <3>1
    <3>. HIDE DEF Where
    <3>. QED BY <1>3, <3>2
  <2>2. level[k] = LevelAbove(s) /\ s \in Seq(Nat)
    BY <1>1, <2>1
  <2>3. /\ 2 * i - 1 \in 1 .. Len(s)
        /\ 2 * i <= Len(s) => 2 * i \in 1 .. Len(s)
        /\ v = IF 2 * i <= Len(s) THEN Combine(s[2 * i - 1], s[2 * i]) ELSE s[2 * i - 1]
    <3>. HIDE DEF s
    <3>. QED BY <1>4, <2>2, LevelAboveType
  <2>4. \A j \in 1 .. Len(s) : v # s[j] /\ s[j] \in Nodes(leaves)
    BY <1>5, <2>1
  <2>. HIDE DEF s
  <2>5. 2 * i <= Len(s)
    BY <2>3, <2>4
  <2>. QED BY <2>3, <2>4, <2>5
<1>. QED BY <1>6, <1>7

(* A leaf a proof leads from to the root of a batch is one of its leaves:   *)
(* going down from the root, the verifier never leaves the tree.            *)
THEOREM OnlyLeavesVerify ==
  ASSUME MerkleAssumption, NEW leaves \in Seq(0 .. Leaves - 1), leaves # <<>>,
         NEW leaf \in 0 .. Leaves - 1, NEW proof \in Seq(Nat),
         VerifyReceipt(leaf, proof, RootOf(leaves))
  PROVE  \E i \in 1 .. Len(leaves) : leaves[i] = leaf
<1>. DEFINE n == Len(proof)
            f == Climb(leaf, proof)
            T == {k \in Nat : k \in 0 .. n => f[n - k] \in Nodes(leaves)}
<1>0. leaves \in Seq(Nat) /\ leaf \in Nat /\ Leaves \in Nat /\ leaf < Leaves
  <2>1. 0 .. Leaves - 1 \subseteq Nat /\ Leaves \in Nat
    BY DEF MerkleAssumption
  <2>. QED BY <2>1, SeqMonotonic
<1>1. /\ f \in [0 .. n -> Nat] /\ f[0] = leaf /\ n \in Nat
      /\ \A k \in 1 .. n : f[k] = Combine(f[k - 1], proof[k]) /\ proof[k] \in Nat
  BY <1>0, ClimbType
<1>2. f[n] \in Nodes(leaves)
  <2>. DEFINE l == Len(leaves)
              level == LevelsOf(leaves)
  <2>1. l \in Nat /\ l \in 0 .. l /\ level \in [0 .. l -> Seq(Nat)]
    BY <1>0, LevelsType
  <2>2. Len(level[l]) = 1
    BY <1>0, RootAlone
  <2>3. level[l][1] \in Nat /\ 1 \in 1 .. Len(level[l])
    <3>1. level[l] \in Seq(Nat) /\ 1 \in 1 .. Len(level[l])
      BY <2>1, <2>2
    <3>. QED BY <3>1, ElementOfSeq
  <2>4. level[l][1] \in Nodes(leaves)
    BY <2>1, <2>3 DEF Nodes
  <2>. QED BY <2>4 DEF RootOf, VerifyReceipt
<1>. HIDE DEF f, n
<1>3. \A i \in 1 .. Len(leaves) : leaves[i] < Leaves
  BY <1>0
<1>4. \A v \in Nodes(leaves) : v \in Nat
  BY DEF Nodes
<1>5. ASSUME NEW k \in Nat, k \in T PROVE k + 1 \in T
  <2>. SUFFICES ASSUME k + 1 \in 0 .. n PROVE f[n - (k + 1)] \in Nodes(leaves)
    OBVIOUS
  <2>. DEFINE m == n - k
  <2>1. m \in 1 .. n /\ k \in 0 .. n /\ m - 1 = n - (k + 1) /\ m - 1 \in 0 .. n
    BY <1>1
  <2>2. f[m] \in Nodes(leaves)
    BY <1>5, <2>1
  <2>. HIDE DEF m
  <2>3. /\ f[m] = Combine(f[m - 1], proof[m])
        /\ f[m - 1] \in Nat /\ proof[m] \in Nat
    BY <1>1, <2>1
  <2>4. f[m] >= Leaves
    BY <2>3, CombineType
  <2>5. ~\E i \in 1 .. Len(leaves) : f[m] = leaves[i]
    BY <1>0, <1>3, <2>4
  <2>6. PICK a, b \in Nodes(leaves) : f[m] = Combine(a, b)
    BY <1>0, <2>2, <2>5, NodesMade
  <2>7. f[m - 1] = a \/ f[m - 1] = b
    <3>1. a \in Nat /\ b \in Nat
      BY <1>4
    <3>2. Combine(f[m - 1], proof[m]) = Combine(a, b)
      BY <2>3, <2>6
    <3>. DEFINE x == f[m - 1]
                y == proof[m]
    <3>3. x \in Nat /\ y \in Nat /\ Combine(x, y) = Combine(a, b)
      BY <2>3, <3>2
    <3>. HIDE DEF x, y
    <3>4. x = a \/ x = b
      BY <3>1, <3>3, CombineInjective
    <3>. QED BY <3>4 DEF x
  <2>. QED BY <2>1, <2>6, <2>7
<1>6. n \in T
  <2>1. 0 \in T
    BY <1>1, <1>2
  <2>. HIDE DEF T
  <2>. QED BY <1>1, <1>5, <2>1, CountUp
<1>7. leaf \in Nodes(leaves)
  BY <1>1, <1>6
<1>8. ASSUME NEW a \in Nodes(leaves), NEW b \in Nodes(leaves) PROVE leaf # Combine(a, b)
  <2>1. a \in Nat /\ b \in Nat
    BY <1>4
  <2>2. Combine(a, b) >= Leaves
    BY <2>1, CombineType
  <2>. QED BY <1>0, <2>2
<1>. QED BY <1>0, <1>7, <1>8, NodesMade

(* A batch is told by its root from every batch with another receipt.       *)
THEOREM RootTellsLeaves ==
  ASSUME MerkleAssumption,
         NEW leaves \in Seq(0 .. Leaves - 1), NEW others \in Seq(0 .. Leaves - 1),
         others # <<>>, RootOf(leaves) = RootOf(others), NEW i \in 1 .. Len(leaves)
  PROVE  \E j \in 1 .. Len(others) : others[j] = leaves[i]
<1>1. leaves \in Seq(Nat)
  <2>1. 0 .. Leaves - 1 \subseteq Nat
    BY DEF MerkleAssumption
  <2>. QED BY <2>1, SeqMonotonic
<1>2. /\ ProofOf(leaves, i) \in Seq(Nat)
      /\ VerifyReceipt(leaves[i], ProofOf(leaves, i), RootOf(others))
  BY <1>1, ProofsVerify
<1>3. leaves[i] \in 0 .. Leaves - 1
  BY ElementOfSeq
<1>. QED BY <1>2, <1>3, OnlyLeavesVerify

(* With one proof no leaf but its own leads to the root.                    *)
THEOREM ProofsAreOwn ==
  ASSUME MerkleAssumption, NEW leaves \in Seq(Nat), NEW index \in 1 .. Len(leaves),
         NEW leaf \in Nat
  PROVE  VerifyReceipt(leaf, ProofOf(leaves, index), RootOf(leaves)) <=> leaf = leaves[index]
<1>. DEFINE p == ProofOf(leaves, index)
            own == leaves[index]
<1>1. own \in Nat /\ p \in Seq(Nat) /\ VerifyReceipt(own, p, RootOf(leaves))
  BY ProofsVerify
<1>. HIDE DEF p, own
<1>2. VerifyReceipt(leaf, p, RootOf(leaves)) => leaf = own
  <2>1. SUFFICES ASSUME VerifyReceipt(leaf, p, RootOf(leaves)) PROVE leaf = own
    OBVIOUS
  <2>2. Climb(leaf, p)[Len(p)] = Climb(own, p)[Len(p)]
    BY <1>1, <2>1 DEF VerifyReceipt
  <2>. QED BY <1>1, <2>2, ClimbInjective
<1>. QED BY <1>1, <1>2 DEF p, own

LEMMA RootType ==
  ASSUME MerkleAssumption, NEW leaves \in Seq(Nat), leaves # <<>>
  PROVE  RootOf(leaves) \in Nat
<1>1. LevelsOf(leaves)[Len(leaves)] \in Seq(Nat) /\ Len(LevelsOf(leaves)[Len(leaves)]) = 1
  <2>1. Len(leaves) \in 0 .. Len(leaves)
    <3>1. Len(leaves) \in Nat
      OBVIOUS
    <3>. HIDE <3>1
    <3>. QED BY <3>1
  <2>. QED BY <2>1, LevelsType, RootAlone
<1>2. \A s \in Seq(Nat) : Len(s) = 1 => s[1] \in Nat
  <2>. TAKE s \in Seq(Nat)
  <2>1. 1 \in 1 .. 1
    OBVIOUS
  <2>. QED BY <2>1, ElementOfSeq
<1>. QED BY <1>1, <1>2 DEF RootOf

(* The proof of a leaf is the proof of no other, and the root of a run of  *)
(* leaves is that of no other run, for trees of any size.                  *)
THEOREM TreesAlwaysVerify == ASSUME MerkleAssumption PROVE MCSafe => []TreesVerify
<1>. DEFINE Sized == machine = "tree" => v1 \in 1 .. Leaves - 1 /\ v2 \in 1 .. v1
<1>1. MCInit => Sized
  BY DEF MCInit
<1>2. Sized /\ [MCNext]_all => Sized'
  <2>1. CASE machine = "tree"
    BY <2>1 DEF MCNext, all, inst
  <2>2. CASE ~(machine = "tree")
    BY <2>2 DEF MCNext, all
  <2>. QED BY <2>1, <2>2
<1>3. Sized => TreesVerify
  <2>. SUFFICES ASSUME NEW n \in 1 .. Leaves - 1, NEW k \in 1 .. n, v1 = n, v2 = k
                PROVE  TreesVerify
    BY DEF TreesVerify
  <2>. DEFINE Run(lo, hi) == [i \in 1 .. hi - lo + 1 |-> lo + i - 1]
              leaves == Run(1, n)
  <2>0. Leaves \in Nat
    BY DEF MerkleAssumption
  <2>1. ASSUME NEW lo \in 1 .. Leaves - 1, NEW hi \in 1 .. Leaves - 1, lo <= hi
        PROVE  /\ Run(lo, hi) \in Seq(0 .. Leaves - 1) /\ Len(Run(lo, hi)) = hi - lo + 1
               /\ Run(lo, hi) # <<>>
               /\ \A i \in 1 .. hi - lo + 1 : Run(lo, hi)[i] = lo + i - 1
    <3>1. \A i \in 1 .. hi - lo + 1 : lo + i - 1 \in 0 .. Leaves - 1
      BY <2>0, <2>1
    <3>2. hi - lo + 1 \in Nat \ {0}
      BY <2>0, <2>1
    <3>. DEFINE A == 0 .. Leaves - 1  m == hi - lo + 1
    <3>3. Run(lo, hi) \in [1 .. m -> A]
      BY <3>1
    <3>4. \A i \in 1 .. m : Run(lo, hi)[i] = lo + i - 1
      OBVIOUS
    <3>. HIDE DEF A, m, Run
    <3>5. Run(lo, hi) \in Seq(A) /\ Len(Run(lo, hi)) = m /\ m \in Nat \ {0}
      BY <3>2, <3>3 DEF m
    <3>. QED BY <3>4, <3>5 DEF A, m
  <2>2. /\ leaves \in Seq(0 .. Leaves - 1) /\ Len(leaves) = n /\ leaves # <<>>
        /\ \A i \in 1 .. n : leaves[i] = i
    BY <2>0, <2>1
  <2>3. leaves \in Seq(Nat)
    <3>1. 0 .. Leaves - 1 \subseteq Nat
      BY <2>0
    <3>. HIDE DEF leaves
    <3>. QED BY <2>2, <3>1, SeqMonotonic
  <2>. HIDE DEF leaves, Run
  <2>4. \A leaf \in 1 .. Leaves - 1 :
          VerifyReceipt(leaf, ProofOf(leaves, k), RootOf(leaves)) <=> leaf = k
    BY <2>2, <2>3, ProofsAreOwn
  <2>5. ASSUME NEW lo \in 1 .. Leaves - 1, NEW hi \in 1 .. Leaves - 1, lo <= hi,
               RootOf(Run(lo, hi)) = RootOf(leaves)
        PROVE  lo = 1 /\ hi = n
    <3>. DEFINE other == Run(lo, hi)
    <3>1. /\ other \in Seq(0 .. Leaves - 1) /\ Len(other) = hi - lo + 1 /\ other # <<>>
          /\ \A i \in 1 .. hi - lo + 1 : other[i] = lo + i - 1
      BY <2>1, <2>5
    <3>2. RootOf(other) = RootOf(leaves)
      BY <2>5
    <3>. HIDE DEF other
    <3>3. \A i \in 1 .. n : \E j \in 1 .. Len(other) : other[j] = i
      <4>. TAKE i \in 1 .. n
      <4>1. PICK j \in 1 .. Len(other) : other[j] = leaves[i]
        BY <2>2, <3>1, <3>2, RootTellsLeaves
      <4>. QED BY <2>2, <4>1
    <3>4. \A j \in 1 .. Len(other) : \E i \in 1 .. n : leaves[i] = other[j]
      BY <2>2, <3>1, <3>2, RootTellsLeaves
    <3>5. /\ 1 \in 1 .. n /\ n \in 1 .. n
          /\ 1 \in 1 .. hi - lo + 1 /\ hi - lo + 1 \in 1 .. hi - lo + 1
      BY <2>5
    <3>6. \A i \in 1 .. n : lo <= i /\ i <= hi
      <4>. TAKE i \in 1 .. n
      <4>1. PICK j \in 1 .. hi - lo + 1 : other[j] = i
        BY <3>1, <3>3
      <4>. QED BY <2>5, <3>1, <4>1
    <3>7. \A j \in 1 .. hi - lo + 1 : lo + j - 1 <= n
      BY <2>2, <2>5, <3>1, <3>4
    <3>. QED BY <2>5, <3>5, <3>6, <3>7
  <2>. QED BY <2>4, <2>5 DEF TreesVerify, leaves, Run
<1>. QED BY <1>1, <1>2, <1>3, PTL DEF MCSafe

-----------------------------------------------------------------------------
(* The public verifier.  A check takes the form with it, so what was read   *)
(* from the contract and what it answered are about the form it shows       *)
(* (CheckInv), and a verdict on the screen is that of a check that is over. *)

checkForm == v1
checkReceipt == v2
checkReading == v3
checkShown == v4
checkCheck == v5
checkAnchored == v6
checkDeployed == v7
checkConfigured == v8
checkEngine == v9
checkEdits == v10
checkFaults == v11

USE DEF checkForm, checkReceipt, checkReading, checkShown, checkCheck, checkAnchored,
        checkDeployed, checkConfigured, checkEngine, checkEdits, checkFaults

(* The tree of this machine is the one of Merkle. *)
LEMMA VerifierTree ==
  /\ \A s : Verifier!RootOf(s) = RootOf(s)
  /\ \A s, i : Verifier!ProofOf(s, i) = ProofOf(s, i)
  /\ \A h, s, r : Verifier!VerifyReceipt(h, s, r) <=> VerifyReceipt(h, s, r)
<1>1. \A s : Verifier!LevelsOf(s) = LevelsOf(s)
  BY DEF
         Verifier!LevelsOf, LevelsOf, Verifier!LevelAbove, LevelAbove,
         Verifier!Combine, Combine
<1>2. \A s, i : Verifier!ProofsOf(s, i) = ProofsOf(s, i)
  BY <1>1 DEF
         Verifier!ProofsOf, ProofsOf, Verifier!PlacesOf, PlacesOf,
         Verifier!SiblingAt, SiblingAt, Verifier!Beside, Beside,
         Verifier!LevelsOf, LevelsOf, Verifier!LevelAbove, LevelAbove,
         Verifier!Combine, Combine
<1>3. \A h, s : Verifier!Climb(h, s) = Climb(h, s)
  BY DEF
         Verifier!Climb, Climb, Verifier!Combine, Combine
<1>. QED
  BY <1>1, <1>2, <1>3 DEF
         Verifier!RootOf, RootOf, Verifier!ProofOf, ProofOf,
         Verifier!VerifyReceipt, VerifyReceipt

LEMMA BatchesType ==
  ASSUME MerkleAssumption, Verifier!VerificationAssumption
  PROVE  /\ Leaves \in Nat /\ Len(Batches) \in Nat /\ DOMAIN Batches = 1 .. Len(Batches)
         /\ \A b \in 1 .. Len(Batches) :
              /\ Batches[b] \in Seq(1 .. Leaves - 1) /\ Batches[b] \in Seq(0 .. Leaves - 1)
              /\ Batches[b] \in Seq(Nat) /\ Batches[b] # <<>>
<1>1. Leaves \in Nat /\ Batches \in Seq(Seq(1 .. Leaves - 1) \ {<<>>})
  BY DEF MerkleAssumption, Verifier!VerificationAssumption
<1>2. 1 .. Leaves - 1 \subseteq 0 .. Leaves - 1 /\ 1 .. Leaves - 1 \subseteq Nat
  BY <1>1
<1>. DEFINE A == 1 .. Leaves - 1  B == 0 .. Leaves - 1
<1>2a. A \subseteq B /\ A \subseteq Nat
  BY <1>2
<1>. HIDE DEF A, B
<1>3. Seq(A) \subseteq Seq(B)
  BY <1>2a, SeqMonotonic
<1>4. Seq(A) \subseteq Seq(Nat)
  BY <1>2a, SeqMonotonic
<1>5. ASSUME NEW b \in 1 .. Len(Batches) PROVE Batches[b] \in Seq(1 .. Leaves - 1) \ {<<>>}
  <2>. DEFINE T == Seq(1 .. Leaves - 1) \ {<<>>}
  <2>1. Batches \in Seq(T)
    BY <1>1
  <2>. HIDE DEF T
  <2>2. Batches[b] \in T
    BY <2>1
  <2>. QED BY <2>2 DEF T
<1>6. Len(Batches) \in Nat /\ DOMAIN Batches = 1 .. Len(Batches)
  <2>. DEFINE T == Seq(1 .. Leaves - 1) \ {<<>>}
  <2>1. Batches \in Seq(T)
    BY <1>1
  <2>. HIDE DEF T
  <2>. QED BY <2>1
<1>. QED BY <1>1, <1>3, <1>4, <1>5, <1>6 DEF A, B

LEMMA UnsentType == Verifier!Blank \in Verifier!FormSet
        /\ Verifier!NoReceipt \in Verifier!ReceiptSet /\ Verifier!Unsent \in Verifier!CheckSet
<1>1. <<>> \in Seq(Nat) /\ 0 \in Nat
  OBVIOUS
<1>2. Verifier!Blank \in Verifier!FormSet /\ Verifier!NoReceipt \in Verifier!ReceiptSet
  BY <1>1 DEF Verifier!Blank, Verifier!FormSet, Verifier!NoReceipt, Verifier!ReceiptSet
<1>3. Verifier!Unsent \in Verifier!CheckSet
  BY <1>1, <1>2 DEF Verifier!Unsent, Verifier!CheckSet
<1>. QED BY <1>2, <1>3

LEMMA PagesInit ==
  ASSUME MerkleAssumption, Verifier!VerificationAssumption, Verifier!Init
  PROVE  Verifier!VerdictInv
<1>4. Verifier!PageTypes
  BY UnsentType, BatchesType DEF Verifier!Init, Verifier!PageTypes
<1>5. \A c \in Verifier!Checks : Verifier!CheckInv(checkAnchored, checkCheck[c])
  BY DEF Verifier!Init, Verifier!CheckInv, Verifier!Unsent
<1>. QED BY <1>4, <1>5 DEF Verifier!Init, Verifier!VerdictInv, Verifier!Nothing

(* The checks of the page stay when the form, the files or the screen      *)
(* change and nothing more is shown.                                       *)
LEMMA ScreenKeeps ==
  ASSUME Verifier!VerdictInv, Verifier!PageTypes', UNCHANGED checkCheck,
         checkAnchored' = checkAnchored,
         UNCHANGED checkShown \/ checkShown'.status # "done"
  PROVE  Verifier!VerdictInv'
<1>1. \A c \in Verifier!Checks : Verifier!CheckInv(checkAnchored, checkCheck[c])'
  BY DEF Verifier!VerdictInv
<1>2. CASE UNCHANGED checkShown
  BY <1>1, <1>2 DEF Verifier!VerdictInv
<1>3. CASE checkShown'.status # "done"
  BY <1>1, <1>3 DEF Verifier!VerdictInv
<1>. QED BY <1>2, <1>3

LEMMA ScreenSteps ==
  ASSUME MerkleAssumption, Verifier!VerificationAssumption, Verifier!VerdictInv,
         \/ \E r \in Verifier!Receipts : Verifier!Paste(r[1], r[2])
         \/ \E b \in 0 .. Len(Batches), leaf \in 1 .. Leaves - 1 : Verifier!Type(b, leaf)
         \/ \E f \in Files : Verifier!Drop(f) \/ Verifier!FileRead(f)
         \/ UNCHANGED Verifier!vars
  PROVE  Verifier!VerdictInv'
<1>. USE DEF Verifier!setting
<1>0. Verifier!PageTypes
  BY DEF Verifier!VerdictInv
<1>1. ASSUME NEW r \in Verifier!Receipts, Verifier!Paste(r[1], r[2]) PROVE Verifier!VerdictInv'
  <2>. DEFINE b == r[1]  i == r[2]
  <2>1. b \in 1 .. Len(Batches) /\ i \in DOMAIN Batches[b]
    BY <1>1, BatchesType DEF Verifier!Receipts
  <2>. HIDE DEF b, i
  <2>2. /\ Batches[b] \in Seq(1 .. Leaves - 1) /\ Batches[b] \in Seq(Nat)
        /\ i \in 1 .. Len(Batches[b])
    BY <2>1, BatchesType
  <2>3. Batches[b][i] \in 1 .. Leaves - 1
    BY <2>2, ElementOfSeq
  <2>4. Verifier!ProofOf(Batches[b], i) \in Seq(Nat)
    BY <2>2, ProofsVerify, VerifierTree
  <2>5. b \in Nat
    BY <2>1, BatchesType
  <2>6. Verifier!ReceiptForm(b, i) \in Verifier!FormSet
    BY <2>3, <2>4, <2>5 DEF Verifier!ReceiptForm, Verifier!FormSet
  <2>7. Verifier!NoReceipt \in Verifier!ReceiptSet
    BY DEF Verifier!NoReceipt, Verifier!ReceiptSet
  <2>8. /\ checkForm' = Verifier!ReceiptForm(b, i) /\ checkReceipt' = Verifier!NoReceipt
           /\ checkShown' = Verifier!Nothing
        /\ UNCHANGED <<checkReading, checkCheck, checkAnchored, checkEngine>>
    BY <1>1 DEF Verifier!Paste, b, i
  <2>9. Verifier!PageTypes'
    BY <1>0, <2>6, <2>7, <2>8 DEF Verifier!PageTypes
  <2>. QED BY <2>8, <2>9, ScreenKeeps DEF Verifier!Nothing
<1>2. ASSUME NEW b \in 0 .. Len(Batches), NEW leaf \in 1 .. Leaves - 1, Verifier!Type(b, leaf)
      PROVE  Verifier!VerdictInv'
  <2>1. b \in Nat
    BY BatchesType
  <2>2. checkForm' = [checkForm EXCEPT !.batch = b] \/ checkForm' = [checkForm EXCEPT !.leaf = leaf]
    BY <1>2 DEF Verifier!Type
  <2>3. checkForm' \in Verifier!FormSet
    BY <1>0, <2>1, <2>2 DEF Verifier!PageTypes, Verifier!FormSet
  <2>4. Verifier!PageTypes'
    BY <1>0, <1>2, <2>3 DEF Verifier!PageTypes, Verifier!Type
  <2>. QED BY <1>2, <2>4, ScreenKeeps DEF Verifier!Type
<1>3. ASSUME NEW f \in Files, Verifier!Drop(f) PROVE Verifier!VerdictInv'
  <2>1. Verifier!PageTypes'
    BY <1>0, <1>3 DEF Verifier!PageTypes, Verifier!Drop
  <2>. QED BY <1>3, <2>1, ScreenKeeps DEF Verifier!Drop
<1>4. ASSUME NEW f \in Files, Verifier!FileRead(f) PROVE Verifier!VerdictInv'
  <2>1. /\ f.batch \in Nat /\ f.leaf \in 1 .. Leaves - 1 /\ f.proof \in Seq(Nat)
        /\ f.merchant \in Nat /\ f.customer \in Nat
    BY DEF Verifier!VerificationAssumption
  <2>2. f.leaf \in Nat
    BY <2>1
  <2>3. [leaf |-> f.leaf, merchant |-> f.merchant, customer |-> f.customer] \in Verifier!ReceiptSet
    BY <2>1, <2>2 DEF Verifier!ReceiptSet
  <2>4. [batch |-> f.batch, leaf |-> f.leaf, proof |-> f.proof] \in Verifier!FormSet
    BY <2>1 DEF Verifier!FormSet
  <2>5. Verifier!NoReceipt \in Verifier!ReceiptSet
    BY DEF Verifier!NoReceipt, Verifier!ReceiptSet
  <2>6. checkForm' \in Verifier!FormSet /\ checkReceipt' \in Verifier!ReceiptSet
    BY <1>0, <1>4, <2>3, <2>4, <2>5 DEF Verifier!FileRead, Verifier!PageTypes
  <2>7. Verifier!PageTypes'
    BY <1>0, <1>4, <2>6 DEF Verifier!PageTypes, Verifier!FileRead
  <2>8. UNCHANGED checkShown \/ checkShown'.status # "done"
    BY <1>4 DEF Verifier!FileRead, Verifier!Nothing
  <2>. QED BY <1>4, <2>7, <2>8, ScreenKeeps DEF Verifier!FileRead
<1>5. CASE UNCHANGED Verifier!vars
  <2>1. Verifier!PageTypes'
    BY <1>0, <1>5 DEF Verifier!PageTypes, Verifier!vars
  <2>. QED BY <1>5, <2>1, ScreenKeeps DEF Verifier!vars
<1>. QED BY <1>1, <1>2, <1>3, <1>4, <1>5

LEMMA AnchorKeeps ==
  ASSUME MerkleAssumption, Verifier!VerificationAssumption, Verifier!VerdictInv, Verifier!Anchor
  PROVE  Verifier!VerdictInv'
<1>1. /\ checkAnchored \in Nat /\ checkAnchored' = checkAnchored + 1
         /\ checkAnchored' \in 0 .. Len(Batches)
      /\ 1 .. checkAnchored \subseteq 1 .. checkAnchored'
  BY BatchesType DEF Verifier!Anchor, Verifier!VerdictInv, Verifier!PageTypes
<1>2. UNCHANGED <<checkForm, checkReceipt, checkReading, checkShown, checkCheck, checkEngine>>
  BY DEF Verifier!Anchor, Verifier!setting
<1>3. Verifier!PageTypes'
  BY <1>1, <1>2 DEF Verifier!VerdictInv, Verifier!PageTypes
<1>4. \A k : Verifier!Looked(checkAnchored, k) => Verifier!Looked(checkAnchored', k)
  BY <1>1 DEF Verifier!Looked
<1>5. \A c \in Verifier!Checks : Verifier!CheckInv(checkAnchored, checkCheck[c])'
  BY <1>2, <1>4 DEF Verifier!VerdictInv, Verifier!CheckInv
<1>. QED BY <1>2, <1>3, <1>4, <1>5 DEF Verifier!VerdictInv

(* One check goes on, and what it shows is what it found.                  *)
LEMMA CheckGoes ==
  ASSUME Verifier!VerdictInv, NEW c \in Verifier!Checks, NEW k \in Verifier!CheckSet,
         Verifier!CheckInv(checkAnchored, k),
         checkCheck[c].phase # "over", checkCheck' = [checkCheck EXCEPT ![c] = k],
         UNCHANGED <<checkForm, checkReceipt, checkReading, checkAnchored, checkEngine>>,
         \/ UNCHANGED checkShown
         \/ checkShown'.status # "done"
         \/ checkShown'.of = c /\ k.phase = "over" /\ Verifier!Looked(checkAnchored, k)
            /\ Verifier!Told(k) /\ Verifier!Signed(checkShown', k)
  PROVE  Verifier!VerdictInv'
<1>1. Verifier!PageTypes'
  BY DEF Verifier!VerdictInv, Verifier!PageTypes
<1>2. /\ checkCheck'[c] = k /\ \A d \in Verifier!Checks \ {c} : checkCheck'[d] = checkCheck[d]
  BY DEF Verifier!VerdictInv, Verifier!PageTypes
<1>3. \A d \in Verifier!Checks : Verifier!CheckInv(checkAnchored, checkCheck[d])'
  BY <1>2 DEF Verifier!VerdictInv
<1>4. CASE UNCHANGED checkShown
  <2>1. checkShown.status = "done" => checkShown.of \in Verifier!Checks \ {c}
        /\ checkCheck'[checkShown.of] = checkCheck[checkShown.of]
    BY <1>2 DEF Verifier!VerdictInv
  <2>. QED BY <1>1, <1>3, <1>4, <2>1 DEF Verifier!VerdictInv
<1>5. CASE checkShown'.status # "done"
  BY <1>1, <1>3, <1>5 DEF Verifier!VerdictInv
<1>6. CASE /\ checkShown'.of = c /\ k.phase = "over" /\ Verifier!Looked(checkAnchored, k)
              /\ Verifier!Told(k)
           /\ Verifier!Signed(checkShown', k)
  BY <1>1, <1>2, <1>3, <1>6 DEF Verifier!VerdictInv
<1>. QED BY <1>4, <1>5, <1>6

LEMMA CheckSteps ==
  ASSUME MerkleAssumption, Verifier!VerificationAssumption, Verifier!VerdictInv,
         NEW c \in Verifier!Checks,
         \/ Verifier!Submit(c) \/ Verifier!Refuse(c) \/ Verifier!ReadBatch(c)
         \/ Verifier!AskContract(c) \/ Verifier!Show(c) \/ Verifier!ShowError(c)
  PROVE  Verifier!VerdictInv'
<1>. USE DEF Verifier!setting
<1>0. /\ Verifier!PageTypes /\ Verifier!CheckInv(checkAnchored, checkCheck[c])
         /\ checkCheck[c] \in Verifier!CheckSet /\ checkCheck[c].form \in Verifier!FormSet
      /\ checkForm \in Verifier!FormSet /\ checkReceipt \in Verifier!ReceiptSet
  BY DEF Verifier!VerdictInv, Verifier!PageTypes, Verifier!CheckSet
<1>1. CASE Verifier!Submit(c)
  <2>. DEFINE k == [Verifier!Unsent EXCEPT !.phase = "sent", !.form = checkForm,
                                           !.receipt = checkReceipt]
  <2>1. /\ k.phase = "sent" /\ k.form = checkForm /\ k \in Verifier!CheckSet
    <3>1. Verifier!Unsent \in Verifier!CheckSet
      BY UnsentType
    <3>. QED BY <1>0, <3>1 DEF Verifier!CheckSet
  <2>2. checkCheck' = [checkCheck EXCEPT ![c] = k]
    BY <1>1 DEF Verifier!Submit
  <2>. HIDE DEF k
  <2>3. k \in Verifier!CheckSet /\ Verifier!CheckInv(checkAnchored, k)
    BY <1>1, <2>1 DEF Verifier!CheckInv, Verifier!Submit
  <2>. QED BY <1>1, <2>2, <2>3, CheckGoes DEF Verifier!Submit, Verifier!Nothing
<1>2. CASE Verifier!Refuse(c)
  <2>. DEFINE k == [checkCheck[c] EXCEPT !.phase = "refused"]
  <2>1. k \in Verifier!CheckSet /\ Verifier!CheckInv(checkAnchored, k)
    BY <1>0, <1>2 DEF Verifier!CheckSet, Verifier!CheckInv, Verifier!Refuse
  <2>2. checkCheck' = [checkCheck EXCEPT ![c] = k]
    BY <1>2 DEF Verifier!Refuse
  <2>. HIDE DEF k
  <2>. QED BY <1>2, <2>1, <2>2, CheckGoes DEF Verifier!Refuse
<1>3. CASE Verifier!ReadBatch(c)
  <2>. DEFINE f == checkCheck[c].form
              root == Verifier!RootOf(Batches[f.batch])
              k == [checkCheck[c] EXCEPT !.phase = "read", !.root = root,
                                         !.local = Verifier!LocallyVerified(f, root)]
  <2>1. f.batch >= 1 /\ f.batch <= checkAnchored /\ checkCheck[c].phase = "sent"
    BY <1>3 DEF Verifier!ReadBatch, Verifier!Readable
  <2>2. f.batch \in Nat /\ checkAnchored \in Nat /\ checkAnchored <= Len(Batches)
        /\ Len(Batches) \in Nat
    BY <1>0, BatchesType DEF Verifier!FormSet, Verifier!PageTypes
  <2>3. f.batch \in 1 .. checkAnchored /\ f.batch \in 1 .. Len(Batches)
    BY <2>1, <2>2
  <2>4. root \in Nat
    BY <2>3, BatchesType, RootType, VerifierTree
  <2>5. Verifier!LocallyVerified(f, root) <=> Verifier!Proves(f)
    BY DEF Verifier!LocallyVerified, Verifier!Proves
  <2>6. Verifier!LocallyVerified(f, root) \in BOOLEAN
    BY DEF Verifier!LocallyVerified, Verifier!VerifyReceipt
  <2>7. checkCheck' = [checkCheck EXCEPT ![c] = k]
    BY <1>3 DEF Verifier!ReadBatch
  <2>. HIDE DEF root
  <2>8. k \in Verifier!CheckSet
    BY <1>0, <2>4, <2>6 DEF Verifier!CheckSet
  <2>9. /\ k.form = f /\ k.phase = "read" /\ (k.local <=> Verifier!Proves(f)) /\ f.leaf # 0
        /\ k.root = root
    BY <1>0, <2>1, <2>5 DEF Verifier!CheckSet, Verifier!CheckInv
  <2>10. Verifier!CheckInv(checkAnchored, k)
    BY <2>3, <2>9 DEF Verifier!CheckInv, Verifier!Looked, root
  <2>. HIDE DEF k
  <2>. QED BY <1>3, <2>1, <2>7, <2>8, <2>10, CheckGoes DEF Verifier!ReadBatch
<1>4. CASE Verifier!AskContract(c)
  <2>. DEFINE f == checkCheck[c].form
              k(a) == [checkCheck[c] EXCEPT !.phase = "answered", !.onchain = a]
  <2>1. checkCheck[c].phase = "read" /\ Verifier!Looked(checkAnchored, checkCheck[c]) /\ f.leaf # 0
    BY <1>0, <1>4 DEF Verifier!AskContract, Verifier!CheckInv
  <2>2. PICK a \in {"yes", "no", "null"} :
          /\ checkCheck' = [checkCheck EXCEPT ![c] = k(a)]
          /\ a # "null" => (a = "yes" <=> Verifier!Proves(f))
    <3>1. CASE checkCheck' = [checkCheck EXCEPT ![c].phase = "answered", ![c].onchain = "null"]
      BY <3>1
    <3>2. CASE checkCheck' = [checkCheck EXCEPT ![c].phase = "answered",
                  ![c].onchain = IF Verifier!VerifyReceipt(f.leaf, f.proof,
                                                           Verifier!RootOf(Batches[f.batch]))
                                 THEN "yes" ELSE "no"]
      BY <3>2 DEF Verifier!Proves
    <3>. QED BY <1>4, <3>1, <3>2 DEF Verifier!AskContract
  <2>3. k(a) \in Verifier!CheckSet
    BY <1>0 DEF Verifier!CheckSet
  <2>4. k(a).form = f /\ k(a).phase = "answered" /\ k(a).onchain = a
        /\ k(a).local = checkCheck[c].local /\ k(a).root = checkCheck[c].root
    BY <1>0 DEF Verifier!CheckSet
  <2>5. Verifier!CheckInv(checkAnchored, k(a))
    BY <2>1, <2>2, <2>4 DEF Verifier!CheckInv, Verifier!Looked, Verifier!Told
  <2>. HIDE DEF k
  <2>. QED BY <1>4, <2>1, <2>2, <2>3, <2>5, CheckGoes DEF Verifier!AskContract
<1>5. CASE Verifier!Show(c)
  <2>. DEFINE k == [checkCheck[c] EXCEPT !.phase = "over"]
              f == checkCheck[c].form
  <2>1. checkCheck[c].phase = "answered" /\ Verifier!Looked(checkAnchored, checkCheck[c])
        /\ Verifier!Told(checkCheck[c]) /\ f.leaf # 0
    BY <1>0, <1>5 DEF Verifier!Show, Verifier!CheckInv
  <2>2. /\ k.form = f /\ k.phase = "over" /\ k.local = checkCheck[c].local
        /\ k.onchain = checkCheck[c].onchain /\ k.receipt = checkCheck[c].receipt
        /\ k.root = checkCheck[c].root
           /\ k \in Verifier!CheckSet
    BY <1>0 DEF Verifier!CheckSet
  <2>3. Verifier!CheckInv(checkAnchored, k) /\ Verifier!Looked(checkAnchored, k) /\ Verifier!Told(k)
    BY <2>1, <2>2 DEF Verifier!CheckInv, Verifier!Looked, Verifier!Told
  <2>4. \A leaf, party : Verifier!Passed(Verifier!SignatureStatus(leaf, party)) =>
          party \in {0, leaf}
    BY <1>0 DEF Verifier!PageTypes, Verifier!SignatureStatus, Verifier!Passed
  <2>5. /\ checkShown'.merchant = Verifier!SignatureStatus(f.leaf, checkCheck[c].receipt.merchant)
        /\ checkShown'.customer = Verifier!SignatureStatus(f.leaf, checkCheck[c].receipt.customer)
        /\ checkShown'.of = c /\ checkCheck' = [checkCheck EXCEPT ![c] = k]
    BY <1>5 DEF Verifier!Show, Verifier!SignedLeaf
  <2>. HIDE DEF k
  <2>6. Verifier!Signed(checkShown', k)
    BY <2>2, <2>4, <2>5 DEF Verifier!Signed, Verifier!Passed
  <2>. QED BY <1>5, <2>1, <2>2, <2>3, <2>5, <2>6, CheckGoes DEF Verifier!Show
<1>6. CASE Verifier!ShowError(c)
  <2>. DEFINE k == [checkCheck[c] EXCEPT !.phase = "over"]
  <2>1. checkCheck[c].phase \in {"refused", "sent", "read", "answered"}
    BY <1>6 DEF Verifier!ShowError
  <2>2. k \in Verifier!CheckSet /\ Verifier!CheckInv(checkAnchored, k)
    BY <1>0, <2>1 DEF Verifier!CheckSet, Verifier!CheckInv
  <2>3. checkCheck' = [checkCheck EXCEPT ![c] = k] /\ checkShown'.status # "done"
    BY <1>6 DEF Verifier!ShowError, Verifier!Nothing
  <2>. HIDE DEF k
  <2>. QED BY <1>6, <2>1, <2>2, <2>3, CheckGoes DEF Verifier!ShowError
<1>. QED BY <1>1, <1>2, <1>3, <1>4, <1>5, <1>6

LEMMA VerdictStep ==
  ASSUME MerkleAssumption, Verifier!VerificationAssumption, Verifier!VerdictInv,
         [Verifier!Next]_(Verifier!vars)
  PROVE  Verifier!VerdictInv'
BY ScreenSteps, AnchorKeeps, CheckSteps DEF Verifier!Next

LEMMA VerdictSound ==
  ASSUME MerkleAssumption, Verifier!VerificationAssumption, Verifier!VerdictInv
  PROVE  Verifier!VerdictsAreTrue
<1>. SUFFICES ASSUME checkShown.status = "done"
     PROVE  /\ Verifier!Verified(checkShown.of) => Verifier!Anchored(Verifier!Asked)
            /\ Verifier!Certified => \A party \in {"merchant", "customer"} :
                              checkCheck[checkShown.of].receipt[party] \in {0, Verifier!Asked.leaf}
            /\ Verifier!Certified /\ Verifier!StillAsked => Verifier!Bears(Verifier!Certificate)
            /\ Verifier!GenuineForm(Verifier!Asked)
               /\ checkCheck[checkShown.of].onchain # "null" => Verifier!Verified(checkShown.of)
            /\ ~Verifier!Disagreement(checkShown.of)
  BY DEF Verifier!VerdictsAreTrue
<1>. DEFINE k == checkCheck[checkShown.of]  f == k.form
<1>1. /\ checkShown.of \in Verifier!Checks /\ k \in Verifier!CheckSet /\ f \in Verifier!FormSet
         /\ k.phase = "over"
      /\ f.leaf # 0 /\ Verifier!Looked(checkAnchored, k) /\ Verifier!Told(k)
         /\ Verifier!Signed(checkShown, k) /\ f = Verifier!Asked
  BY DEF Verifier!VerdictInv, Verifier!PageTypes, Verifier!CheckInv, Verifier!CheckSet,
     Verifier!Asked
<1>2. /\ f.batch \in 1 .. checkAnchored /\ f.batch \in 1 .. Len(Batches)
      /\ Batches[f.batch] \in Seq(0 .. Leaves - 1) /\ Batches[f.batch] \in Seq(Nat)
      /\ Batches[f.batch] # <<>>
  <2>1. f.batch \in 1 .. checkAnchored /\ checkAnchored \in 0 .. Len(Batches)
        /\ Len(Batches) \in Nat
    BY <1>1, BatchesType DEF Verifier!Looked, Verifier!VerdictInv, Verifier!PageTypes
  <2>2. f.batch \in 1 .. Len(Batches)
    BY <2>1
  <2>. QED BY <2>1, <2>2, BatchesType
<1>3. f.leaf \in 0 .. Leaves - 1 /\ f.proof \in Seq(Nat)
  <2>1. Leaves \in Nat /\ f.leaf \in 1 .. Leaves - 1 /\ f.proof \in Seq(Nat)
    BY <1>1, BatchesType DEF Verifier!FormSet
  <2>. QED BY <2>1
<1>4. k.local \in BOOLEAN /\ (k.local <=> Verifier!Proves(f))
  BY <1>1 DEF Verifier!Looked, Verifier!CheckSet
<1>5. /\ k.onchain \in {"yes", "no", "null"}
      /\ k.onchain # "null" => (k.onchain = "yes" <=> Verifier!Proves(f))
  BY <1>1 DEF Verifier!Told
<1>6. ASSUME Verifier!Verified(checkShown.of) PROVE Verifier!Anchored(Verifier!Asked)
  <2>1. Verifier!VerifyReceipt(f.leaf, f.proof, Verifier!RootOf(Batches[f.batch]))
    BY <1>4, <1>6 DEF Verifier!Verified, Verifier!Proves
  <2>2. PICK i \in 1 .. Len(Batches[f.batch]) : Batches[f.batch][i] = f.leaf
    BY <1>2, <1>3, <2>1, OnlyLeavesVerify, VerifierTree
  <2>3. DOMAIN Batches[f.batch] = 1 .. Len(Batches[f.batch])
    BY <1>2
  <2>. QED BY <1>1, <1>2, <2>2, <2>3 DEF Verifier!Anchored
<1>7. ASSUME Verifier!Certified, NEW party \in {"merchant", "customer"}
      PROVE  k.receipt[party] \in {0, Verifier!Asked.leaf}
  BY <1>1, <1>7 DEF Verifier!Certified, Verifier!Audited, Verifier!Signed
<1>8. ASSUME Verifier!GenuineForm(Verifier!Asked), k.onchain # "null"
      PROVE Verifier!Verified(checkShown.of)
  <2>1. PICK i \in DOMAIN Batches[f.batch] : f = Verifier!ReceiptForm(f.batch, i)
    BY <1>1, <1>8 DEF Verifier!GenuineForm
  <2>2. i \in 1 .. Len(Batches[f.batch])
    BY <1>2
  <2>3. Verifier!VerifyReceipt(Batches[f.batch][i], Verifier!ProofOf(Batches[f.batch], i),
                               Verifier!RootOf(Batches[f.batch]))
    BY <1>2, <2>2, ProofsVerify, VerifierTree
  <2>4. f.leaf = Batches[f.batch][i] /\ f.proof = Verifier!ProofOf(Batches[f.batch], i)
    <3>. DEFINE b == f.batch
    <3>. HIDE DEF b
    <3>1. \A x : x = Verifier!ReceiptForm(b, i) => x.leaf = Batches[b][i]
          /\ x.proof = Verifier!ProofOf(Batches[b], i)
      BY DEF Verifier!ReceiptForm
    <3>. QED BY <2>1, <3>1 DEF b
  <2>5. Verifier!Proves(f)
    BY <2>3, <2>4 DEF Verifier!Proves
  <2>. QED BY <1>4, <1>5, <1>8, <2>5 DEF Verifier!Verified
<1>9. ~Verifier!Disagreement(checkShown.of)
  BY <1>4, <1>5 DEF Verifier!Disagreement
<1>10. ASSUME Verifier!Certified, Verifier!StillAsked PROVE Verifier!Bears(Verifier!Certificate)
  <2>1. Verifier!Anchored(f)
    BY <1>1, <1>6, <1>10 DEF Verifier!Certified, Verifier!Audited
  <2>2. /\ Verifier!Certificate.batch = f.batch /\ Verifier!Certificate.leaf = f.leaf
        /\ Verifier!Certificate.root = k.root
    BY <1>1, <1>10 DEF Verifier!StillAsked, Verifier!Certificate
  <2>3. k.root = Verifier!RootOf(Batches[f.batch])
    BY <1>1 DEF Verifier!Looked
  <2>. QED BY <2>1, <2>2, <2>3 DEF Verifier!Bears, Verifier!Anchored
<1>. QED BY <1>6, <1>7, <1>8, <1>9, <1>10

(* The module keeps what it promises, whatever the constants. *)
LEMMA VerifierHolds ==
  ASSUME MerkleAssumption, Verifier!VerificationAssumption
  PROVE  Verifier!Spec => []Verifier!VerdictsAreTrue
<1>1. Verifier!Init => Verifier!VerdictInv
  BY PagesInit
<1>2. Verifier!VerdictInv /\ [Verifier!Next]_(Verifier!vars) => Verifier!VerdictInv'
  BY VerdictStep
<1>3. Verifier!VerdictInv => Verifier!VerdictsAreTrue
  BY VerdictSound
<1>. QED BY <1>1, <1>2, <1>3, PTL DEF Verifier!Spec

(* MCChain stays with the machine it starts in and steps as its module. *)
LEMMA VerifierRuns == MCSafe => []~(machine = "verifier") \/ Verifier!Spec
<1>1. MCInit /\ machine = "verifier" => Verifier!Init
  BY DEF MCInit
<1>2. machine = "verifier" /\ [MCNext]_all =>
        (machine = "verifier")' /\ [Verifier!Next]_(Verifier!vars)
  BY DEF MCNext, all, inst, Verifier!vars, Verifier!setting
<1>3. ~(machine = "verifier") /\ [MCNext]_all => (~(machine = "verifier"))'
  BY DEF MCNext, all
<1>. QED BY <1>1, <1>2, <1>3, PTL DEF MCSafe, Verifier!Spec

-----------------------------------------------------------------------------
(* The anchoring of receipts.  A record transaction has checked the root    *)
(* and holds the rows it wrote, so another may not take them (WritesSound); *)
(* a recorded batch has its root on the chain under its id (RowsAnchored),  *)
(* and no other selection has that root (RootsTell).                        *)

anchorConfirmed == v1
anchorBatchOf == v2
anchorProofOf == v3
anchorBatches == v4
anchorChain == v5
anchorPanel == v6
anchorForgotten == v7
anchorFaults == v8
anchorPurges == v9

USE DEF anchorConfirmed, anchorBatchOf, anchorProofOf, anchorBatches, anchorChain,
        anchorPanel, anchorForgotten, anchorFaults, anchorPurges

(* Sets are counted in this machine as they are here. *)
LEMMA AnchorCount == \A S : Anchor!Cardinality(S) = Cardinality(S)
  BY DEF Anchor!Cardinality, Cardinality

(* The tree of this machine is the one of Merkle. *)
LEMMA AnchorTree ==
  /\ \A s : Anchor!RootOf(s) = RootOf(s)
  /\ \A s, i : Anchor!ProofOf(s, i) = ProofOf(s, i)
  /\ \A h, s, r : Anchor!VerifyReceipt(h, s, r) <=> VerifyReceipt(h, s, r)
<1>1. \A s : Anchor!LevelsOf(s) = LevelsOf(s)
  BY DEF
         Anchor!LevelsOf, LevelsOf, Anchor!LevelAbove, LevelAbove,
         Anchor!Combine, Combine
<1>2. \A s, i : Anchor!ProofsOf(s, i) = ProofsOf(s, i)
  BY <1>1 DEF
         Anchor!ProofsOf, ProofsOf, Anchor!PlacesOf, PlacesOf,
         Anchor!SiblingAt, SiblingAt, Anchor!Beside, Beside,
         Anchor!LevelsOf, LevelsOf, Anchor!LevelAbove, LevelAbove,
         Anchor!Combine, Combine
<1>3. \A h, s : Anchor!Climb(h, s) = Climb(h, s)
  BY DEF
         Anchor!Climb, Climb, Anchor!Combine, Combine
<1>. QED
  BY <1>1, <1>2, <1>3 DEF
         Anchor!RootOf, RootOf, Anchor!ProofOf, ProofOf,
         Anchor!VerifyReceipt, VerifyReceipt

LEMMA PaymentTypes ==
  ASSUME Anchor!AnchoringAssumption, MerkleAssumption
  PROVE  /\ Leaves \in Nat /\ Payment \subseteq 1 .. Leaves - 1 /\ Payment \subseteq Nat
         /\ IsFiniteSet(Payment) /\ MaxBatch \in Nat \ {0}
<1>1. Leaves \in Nat /\ Payment \subseteq 1 .. Leaves - 1 /\ MaxBatch \in Nat \ {0}
  BY DEF Anchor!AnchoringAssumption, MerkleAssumption
<1>2. IsFiniteSet(1 .. Leaves - 1)
  <2>1. 1 \in Int /\ Leaves - 1 \in Int
    BY <1>1
  <2>. QED BY <2>1, FS_Interval
<1>3. IsFiniteSet(Payment)
  BY <1>1, <1>2, FS_Subset
<1>. QED BY <1>1, <1>3

(* The payments of a batch are its leaves, each at its rank.               *)
LEMMA OrderedRightly ==
  ASSUME Anchor!AnchoringAssumption, MerkleAssumption, NEW S \in Anchor!Selection
  PROVE  /\ Anchor!Ordered(S) \in Seq(0 .. Leaves - 1) /\ Anchor!Ordered(S) \in Seq(Nat)
            /\ Anchor!Ordered(S) # <<>>
         /\ \A p \in S : /\ Anchor!Rank(S, p) \in 1 .. Len(Anchor!Ordered(S))
                         /\ Anchor!Ordered(S)[Anchor!Rank(S, p)] = p
         /\ \A i \in 1 .. Len(Anchor!Ordered(S)) : Anchor!Ordered(S)[i] \in S
<1>. DEFINE n == Cardinality(S)
            rank == [p \in S |-> Anchor!Rank(S, p)]
            A == 0 .. Leaves - 1
<1>1. S \subseteq Payment /\ S # {} /\ S \subseteq Nat /\ IsFiniteSet(S) /\ n \in Nat
  BY PaymentTypes, FS_Subset, FS_CardinalityType DEF Anchor!Selection
<1>2. /\ \A p \in S : Cardinality(UpTo(S, p)) \in Nat /\ Cardinality(UpTo(S, p)) <= n
                      /\ IsFiniteSet(UpTo(S, p))
      /\ \A p, r \in S : p < r => Cardinality(UpTo(S, p)) < Cardinality(UpTo(S, r))
  BY <1>1, RankGrows
<1>3. \A p \in S : rank[p] = Cardinality(UpTo(S, p)) /\ rank[p] = Anchor!Rank(S, p)
  BY AnchorCount DEF Anchor!Rank, UpTo
<1>. HIDE DEF rank
<1>4. \A p \in S : rank[p] \in 1 .. n
  <2>. TAKE p \in S
  <2>1. p \in UpTo(S, p)
    <3>1. p \in Nat
      BY <1>1
    <3>. QED BY <3>1 DEF UpTo
  <2>2. Cardinality(UpTo(S, p)) # 0
    BY <1>2, <2>1, FS_EmptySet
  <2>. QED BY <1>1, <1>2, <1>3, <2>2
<1>5. \A p, r \in S : rank[p] = rank[r] => p = r
  <2>. SUFFICES ASSUME NEW p \in S, NEW r \in S, rank[p] = rank[r], p # r PROVE FALSE
    OBVIOUS
  <2>1. p \in Nat /\ r \in Nat
    BY <1>1
  <2>2. p < r \/ r < p
    BY <2>1
  <2>3. rank[p] < rank[r] \/ rank[r] < rank[p]
    BY <1>2, <1>3, <2>2
  <2>. QED BY <1>4, <2>3
<1>6. rank \in [S -> 1 .. n]
  <2>1. rank = [p \in S |-> rank[p]]
    BY DEF rank
  <2>. QED BY <1>4, <2>1
<1>7. \A i \in 1 .. n : \E p \in S : rank[p] = i
  <2>1. rank \in Injection(S, 1 .. n)
    BY <1>5, <1>6 DEF Injection, IsInjective
  <2>2. IsFiniteSet(1 .. n) /\ Cardinality(1 .. n) = n
    BY <1>1, FS_Interval
  <2>3. rank \in Surjection(S, 1 .. n)
    BY <2>1, <2>2, FS_Injection
  <2>. QED BY <2>3 DEF Surjection
<1>8. /\ Anchor!Ordered(S) = [i \in 1 .. n |-> CHOOSE p \in S : Anchor!Rank(S, p) = i]
  BY AnchorCount DEF Anchor!Ordered
<1>9. ASSUME NEW i \in 1 .. n PROVE Anchor!Ordered(S)[i] \in S /\ rank[Anchor!Ordered(S)[i]] = i
  <2>1. PICK p \in S : Anchor!Rank(S, p) = i
    BY <1>3, <1>7
  <2>2. Anchor!Ordered(S)[i] = CHOOSE r \in S : Anchor!Rank(S, r) = i
    BY <1>8
  <2>. QED BY <1>3, <2>1, <2>2
<1>10. S \subseteq A /\ A \subseteq Nat
  BY <1>1, PaymentTypes
<1>. HIDE DEF n, A
<1>11. \A T : (\A i \in 1 .. n : Anchor!Ordered(S)[i] \in T) => Anchor!Ordered(S) \in Seq(T)
       /\ Len(Anchor!Ordered(S)) = n
  <2>. TAKE T
  <2>. SUFFICES ASSUME \A i \in 1 .. n : Anchor!Ordered(S)[i] \in T
                PROVE  Anchor!Ordered(S) \in Seq(T) /\ Len(Anchor!Ordered(S)) = n
    OBVIOUS
  <2>1. Anchor!Ordered(S) \in [1 .. n -> T]
    BY <1>8
  <2>2. Anchor!Ordered(S) \in Seq(T)
    BY <1>1, <2>1
  <2>. QED BY <1>1, <2>1, <2>2
<1>12. Anchor!Ordered(S) \in Seq(A) /\ Len(Anchor!Ordered(S)) = n
  BY <1>9, <1>10, <1>11
<1>13. Anchor!Ordered(S) \in Seq(Nat)
  BY <1>10, <1>12, SeqMonotonic
<1>14. ASSUME NEW p \in S PROVE Anchor!Rank(S, p) \in 1 .. n
              /\ Anchor!Ordered(S)[Anchor!Rank(S, p)] = p
  <2>1. rank[p] \in 1 .. n
    BY <1>4
  <2>2. Anchor!Ordered(S)[rank[p]] \in S /\ rank[Anchor!Ordered(S)[rank[p]]] = rank[p]
    BY <1>9, <2>1
  <2>. QED BY <1>3, <1>5, <2>1, <2>2
<1>15. Anchor!Ordered(S) # <<>>
  <2>1. PICK p \in S : TRUE
    BY <1>1
  <2>2. n # 0
    BY <1>1, <1>14, <2>1
  <2>. QED BY <1>12, <2>2
<1>. QED BY <1>9, <1>12, <1>13, <1>14, <1>15 DEF A

(* The proof written for a payment of a batch leads to the root of the     *)
(* batch, and no other batch has that root.                                *)
LEMMA WrittenVerifies ==
  ASSUME Anchor!AnchoringAssumption, MerkleAssumption, NEW S \in Anchor!Selection, NEW p \in S
  PROVE  Anchor!Written(S, p) \in Seq(Nat)
           /\ Anchor!VerifyReceipt(p, Anchor!Written(S, p), Anchor!Root(S))
BY OrderedRightly, ProofsVerify, AnchorTree DEF Anchor!Written, Anchor!Root

LEMMA RootNumber ==
  ASSUME Anchor!AnchoringAssumption, MerkleAssumption, NEW S \in Anchor!Selection
  PROVE  Anchor!Root(S) \in Nat
BY OrderedRightly, RootType, AnchorTree DEF Anchor!Root

LEMMA RootsTell ==
  ASSUME Anchor!AnchoringAssumption, MerkleAssumption, NEW S \in Anchor!Selection,
         NEW T \in Anchor!Selection,
         Anchor!Root(S) = Anchor!Root(T)
  PROVE  S = T
<1>1. ASSUME NEW A \in Anchor!Selection, NEW B \in Anchor!Selection,
             Anchor!Root(A) = Anchor!Root(B), NEW p \in A
      PROVE  p \in B
  <2>1. /\ Anchor!Ordered(A) \in Seq(0 .. Leaves - 1) /\ Anchor!Ordered(B) \in Seq(0 .. Leaves - 1)
        /\ Anchor!Ordered(B) # <<>>
           /\ Anchor!RootOf(Anchor!Ordered(A)) = Anchor!RootOf(Anchor!Ordered(B))
        /\ Anchor!Rank(A, p) \in 1 .. Len(Anchor!Ordered(A))
           /\ Anchor!Ordered(A)[Anchor!Rank(A, p)] = p
    BY <1>1, OrderedRightly DEF Anchor!Root
  <2>. DEFINE a == Anchor!Ordered(A)  b == Anchor!Ordered(B)  i == Anchor!Rank(A, p)
  <2>. HIDE DEF a, b, i
  <2>2. PICK j \in 1 .. Len(b) : b[j] = a[i]
    BY <2>1, RootTellsLeaves, AnchorTree DEF a, b, i
  <2>. QED BY <2>1, <2>2, OrderedRightly DEF a, b, i
<1>. QED BY <1>1 DEF Anchor!Selection

LEMMA AnchorInit ==
  ASSUME Anchor!AnchoringAssumption, MerkleAssumption, Anchor!Init
  PROVE  Anchor!AnchorInv
<1>1. <<>> \in Seq(Nat) /\ 0 \in Nat
  OBVIOUS
<1>2. Anchor!NoRow \in Anchor!RowSet
  BY <1>1 DEF Anchor!NoRow, Anchor!RowSet
<1>3. Anchor!Idle \in Anchor!PanelSet /\ Anchor!Shaped(Anchor!Idle) /\ Anchor!Idle.phase = "idle"
  BY <1>1, <1>2 DEF Anchor!Idle, Anchor!PanelSet, Anchor!Shaped
<1>4. Anchor!AnchorTypes
  BY <1>1, <1>2, <1>3 DEF Anchor!Init, Anchor!AnchorTypes
<1>5. Anchor!RowsAnchored /\ Anchor!BatchIsWhole
  BY DEF Anchor!Init, Anchor!RowsAnchored, Anchor!BatchIsWhole, Anchor!NoRow
<1>6. Anchor!PaymentsRecorded
  BY DEF Anchor!Init, Anchor!PaymentsRecorded
<1>7. \A q \in Panel : ~Anchor!Writing(q)
  BY <1>3 DEF Anchor!Init, Anchor!Writing
<1>. QED BY <1>4, <1>5, <1>6, <1>7 DEF Anchor!AnchorInv, Anchor!WritesSound

(* A step that neither deletes nor writes a payment's columns: the chain   *)
(* may grow, previews may be inserted, no panel begins to write.           *)
LEMMA QuietStep ==
  ASSUME Anchor!AnchorInv, Anchor!AnchorTypes',
         anchorConfirmed \subseteq anchorConfirmed',
         UNCHANGED <<anchorBatchOf, anchorProofOf, anchorForgotten>>,
         \A b \in 1 .. Len(anchorChain) : b \in 1 .. Len(anchorChain')
           /\ anchorChain'[b] = anchorChain[b],
         \A S \in Anchor!Selection : \/ anchorBatches'[S] = anchorBatches[S]
                                     \/ anchorBatches[S] = Anchor!NoRow
                                        /\ anchorBatches'[S] = Anchor!Previewed,
         \A q \in Panel : anchorPanel'[q].phase = "writing" => anchorPanel'[q] = anchorPanel[q]
  PROVE  Anchor!AnchorInv'
<1>1. \A b, S : Anchor!RootsAgree(b, S) => b \in 1 .. Len(anchorChain')
      /\ anchorChain'[b] = Anchor!Root(S)
  BY DEF Anchor!RootsAgree
<1>2. \A S \in Anchor!Selection : anchorBatches'[S].status = "recorded" =>
        anchorBatches'[S] = anchorBatches[S]
  BY DEF Anchor!Previewed
<1>3. Anchor!RowsAnchored'
  BY <1>1, <1>2 DEF Anchor!AnchorInv, Anchor!RowsAnchored, Anchor!RootsAgree
<1>4. \A b : \A S \in Anchor!Selection : anchorBatches[S] = Anchor!RecordedRow(b) =>
        anchorBatches'[S] = Anchor!RecordedRow(b)
  BY DEF Anchor!NoRow, Anchor!RecordedRow
<1>5. Anchor!PaymentsRecorded'
  BY <1>4 DEF Anchor!AnchorInv, Anchor!PaymentsRecorded
<1>6. Anchor!BatchIsWhole'
  BY <1>2 DEF Anchor!AnchorInv, Anchor!BatchIsWhole
<1>7. \A q \in Panel : Anchor!Writing(q)' => Anchor!Writing(q)
      /\ anchorPanel'[q] = anchorPanel[q] /\ Anchor!Held(q)' = Anchor!Held(q)
  BY DEF Anchor!Writing, Anchor!Held
<1>8. ASSUME NEW q \in Panel PROVE Anchor!WritesSound(q)'
  <2>. SUFFICES ASSUME Anchor!Writing(q)'
       PROVE  /\ anchorPanel'[q].batch # 0
                 /\ Anchor!RootsAgree(anchorPanel[q].batch, anchorPanel[q].sel)'
              /\ \A p \in Anchor!Held(q)' : p \in anchorConfirmed'
                 /\ anchorBatchOf'[p] \in {0, anchorPanel'[q].batch}
              /\ \A o \in Panel \ {q} : Anchor!Writing(o)' =>
                   anchorPanel'[o].sel # anchorPanel'[q].sel
                     /\ Anchor!Held(o)' \cap Anchor!Held(q)' = {}
    BY DEF Anchor!WritesSound
  <2>1. Anchor!Writing(q) /\ anchorPanel'[q] = anchorPanel[q] /\ Anchor!Held(q)' = Anchor!Held(q)
    BY <1>7
  <2>2. Anchor!WritesSound(q)
    BY DEF Anchor!AnchorInv
  <2>. DEFINE S == anchorPanel[q].sel  b == anchorPanel[q].batch
  <2>3. /\ b # 0 /\ Anchor!RootsAgree(b, S)
        /\ \A p \in Anchor!Held(q) : p \in anchorConfirmed /\ anchorBatchOf[p] \in {0, b}
        /\ \A o \in Panel \ {q} : Anchor!Writing(o) => anchorPanel[o].sel # S
           /\ Anchor!Held(o) \cap Anchor!Held(q) = {}
    BY <2>1, <2>2 DEF Anchor!WritesSound
  <2>4. Anchor!RootsAgree(anchorPanel[q].batch, anchorPanel[q].sel)'
    BY <1>1, <2>1, <2>3 DEF Anchor!RootsAgree
  <2>5. \A o \in Panel \ {q} : Anchor!Writing(o)' =>
          anchorPanel'[o].sel # anchorPanel'[q].sel /\ Anchor!Held(o)' \cap Anchor!Held(q)' = {}
    BY <1>7, <2>1, <2>3
  <2>. QED BY <2>1, <2>3, <2>4, <2>5
<1>. QED BY <1>3, <1>5, <1>6, <1>8 DEF Anchor!AnchorInv

(* One panel moves to a state in which it does not write.                  *)
LEMMA PanelMoves ==
  ASSUME Anchor!AnchorInv, NEW q \in Panel, NEW r, Anchor!Becomes(q, r), Anchor!Shaped(r),
         r.phase # "writing",
         UNCHANGED <<anchorConfirmed, anchorBatchOf, anchorProofOf, anchorForgotten>>,
         anchorChain' \in Seq(Nat), anchorBatches' \in [Anchor!Selection -> Anchor!RowSet],
         \A b \in 1 .. Len(anchorChain) : b \in 1 .. Len(anchorChain')
           /\ anchorChain'[b] = anchorChain[b],
         \A S \in Anchor!Selection : \/ anchorBatches'[S] = anchorBatches[S]
                                     \/ anchorBatches[S] = Anchor!NoRow
                                        /\ anchorBatches'[S] = Anchor!Previewed
  PROVE  Anchor!AnchorInv'
<1>1. Anchor!AnchorTypes
  BY DEF Anchor!AnchorInv
<1>2. \A o \in Panel : anchorPanel'[o] = IF o = q THEN r ELSE anchorPanel[o]
  BY <1>1 DEF Anchor!Becomes, Anchor!AnchorTypes
<1>3. \A o \in Panel : Anchor!Shaped(anchorPanel'[o])
  BY <1>1, <1>2 DEF Anchor!AnchorTypes
<1>4. anchorPanel' \in [Panel -> Anchor!PanelSet]
  BY <1>1 DEF Anchor!Becomes, Anchor!AnchorTypes, Anchor!Shaped
<1>5. Anchor!AnchorTypes'
  BY <1>1, <1>3, <1>4 DEF Anchor!AnchorTypes, Anchor!Shaped
<1>. QED BY <1>2, <1>5, QuietStep

LEMMA RefusedShape ==
  ASSUME Anchor!AnchorInv, NEW q \in Panel, anchorPanel[q].phase # "idle"
  PROVE  /\ Anchor!Shaped(Anchor!Refused(q)) /\ Anchor!Refused(q).phase = "preview"
         /\ Anchor!Shaped(Anchor!Idle) /\ Anchor!Idle.phase = "idle"
<1>1. anchorPanel[q] \in Anchor!PanelSet /\ Anchor!Shaped(anchorPanel[q])
  BY DEF Anchor!AnchorInv, Anchor!AnchorTypes
<1>2. Anchor!Refused(q) \in Anchor!PanelSet /\ Anchor!Refused(q).sel = anchorPanel[q].sel
      /\ Anchor!Refused(q).todo = {}
      /\ Anchor!Refused(q).phase = "preview"
  BY <1>1 DEF Anchor!Refused, Anchor!PanelSet
<1>3. Anchor!NoRow \in Anchor!RowSet
  BY DEF Anchor!NoRow, Anchor!RowSet
<1>4. Anchor!Shaped(Anchor!Idle) /\ Anchor!Idle.phase = "idle"
  BY <1>3 DEF Anchor!Idle, Anchor!PanelSet, Anchor!Shaped
<1>. QED BY <1>1, <1>2, <1>4 DEF Anchor!Shaped

LEMMA IndexKeeps ==
  ASSUME Anchor!AnchorInv, NEW p \in Payment, Anchor!Index(p)
  PROVE  Anchor!AnchorInv'
<1>1. Anchor!AnchorTypes'
  BY DEF Anchor!Index, Anchor!AnchorInv, Anchor!AnchorTypes, Anchor!Shaped, Anchor!bounds
<1>. QED BY <1>1, QuietStep DEF Anchor!Index

LEMMA PurgeKeeps ==
  ASSUME Anchor!AnchorInv, NEW l \in {0} \cup Payment, Anchor!Purge(l)
  PROVE  Anchor!AnchorInv'
<1>. DEFINE gone == {p \in anchorConfirmed : p > l}
<1>0. Anchor!AnchorTypes /\ gone \subseteq anchorConfirmed /\ gone \subseteq Payment
  BY DEF Anchor!AnchorInv, Anchor!AnchorTypes
<1>1. /\ \A q \in Panel : Anchor!Held(q) \cap gone = {}
      /\ anchorConfirmed' = anchorConfirmed \ gone
      /\ anchorBatchOf' = [p \in Payment |-> IF p \in gone THEN 0 ELSE anchorBatchOf[p]]
      /\ anchorProofOf' = [p \in Payment |-> IF p \in gone THEN <<>> ELSE anchorProofOf[p]]
      /\ anchorForgotten' = anchorForgotten \cup {p \in gone : anchorBatchOf[p] # 0}
      /\ UNCHANGED <<anchorBatches, anchorChain, anchorPanel>>
  BY DEF Anchor!Purge
<1>. HIDE DEF gone
<1>2. Anchor!AnchorTypes'
  <2>1. anchorBatchOf' \in [Payment -> Nat]
    BY <1>0, <1>1 DEF Anchor!AnchorTypes
  <2>2. <<>> \in Seq(Nat)
    OBVIOUS
  <2>3. anchorProofOf' \in [Payment -> Seq(Nat)]
    BY <1>0, <1>1, <2>2 DEF Anchor!AnchorTypes
  <2>. QED BY <1>0, <1>1, <2>1, <2>3 DEF Anchor!AnchorTypes, Anchor!Shaped
<1>3. Anchor!RowsAnchored'
  BY <1>1 DEF Anchor!AnchorInv, Anchor!RowsAnchored, Anchor!RootsAgree
<1>4. \A p \in Payment : \/ anchorBatchOf'[p] = 0
                         \/ anchorBatchOf'[p] = anchorBatchOf[p]
                            /\ anchorProofOf'[p] = anchorProofOf[p]
  BY <1>1
<1>5. Anchor!PaymentsRecorded'
  BY <1>1, <1>4 DEF Anchor!AnchorInv, Anchor!PaymentsRecorded
<1>6. Anchor!BatchIsWhole'
  <2>. SUFFICES ASSUME NEW S \in Anchor!Selection, anchorBatches[S].status = "recorded", NEW p \in S
                PROVE  anchorBatchOf'[p] = anchorBatches[S].batch \/ p \in anchorForgotten'
    BY <1>1 DEF Anchor!BatchIsWhole
  <2>1. p \in Payment /\ anchorBatches[S].batch # 0
    BY DEF Anchor!Selection, Anchor!AnchorInv, Anchor!RowsAnchored
  <2>2. anchorBatchOf[p] = anchorBatches[S].batch \/ p \in anchorForgotten
    BY DEF Anchor!AnchorInv, Anchor!BatchIsWhole
  <2>. QED BY <1>1, <2>1, <2>2
<1>7. ASSUME NEW q \in Panel PROVE Anchor!WritesSound(q)'
  <2>1. Anchor!Held(q)' = Anchor!Held(q) /\ (Anchor!Writing(q)' <=> Anchor!Writing(q))
        /\ \A o \in Panel : Anchor!Held(o)' = Anchor!Held(o)
           /\ (Anchor!Writing(o)' <=> Anchor!Writing(o))
    BY <1>1 DEF Anchor!Held, Anchor!Writing
  <2>2. \A p \in Anchor!Held(q) : p \in Payment /\ p \notin gone
    BY <1>0, <1>1 DEF Anchor!Held, Anchor!AnchorTypes, Anchor!PanelSet
  <2>. QED BY <1>0, <1>1, <1>4, <2>1, <2>2 DEF Anchor!AnchorInv, Anchor!WritesSound,
                                               Anchor!RootsAgree
<1>. QED BY <1>2, <1>3, <1>5, <1>6, <1>7 DEF Anchor!AnchorInv

(* The first payments are some, when there are any.                        *)
LEMMA FirstAreSome ==
  ASSUME Anchor!AnchoringAssumption, MerkleAssumption, NEW S, S \subseteq Payment, S # {}
  PROVE  Anchor!FirstBatch(S) \subseteq Payment /\ Anchor!FirstBatch(S) # {}
<1>1. S \subseteq Nat
  BY PaymentTypes
<1>2. PICK p \in S : \A r \in S : p <= r
  BY <1>1, LeastElement
<1>3. {r \in S : r <= p} = {p}
  <2>1. \A r \in S : r <= p => r = p
    <3>. TAKE r \in S
    <3>1. r \in Nat /\ p \in Nat /\ p <= r
      BY <1>1, <1>2
    <3>. QED BY <3>1
  <2>2. p <= p
    <3>1. p \in Nat
      BY <1>1
    <3>. QED BY <3>1
  <2>. QED BY <2>1, <2>2
<1>4. Anchor!Rank(S, p) = 1
  BY <1>3, FS_Singleton, AnchorCount DEF Anchor!Rank
<1>5. p \in Anchor!FirstBatch(S)
  BY <1>4, PaymentTypes DEF Anchor!FirstBatch
<1>. QED BY <1>5 DEF Anchor!FirstBatch

LEMMA ChainGrows ==
  ASSUME Anchor!AnchoringAssumption, MerkleAssumption, Anchor!AnchorInv, NEW q \in Panel,
         anchorPanel[q].phase # "idle", Anchor!AnchorBatch(q) \/ UNCHANGED anchorChain
  PROVE  /\ anchorChain' \in Seq(Nat)
         /\ \A b \in 1 .. Len(anchorChain) : b \in 1 .. Len(anchorChain')
            /\ anchorChain'[b] = anchorChain[b]
<1>1. anchorChain \in Seq(Nat) /\ Anchor!Root(anchorPanel[q].sel) \in Nat
  BY RootNumber DEF Anchor!AnchorInv, Anchor!AnchorTypes, Anchor!Shaped, Anchor!PanelSet,
                    Anchor!Selection
<1>. QED BY <1>1 DEF Anchor!AnchorBatch

LEMMA ScreenMoves ==
  ASSUME Anchor!AnchoringAssumption, MerkleAssumption, Anchor!AnchorInv, NEW q \in Panel,
         \/ Anchor!LoadUnanchored(q) \/ Anchor!PersistPreview(q) \/ Anchor!SkipSigning(q)
         \/ Anchor!Sign(q) \/ Anchor!SignUnconfirmed(q) \/ Anchor!RecordByHand(q)
         \/ Anchor!RequestFails(q) \/ Anchor!Cancel(q)
  PROVE  Anchor!AnchorInv'
<1>. USE DEF Anchor!payments, Anchor!bounds
<1>0. /\ anchorPanel[q] \in Anchor!PanelSet /\ Anchor!Shaped(anchorPanel[q])
         /\ anchorChain \in Seq(Nat) /\ Len(anchorChain) \in Nat
      /\ anchorBatches \in [Anchor!Selection -> Anchor!RowSet] /\ anchorConfirmed \subseteq Payment
  BY DEF Anchor!AnchorInv, Anchor!AnchorTypes
<1>1. Anchor!NoRow \in Anchor!RowSet /\ Anchor!Previewed \in Anchor!RowSet
  BY DEF Anchor!NoRow, Anchor!Previewed, Anchor!RowSet
<1>2. Anchor!Shaped(Anchor!Idle) /\ Anchor!Idle.phase # "writing"
  BY <1>1 DEF Anchor!Idle, Anchor!Shaped, Anchor!PanelSet
<1>3. CASE Anchor!LoadUnanchored(q)
  <2>. DEFINE r == [Anchor!Idle EXCEPT !.phase = "loaded",
                                       !.sel = Anchor!FirstBatch(Anchor!Unanchored)]
  <2>1. Anchor!FirstBatch(Anchor!Unanchored) \subseteq Payment
        /\ Anchor!FirstBatch(Anchor!Unanchored) # {}
    BY <1>0, <1>3, FirstAreSome DEF Anchor!LoadUnanchored, Anchor!Unanchored
  <2>2. Anchor!Shaped(r) /\ r.phase # "writing"
    BY <1>1, <2>1 DEF Anchor!Idle, Anchor!Shaped, Anchor!PanelSet
  <2>3. Anchor!Becomes(q, r)
    BY <1>3 DEF Anchor!LoadUnanchored
  <2>. HIDE DEF r
  <2>. QED BY <1>0, <1>3, <2>2, <2>3, PanelMoves DEF Anchor!LoadUnanchored
<1>4. CASE Anchor!PersistPreview(q)
  <2>. DEFINE S == anchorPanel[q].sel
              r == [anchorPanel[q] EXCEPT !.phase = "preview", !.existing = anchorBatches[S]]
  <2>1. S \in Anchor!Selection /\ anchorPanel[q].phase = "loaded"
    BY <1>0, <1>4 DEF Anchor!PersistPreview, Anchor!Shaped, Anchor!PanelSet, Anchor!Selection
  <2>2. anchorBatches[S] \in Anchor!RowSet
    BY <1>0, <2>1
  <2>3. r \in Anchor!PanelSet /\ r.phase = "preview" /\ r.sel = S /\ r.todo = anchorPanel[q].todo
    BY <1>0, <2>2 DEF Anchor!PanelSet
  <2>4. Anchor!Shaped(r)
    BY <1>0, <2>1, <2>3 DEF Anchor!Shaped
  <2>5. Anchor!Becomes(q, r)
    BY <1>4 DEF Anchor!PersistPreview
  <2>6. /\ anchorBatches' \in [Anchor!Selection -> Anchor!RowSet]
        /\ \A T \in Anchor!Selection : \/ anchorBatches'[T] = anchorBatches[T]
                                       \/ anchorBatches[T] = Anchor!NoRow
                                          /\ anchorBatches'[T] = Anchor!Previewed
    BY <1>0, <1>1, <1>4 DEF Anchor!PersistPreview
  <2>. HIDE DEF r
  <2>. QED BY <1>0, <1>4, <2>3, <2>4, <2>5, <2>6, PanelMoves DEF Anchor!PersistPreview
<1>5. ASSUME NEW b \in Nat, anchorPanel[q].phase = "preview", NEW e \in BOOLEAN
      PROVE  Anchor!Shaped([anchorPanel[q] EXCEPT !.phase = "recording", !.batch = b, !.error = e])
             /\ [anchorPanel[q] EXCEPT !.phase = "recording", !.batch = b,
                                        !.error = e].phase # "writing"
             /\ Anchor!Shaped([anchorPanel[q] EXCEPT !.phase = "recording", !.batch = b])
             /\ [anchorPanel[q] EXCEPT !.phase = "recording", !.batch = b].phase # "writing"
  BY <1>0, <1>5 DEF Anchor!Shaped, Anchor!PanelSet
<1>6. CASE Anchor!SkipSigning(q)
  <2>. DEFINE r == [anchorPanel[q] EXCEPT !.phase = "recording",
                                          !.batch = anchorPanel[q].existing.batch]
  <2>1. anchorPanel[q].existing.batch \in Nat /\ anchorPanel[q].phase = "preview"
    BY <1>0, <1>6 DEF Anchor!SkipSigning, Anchor!PanelSet, Anchor!RowSet
  <2>. QED BY <1>0, <1>2, <1>5, <1>6, <2>1, PanelMoves DEF Anchor!SkipSigning
<1>7. CASE Anchor!Sign(q)
  <2>. DEFINE r == [anchorPanel[q] EXCEPT !.phase = "recording", !.batch = Len(anchorChain) + 1,
                                          !.error = FALSE]
  <2>0. Len(anchorChain) + 1 \in Nat /\ FALSE \in BOOLEAN /\ anchorPanel[q].phase = "preview"
    BY <1>0, <1>7 DEF Anchor!Sign
  <2>1. Anchor!Shaped(r) /\ r.phase # "writing"
    BY <1>5, <2>0
  <2>2. Anchor!Becomes(q, r) /\ Anchor!AnchorBatch(q) /\ anchorPanel[q].phase # "idle"
    BY <1>7 DEF Anchor!Sign
  <2>. HIDE DEF r
  <2>. QED BY <1>0, <1>7, <2>1, <2>2, ChainGrows, PanelMoves DEF Anchor!Sign
<1>8. CASE Anchor!SignUnconfirmed(q)
  <2>1. Anchor!AnchorBatch(q) \/ UNCHANGED anchorChain
    BY <1>8 DEF Anchor!SignUnconfirmed
  <2>2. anchorPanel[q].phase # "idle"
    BY <1>8 DEF Anchor!SignUnconfirmed
  <2>3. \E r : Anchor!Becomes(q, r) /\ Anchor!Shaped(r) /\ r.phase # "writing"
    BY <1>8, <2>2, RefusedShape DEF Anchor!SignUnconfirmed
  <2>. QED BY <1>0, <1>8, <2>1, <2>2, <2>3, ChainGrows, PanelMoves DEF Anchor!SignUnconfirmed
<1>9. CASE Anchor!RecordByHand(q)
  <2>1. PICK b \in 1 .. Len(anchorChain) :
          Anchor!Becomes(q, [anchorPanel[q] EXCEPT !.phase = "recording", !.batch = b])
    BY <1>9 DEF Anchor!RecordByHand
  <2>. DEFINE r == [anchorPanel[q] EXCEPT !.phase = "recording", !.batch = b]
  <2>0. b \in Nat /\ anchorPanel[q].phase = "preview"
    <3>1. anchorPanel[q].phase = "preview"
      BY <1>9 DEF Anchor!RecordByHand
    <3>. QED BY <1>0, <3>1
  <2>2. Anchor!Becomes(q, r) /\ Anchor!Shaped(r) /\ r.phase # "writing"
    <3>1. TRUE \in BOOLEAN
      OBVIOUS
    <3>. QED BY <1>5, <2>0, <2>1, <3>1
  <2>. HIDE DEF r
  <2>. QED BY <1>0, <1>9, <2>2, PanelMoves DEF Anchor!RecordByHand
<1>10. CASE Anchor!RequestFails(q)
  <2>1. \E r : Anchor!Becomes(q, r) /\ Anchor!Shaped(r) /\ r.phase # "writing"
    BY <1>10, RefusedShape DEF Anchor!RequestFails
  <2>. QED BY <1>0, <1>10, <2>1, PanelMoves DEF Anchor!RequestFails
<1>11. CASE Anchor!Cancel(q)
  BY <1>0, <1>2, <1>11, PanelMoves DEF Anchor!Cancel
<1>. QED BY <1>3, <1>4, <1>6, <1>7, <1>8, <1>9, <1>10, <1>11

(* A panel that locks a selection has written nothing yet, one that writes *)
(* a payment has it to itself.                                             *)
LEMMA WriterMoves ==
  ASSUME Anchor!AnchorInv, NEW q \in Panel, NEW r, Anchor!Becomes(q, r), Anchor!Shaped(r),
         r.phase = "writing",
         UNCHANGED <<anchorConfirmed, anchorBatchOf, anchorProofOf, anchorForgotten,
                     anchorChain, anchorBatches>>,
         r.batch # 0, Anchor!RootsAgree(r.batch, r.sel),
         \A p \in r.sel \ r.todo : p \in anchorConfirmed /\ anchorBatchOf[p] \in {0, r.batch},
         \A o \in Panel \ {q} : Anchor!Writing(o) =>
           anchorPanel[o].sel # r.sel /\ Anchor!Held(o) \cap (r.sel \ r.todo) = {}
  PROVE  Anchor!AnchorInv'
<1>1. Anchor!AnchorTypes
  BY DEF Anchor!AnchorInv
<1>2. \A o \in Panel : anchorPanel'[o] = IF o = q THEN r ELSE anchorPanel[o]
  BY <1>1 DEF Anchor!Becomes, Anchor!AnchorTypes
<1>3. Anchor!AnchorTypes'
  <2>1. anchorPanel' \in [Panel -> Anchor!PanelSet]
    BY <1>1 DEF Anchor!Becomes, Anchor!AnchorTypes, Anchor!Shaped
  <2>. QED BY <1>1, <1>2, <2>1 DEF Anchor!AnchorTypes, Anchor!Shaped
<1>4. Anchor!RowsAnchored' /\ Anchor!PaymentsRecorded' /\ Anchor!BatchIsWhole'
  BY DEF Anchor!AnchorInv, Anchor!RowsAnchored, Anchor!PaymentsRecorded, Anchor!BatchIsWhole,
     Anchor!RootsAgree
<1>5. Anchor!Writing(q)' /\ Anchor!Held(q)' = r.sel \ r.todo /\ anchorPanel'[q] = r
  BY <1>2 DEF Anchor!Writing, Anchor!Held
<1>6. \A o \in Panel \ {q} : /\ anchorPanel'[o] = anchorPanel[o] /\ Anchor!Held(o)' = Anchor!Held(o)
                             /\ Anchor!Writing(o)' <=> Anchor!Writing(o)
  BY <1>2 DEF Anchor!Writing, Anchor!Held
<1>7. Anchor!WritesSound(q)'
  <2>1. Anchor!RootsAgree(anchorPanel[q].batch, anchorPanel[q].sel)'
    BY <1>5 DEF Anchor!RootsAgree
  <2>. QED BY <1>5, <1>6, <2>1 DEF Anchor!WritesSound
<1>8. ASSUME NEW o \in Panel \ {q} PROVE Anchor!WritesSound(o)'
  <2>1. Anchor!RootsAgree(anchorPanel[o].batch, anchorPanel[o].sel)' <=>
          Anchor!RootsAgree(anchorPanel[o].batch, anchorPanel[o].sel)
    BY <1>6 DEF Anchor!RootsAgree
  <2>2. Anchor!WritesSound(o)
    BY DEF Anchor!AnchorInv
  <2>. SUFFICES ASSUME Anchor!Writing(o)'
       PROVE  /\ anchorPanel'[o].batch # 0
                 /\ Anchor!RootsAgree(anchorPanel[o].batch, anchorPanel[o].sel)'
              /\ \A p \in Anchor!Held(o)' : p \in anchorConfirmed'
                 /\ anchorBatchOf'[p] \in {0, anchorPanel'[o].batch}
              /\ \A x \in Panel \ {o} : Anchor!Writing(x)' =>
                   anchorPanel'[x].sel # anchorPanel'[o].sel
                     /\ Anchor!Held(x)' \cap Anchor!Held(o)' = {}
    BY DEF Anchor!WritesSound
  <2>3. Anchor!Writing(o) /\ anchorPanel'[o] = anchorPanel[o] /\ Anchor!Held(o)' = Anchor!Held(o)
    BY <1>6
  <2>4. ASSUME NEW x \in Panel \ {o}, Anchor!Writing(x)'
        PROVE  anchorPanel'[x].sel # anchorPanel'[o].sel
                 /\ Anchor!Held(x)' \cap Anchor!Held(o)' = {}
    <3>1. CASE x = q
      BY <1>5, <2>3, <3>1
    <3>2. CASE x # q
      <4>1. Anchor!Writing(x) /\ anchorPanel'[x] = anchorPanel[x]
            /\ Anchor!Held(x)' = Anchor!Held(x)
        BY <1>6, <2>4, <3>2
      <4>. QED BY <2>2, <2>3, <4>1 DEF Anchor!WritesSound
    <3>. QED BY <3>1, <3>2
  <2>. QED BY <2>1, <2>2, <2>3, <2>4 DEF Anchor!WritesSound
<1>. QED BY <1>3, <1>4, <1>7, <1>8 DEF Anchor!AnchorInv

LEMMA LockKeeps ==
  ASSUME Anchor!AnchorInv, NEW q \in Panel, Anchor!LockBatch(q)
  PROVE  Anchor!AnchorInv'
<1>. USE DEF Anchor!payments, Anchor!bounds
<1>. DEFINE S == anchorPanel[q].sel
            b == anchorPanel[q].batch
            r == [anchorPanel[q] EXCEPT !.phase = "writing", !.todo = S]
<1>0. /\ anchorPanel[q] \in Anchor!PanelSet /\ Anchor!Shaped(anchorPanel[q])
         /\ anchorPanel[q].phase = "recording"
      /\ anchorChain \in Seq(Nat) /\ anchorBatches \in [Anchor!Selection -> Anchor!RowSet]
  BY DEF Anchor!AnchorInv, Anchor!AnchorTypes, Anchor!LockBatch
<1>1. Anchor!Shaped(Anchor!Refused(q)) /\ Anchor!Refused(q).phase = "preview"
      /\ Anchor!Shaped(Anchor!Idle) /\ Anchor!Idle.phase = "idle"
  BY <1>0, RefusedShape
<1>2. /\ \A o \in Panel : Anchor!Writing(o) => anchorPanel[o].sel # S
      /\ UNCHANGED <<anchorConfirmed, anchorBatchOf, anchorProofOf, anchorForgotten,
                     anchorChain, anchorBatches>>
      /\ \/ Anchor!Becomes(q, Anchor!Refused(q)) \/ Anchor!Becomes(q, Anchor!Idle)
         \/ Anchor!Becomes(q, r) /\ Anchor!RootsAgree(b, S) /\ anchorBatches[S].batch \in {0, b}
  BY DEF Anchor!LockBatch
<1>3. CASE Anchor!Becomes(q, Anchor!Refused(q)) \/ Anchor!Becomes(q, Anchor!Idle)
  BY <1>0, <1>1, <1>2, <1>3, PanelMoves
<1>4. CASE Anchor!Becomes(q, r) /\ Anchor!RootsAgree(b, S)
  <2>1. r \in Anchor!PanelSet /\ r.phase = "writing" /\ r.sel = S /\ r.todo = S /\ r.batch = b
    BY <1>0 DEF Anchor!PanelSet
  <2>. HIDE DEF r
  <2>2. Anchor!Shaped(r)
    BY <1>0, <2>1 DEF Anchor!Shaped
  <2>3. b # 0
    BY <1>4 DEF Anchor!RootsAgree
  <2>4. r.sel \ r.todo = {}
    BY <2>1
  <2>. QED BY <1>2, <1>4, <2>1, <2>2, <2>3, <2>4, WriterMoves
<1>. QED BY <1>2, <1>3, <1>4

LEMMA UpdateKeeps ==
  ASSUME Anchor!AnchoringAssumption, MerkleAssumption, Anchor!AnchorInv, NEW q \in Panel,
         Anchor!UpdatePayment(q)
  PROVE  Anchor!AnchorInv'
<1>. USE DEF Anchor!payments, Anchor!bounds
<1>. DEFINE p == CHOOSE s \in anchorPanel[q].todo : \A u \in anchorPanel[q].todo : s <= u
            r == [anchorPanel[q] EXCEPT !.todo = @ \ {p}]
<1>0. /\ anchorPanel[q] \in Anchor!PanelSet /\ Anchor!Shaped(anchorPanel[q])
         /\ anchorPanel[q].phase = "writing"
      /\ anchorChain \in Seq(Nat) /\ anchorBatches \in [Anchor!Selection -> Anchor!RowSet]
         /\ Anchor!Writing(q)
      /\ Anchor!WritesSound(q) /\ anchorPanel[q].todo # {}
  BY DEF Anchor!AnchorInv, Anchor!AnchorTypes, Anchor!UpdatePayment, Anchor!Writing
<1>1. Anchor!Shaped(Anchor!Refused(q)) /\ Anchor!Refused(q).phase = "preview"
  BY <1>0, RefusedShape
<1>2. /\ \A o \in Panel \ {q} : p \notin Anchor!Held(o)
      /\ UNCHANGED <<anchorConfirmed, anchorBatchOf, anchorProofOf, anchorForgotten,
                     anchorChain, anchorBatches>>
      /\ \/ Anchor!Becomes(q, Anchor!Refused(q))
         \/ Anchor!Becomes(q, r) /\ p \in anchorConfirmed
            /\ anchorBatchOf[p] \in {0, anchorPanel[q].batch}
  BY DEF Anchor!UpdatePayment, Anchor!Updatable
<1>. HIDE DEF p
<1>3. CASE Anchor!Becomes(q, Anchor!Refused(q))
  BY <1>0, <1>1, <1>2, <1>3, PanelMoves
<1>4. CASE Anchor!Becomes(q, r) /\ p \in anchorConfirmed
           /\ anchorBatchOf[p] \in {0, anchorPanel[q].batch}
  <2>1. /\ r \in Anchor!PanelSet /\ r.phase = "writing" /\ r.sel = anchorPanel[q].sel
        /\ r.todo = anchorPanel[q].todo \ {p} /\ r.batch = anchorPanel[q].batch
    BY <1>0 DEF Anchor!PanelSet
  <2>. HIDE DEF r
  <2>2. Anchor!Shaped(r)
    BY <1>0, <2>1 DEF Anchor!Shaped
  <2>3. r.sel \ r.todo \subseteq Anchor!Held(q) \cup {p}
    BY <1>0, <2>1 DEF Anchor!Held
  <2>4. /\ anchorPanel[q].batch # 0 /\ Anchor!RootsAgree(anchorPanel[q].batch, anchorPanel[q].sel)
        /\ \A s \in Anchor!Held(q) : s \in anchorConfirmed
           /\ anchorBatchOf[s] \in {0, anchorPanel[q].batch}
        /\ \A o \in Panel \ {q} : Anchor!Writing(o) =>
             anchorPanel[o].sel # anchorPanel[q].sel /\ Anchor!Held(o) \cap Anchor!Held(q) = {}
    BY <1>0 DEF Anchor!WritesSound
  <2>5. \A s \in r.sel \ r.todo : s \in anchorConfirmed /\ anchorBatchOf[s] \in {0, r.batch}
    BY <1>4, <2>1, <2>3, <2>4
  <2>6. \A o \in Panel \ {q} : Anchor!Writing(o) =>
          anchorPanel[o].sel # r.sel /\ Anchor!Held(o) \cap (r.sel \ r.todo) = {}
    BY <1>2, <2>1, <2>3, <2>4
  <2>. QED BY <1>2, <1>4, <2>1, <2>2, <2>4, <2>5, <2>6, WriterMoves
<1>. QED BY <1>2, <1>3, <1>4

(* What a commit finds: its rows are free or carry its batch already, and  *)
(* then with the same proof.                                               *)
LEMMA CommitFinds ==
  ASSUME Anchor!AnchoringAssumption, MerkleAssumption, Anchor!AnchorInv, NEW q \in Panel,
         Anchor!Commit(q)
  PROVE  LET S == anchorPanel[q].sel
             b == anchorPanel[q].batch
         IN  /\ S \in Anchor!Selection /\ S = Anchor!Held(q)
             /\ b # 0 /\ Anchor!RootsAgree(b, S) /\ b \in Nat
             /\ \A p \in S : p \in anchorConfirmed /\ anchorBatchOf[p] \in {0, b}
             /\ \A p \in S : anchorBatchOf[p] = b => anchorProofOf[p] = Anchor!Written(S, p)
<1>. DEFINE S == anchorPanel[q].sel
            b == anchorPanel[q].batch
<1>1. /\ anchorPanel[q] \in Anchor!PanelSet /\ Anchor!Shaped(anchorPanel[q])
         /\ anchorPanel[q].phase = "writing" /\ Anchor!Writing(q)
      /\ Anchor!WritesSound(q) /\ anchorPanel[q].todo = {}
  BY DEF Anchor!AnchorInv, Anchor!AnchorTypes, Anchor!Commit, Anchor!Writing
<1>2. S \in Anchor!Selection /\ S = Anchor!Held(q) /\ b \in Nat
  BY <1>1 DEF Anchor!Shaped, Anchor!PanelSet, Anchor!Selection, Anchor!Held
<1>3. /\ b # 0 /\ Anchor!RootsAgree(b, S)
      /\ \A p \in S : p \in anchorConfirmed /\ anchorBatchOf[p] \in {0, b}
  BY <1>1, <1>2 DEF Anchor!WritesSound
<1>4. ASSUME NEW p \in S, anchorBatchOf[p] = b PROVE anchorProofOf[p] = Anchor!Written(S, p)
  <2>1. p \in Payment
    BY <1>2 DEF Anchor!Selection
  <2>2. PICK T \in Anchor!Selection : /\ p \in T /\ anchorBatches[T] = Anchor!RecordedRow(b)
                                      /\ anchorProofOf[p] = Anchor!Written(T, p)
    BY <1>3, <1>4, <2>1 DEF Anchor!AnchorInv, Anchor!PaymentsRecorded
  <2>3. Anchor!RootsAgree(b, T)
    BY <2>2 DEF Anchor!AnchorInv, Anchor!RowsAnchored, Anchor!RecordedRow
  <2>4. Anchor!Root(S) = Anchor!Root(T)
    BY <1>3, <2>3 DEF Anchor!RootsAgree
  <2>5. S = T
    BY <1>2, <2>4, RootsTell
  <2>. QED BY <2>2, <2>5
<1>. QED BY <1>2, <1>3, <1>4

LEMMA CommitKeeps ==
  ASSUME Anchor!AnchoringAssumption, MerkleAssumption, Anchor!AnchorInv, NEW q \in Panel,
         Anchor!Commit(q)
  PROVE  Anchor!AnchorInv'
<1>. DEFINE S == anchorPanel[q].sel
            b == anchorPanel[q].batch
<1>0. Anchor!AnchorTypes /\ Anchor!Writing(q) /\ anchorPanel[q].phase = "writing"
  BY DEF Anchor!AnchorInv, Anchor!Commit, Anchor!Writing
<1>1. /\ S \in Anchor!Selection /\ S = Anchor!Held(q) /\ b # 0 /\ Anchor!RootsAgree(b, S)
         /\ b \in Nat
      /\ \A p \in S : p \in anchorConfirmed /\ anchorBatchOf[p] \in {0, b}
  BY CommitFinds
<1>2. /\ anchorBatches' = [anchorBatches EXCEPT ![S] = Anchor!RecordedRow(b)]
      /\ anchorBatchOf' = [p \in Payment |-> IF p \in S THEN b ELSE anchorBatchOf[p]]
      /\ anchorProofOf' = [p \in Payment |->
                            IF p \in S THEN Anchor!Written(S, p) ELSE anchorProofOf[p]]
      /\ UNCHANGED <<anchorConfirmed, anchorChain, anchorForgotten>>
      /\ Anchor!Becomes(q, Anchor!Idle) \/ Anchor!Becomes(q, Anchor!Refused(q))
  BY DEF Anchor!Commit
<1>3. PICK r : Anchor!Becomes(q, r) /\ Anchor!Shaped(r) /\ r.phase # "writing"
  BY <1>0, <1>2, RefusedShape
<1>. HIDE DEF S, b
<1>4. \A o \in Panel : anchorPanel'[o] = IF o = q THEN r ELSE anchorPanel[o]
  BY <1>0, <1>3 DEF Anchor!Becomes, Anchor!AnchorTypes
<1>5. /\ anchorBatches'[S] = Anchor!RecordedRow(b)
      /\ \A T \in Anchor!Selection : T # S => anchorBatches'[T] = anchorBatches[T]
  BY <1>0, <1>1, <1>2 DEF Anchor!AnchorTypes
<1>6. Anchor!AnchorTypes'
  <2>1. anchorPanel' \in [Panel -> Anchor!PanelSet]
    BY <1>0, <1>3 DEF Anchor!Becomes, Anchor!AnchorTypes, Anchor!Shaped
  <2>2. Anchor!RecordedRow(b) \in Anchor!RowSet
    BY <1>1 DEF Anchor!RecordedRow, Anchor!RowSet
  <2>3. anchorBatches' \in [Anchor!Selection -> Anchor!RowSet]
    BY <1>0, <1>2, <2>2 DEF Anchor!AnchorTypes
  <2>4. anchorBatchOf' \in [Payment -> Nat]
    BY <1>0, <1>1, <1>2 DEF Anchor!AnchorTypes
  <2>5. \A p \in S : Anchor!Written(S, p) \in Seq(Nat)
    BY <1>1, WrittenVerifies
  <2>6. anchorProofOf' \in [Payment -> Seq(Nat)]
    BY <1>0, <1>2, <2>5 DEF Anchor!AnchorTypes
  <2>7. \A o \in Panel : Anchor!Shaped(anchorPanel'[o])
    BY <1>0, <1>3, <1>4 DEF Anchor!AnchorTypes
  <2>. QED BY <1>0, <1>2, <2>1, <2>3, <2>4, <2>6, <2>7 DEF Anchor!AnchorTypes, Anchor!Shaped
<1>7. Anchor!RowsAnchored'
  <2>. SUFFICES ASSUME NEW T \in Anchor!Selection, anchorBatches'[T].status = "recorded"
                PROVE  anchorBatches'[T].batch # 0 /\ Anchor!RootsAgree(anchorBatches'[T].batch, T)
    BY <1>2 DEF Anchor!RowsAnchored, Anchor!RootsAgree
  <2>1. CASE T = S
    BY <1>1, <1>5, <2>1 DEF Anchor!RecordedRow
  <2>2. CASE T # S
    BY <1>5, <2>2 DEF Anchor!AnchorInv, Anchor!RowsAnchored
  <2>. QED BY <2>1, <2>2
<1>8. Anchor!PaymentsRecorded'
  <2>. SUFFICES ASSUME NEW p \in Payment, anchorBatchOf'[p] # 0
                PROVE  \E T \in Anchor!Selection : /\ p \in T
                         /\ anchorBatches'[T] = Anchor!RecordedRow(anchorBatchOf'[p])
                                                   /\ anchorProofOf'[p] = Anchor!Written(T, p)
    BY DEF Anchor!PaymentsRecorded, Anchor!RecordedRow, Anchor!Written
  <2>1. CASE p \in S
    BY <1>1, <1>2, <1>5, <2>1
  <2>2. CASE p \notin S
    <3>1. PICK T \in Anchor!Selection : /\ p \in T
               /\ anchorBatches[T] = Anchor!RecordedRow(anchorBatchOf[p])
                                        /\ anchorProofOf[p] = Anchor!Written(T, p)
      BY <1>2, <2>2 DEF Anchor!AnchorInv, Anchor!PaymentsRecorded
    <3>. QED BY <1>2, <1>5, <2>2, <3>1
  <2>. QED BY <2>1, <2>2
<1>9. Anchor!BatchIsWhole'
  <2>. SUFFICES ASSUME NEW T \in Anchor!Selection, anchorBatches'[T].status = "recorded",
                       NEW p \in T
                PROVE  anchorBatchOf'[p] = anchorBatches'[T].batch \/ p \in anchorForgotten
    BY <1>2 DEF Anchor!BatchIsWhole
  <2>0. p \in Payment
    BY DEF Anchor!Selection
  <2>1. CASE T = S
    BY <1>2, <1>5, <2>0, <2>1 DEF Anchor!RecordedRow
  <2>2. CASE T # S
    <3>1. anchorBatches'[T] = anchorBatches[T]
      BY <1>5, <2>2
    <3>2. anchorBatchOf[p] = anchorBatches[T].batch \/ p \in anchorForgotten
      BY <3>1 DEF Anchor!AnchorInv, Anchor!BatchIsWhole
    <3>3. anchorBatches[T].batch # 0
      BY <3>1 DEF Anchor!AnchorInv, Anchor!RowsAnchored
    <3>. QED BY <1>1, <1>2, <2>0, <3>1, <3>2, <3>3
  <2>. QED BY <2>1, <2>2
<1>10. ASSUME NEW o \in Panel PROVE Anchor!WritesSound(o)'
  <2>. SUFFICES ASSUME Anchor!Writing(o)'
       PROVE  /\ anchorPanel'[o].batch # 0
                 /\ Anchor!RootsAgree(anchorPanel[o].batch, anchorPanel[o].sel)'
              /\ \A p \in Anchor!Held(o)' : p \in anchorConfirmed'
                 /\ anchorBatchOf'[p] \in {0, anchorPanel'[o].batch}
              /\ \A x \in Panel \ {o} : Anchor!Writing(x)' =>
                   anchorPanel'[x].sel # anchorPanel'[o].sel
                     /\ Anchor!Held(x)' \cap Anchor!Held(o)' = {}
    BY DEF Anchor!WritesSound
  <2>1. \A x \in Panel : Anchor!Writing(x)' => /\ x # q /\ Anchor!Writing(x)
        /\ anchorPanel'[x] = anchorPanel[x]
                                               /\ Anchor!Held(x)' = Anchor!Held(x)
    BY <1>3, <1>4 DEF Anchor!Writing, Anchor!Held
  <2>2. o # q /\ Anchor!Writing(o) /\ anchorPanel'[o] = anchorPanel[o]
        /\ Anchor!Held(o)' = Anchor!Held(o)
    BY <2>1
  <2>3. /\ anchorPanel[o].batch # 0 /\ Anchor!RootsAgree(anchorPanel[o].batch, anchorPanel[o].sel)
        /\ \A p \in Anchor!Held(o) : p \in anchorConfirmed
           /\ anchorBatchOf[p] \in {0, anchorPanel[o].batch}
        /\ \A x \in Panel \ {o} : Anchor!Writing(x) =>
             anchorPanel[x].sel # anchorPanel[o].sel /\ Anchor!Held(x) \cap Anchor!Held(o) = {}
    BY <2>2 DEF Anchor!AnchorInv, Anchor!WritesSound
  <2>4. Anchor!Held(o) \cap S = {}
    BY <1>0, <1>1, <2>2, <2>3
  <2>5. Anchor!Held(o) \subseteq Payment
    BY <1>0, <2>3 DEF Anchor!AnchorTypes
  <2>6. \A p \in Anchor!Held(o) : anchorBatchOf'[p] = anchorBatchOf[p]
    BY <1>2, <2>4, <2>5
  <2>7. Anchor!RootsAgree(anchorPanel[o].batch, anchorPanel[o].sel)'
    BY <1>2, <2>2, <2>3 DEF Anchor!RootsAgree
  <2>. QED BY <1>2, <2>1, <2>2, <2>3, <2>6, <2>7
<1>. QED BY <1>6, <1>7, <1>8, <1>9, <1>10 DEF Anchor!AnchorInv

LEMMA AnchorStep ==
  ASSUME Anchor!AnchoringAssumption, MerkleAssumption, Anchor!AnchorInv, [Anchor!Next]_(Anchor!vars)
  PROVE  Anchor!AnchorInv'
<1>1. CASE UNCHANGED Anchor!vars
  <2>1. Anchor!AnchorTypes'
    BY <1>1 DEF Anchor!vars, Anchor!AnchorInv, Anchor!AnchorTypes, Anchor!Shaped
  <2>. QED BY <1>1, <2>1, QuietStep DEF Anchor!vars
<1>. QED BY <1>1, IndexKeeps, PurgeKeeps, ScreenMoves, LockKeeps, UpdateKeeps, CommitKeeps
         DEF Anchor!Next, Anchor!Step

LEMMA AnchorSound ==
  ASSUME Anchor!AnchoringAssumption, MerkleAssumption, Anchor!AnchorInv
  PROVE  Anchor!ReceiptsVerify /\ Anchor!BatchIsWhole
<1>1. ASSUME NEW p \in Payment, anchorBatchOf[p] # 0
      PROVE  /\ Cardinality(Anchor!Proof(p)) = 1
             /\ Anchor!VerifyReceipt(p, anchorProofOf[p], anchorChain[anchorBatchOf[p]])
  <2>1. PICK S \in Anchor!Selection : /\ p \in S
             /\ anchorBatches[S] = Anchor!RecordedRow(anchorBatchOf[p])
                                      /\ anchorProofOf[p] = Anchor!Written(S, p)
    BY <1>1 DEF Anchor!AnchorInv, Anchor!PaymentsRecorded
  <2>2. Anchor!RootsAgree(anchorBatchOf[p], S)
    BY <2>1 DEF Anchor!AnchorInv, Anchor!RowsAnchored, Anchor!RecordedRow
  <2>3. ASSUME NEW T \in Anchor!Selection,
               anchorBatches[T] = Anchor!RecordedRow(anchorBatchOf[p]) PROVE T = S
    <3>1. Anchor!RootsAgree(anchorBatchOf[p], T)
      BY <2>3 DEF Anchor!AnchorInv, Anchor!RowsAnchored, Anchor!RecordedRow
    <3>2. Anchor!Root(S) = Anchor!Root(T)
      BY <2>2, <3>1 DEF Anchor!RootsAgree
    <3>. QED BY <3>2, RootsTell
  <2>4. Anchor!Proof(p) = {S}
    BY <1>1, <2>1, <2>3 DEF Anchor!Proof, Anchor!RecordedRow
  <2>5. Cardinality(Anchor!Proof(p)) = 1
    BY <2>4, FS_Singleton
  <2>6. Anchor!VerifyReceipt(p, anchorProofOf[p], anchorChain[anchorBatchOf[p]])
    BY <2>1, <2>2, WrittenVerifies DEF Anchor!RootsAgree
  <2>. QED BY <2>5, <2>6
<1>. QED BY <1>1, AnchorCount DEF Anchor!ReceiptsVerify, Anchor!AnchorInv

LEMMA AnchorFinal ==
  ASSUME Anchor!AnchoringAssumption, MerkleAssumption, Anchor!AnchorInv, [Anchor!Next]_(Anchor!vars)
  PROVE  Anchor!KeepsReceipts
<1>. SUFFICES ASSUME NEW p \in Payment, anchorBatchOf[p] # 0, p \in anchorConfirmed'
              PROVE  anchorBatchOf'[p] = anchorBatchOf[p] /\ anchorProofOf'[p] = anchorProofOf[p]
  BY DEF Anchor!KeepsReceipts
<1>. USE DEF Anchor!payments, Anchor!bounds
<1>1. ASSUME NEW l \in {0} \cup Payment, Anchor!Purge(l)
      PROVE anchorBatchOf'[p] = anchorBatchOf[p] /\ anchorProofOf'[p] = anchorProofOf[p]
  BY <1>1 DEF Anchor!Purge
<1>2. ASSUME NEW q \in Panel, Anchor!Commit(q) PROVE anchorBatchOf'[p] = anchorBatchOf[p]
             /\ anchorProofOf'[p] = anchorProofOf[p]
  <2>. DEFINE S == anchorPanel[q].sel  b == anchorPanel[q].batch
  <2>1. /\ \A r \in S : anchorBatchOf[r] \in {0, b}
        /\ \A r \in S : anchorBatchOf[r] = b => anchorProofOf[r] = Anchor!Written(S, r)
    BY <1>2, CommitFinds
  <2>2. /\ anchorBatchOf'[p] = IF p \in S THEN b ELSE anchorBatchOf[p]
        /\ anchorProofOf'[p] = IF p \in S THEN Anchor!Written(S, p) ELSE anchorProofOf[p]
    BY <1>2 DEF Anchor!Commit
  <2>. HIDE DEF S, b
  <2>. QED BY <2>1, <2>2
<1>3. CASE UNCHANGED <<anchorBatchOf, anchorProofOf>>
  BY <1>3
<1>4. CASE \E q \in Panel : Anchor!LockBatch(q) \/ Anchor!UpdatePayment(q)
  BY <1>3, <1>4 DEF Anchor!LockBatch, Anchor!UpdatePayment
<1>5. CASE \E q \in Panel : \/ Anchor!LoadUnanchored(q) \/ Anchor!PersistPreview(q)
                           \/ Anchor!SkipSigning(q) \/ Anchor!Cancel(q)
  BY <1>3, <1>5 DEF Anchor!LoadUnanchored, Anchor!PersistPreview, Anchor!SkipSigning, Anchor!Cancel
<1>6. CASE \E q \in Panel : \/ Anchor!Sign(q) \/ Anchor!SignUnconfirmed(q)
                           \/ Anchor!RecordByHand(q) \/ Anchor!RequestFails(q)
  BY <1>3, <1>6 DEF Anchor!Sign, Anchor!SignUnconfirmed, Anchor!RecordByHand, Anchor!RequestFails
<1>7. CASE UNCHANGED Anchor!vars \/ \E r \in Payment : Anchor!Index(r)
  BY <1>3, <1>7 DEF Anchor!vars, Anchor!Index
<1>. QED BY <1>1, <1>2, <1>4, <1>5, <1>6, <1>7 DEF Anchor!Next, Anchor!Step

(* The module keeps what it promises, whatever the constants. *)
LEMMA AnchorHolds ==
  ASSUME Anchor!AnchoringAssumption, MerkleAssumption
  PROVE  Anchor!Spec => [](Anchor!ReceiptsVerify /\ Anchor!BatchIsWhole)
           /\ [][Anchor!KeepsReceipts]_(Anchor!vars)
<1>1. Anchor!Init => Anchor!AnchorInv
  BY AnchorInit
<1>2. Anchor!AnchorInv /\ [Anchor!Next]_(Anchor!vars) => Anchor!AnchorInv' /\ Anchor!KeepsReceipts
  BY AnchorStep, AnchorFinal
<1>3. Anchor!AnchorInv => Anchor!ReceiptsVerify /\ Anchor!BatchIsWhole
  BY AnchorSound
<1>. QED BY <1>1, <1>2, <1>3, PTL DEF Anchor!Spec

LEMMA AnchorRuns == MCSafe => []~(machine = "anchor") \/ Anchor!Spec
<1>1. MCInit /\ machine = "anchor" => Anchor!Init
  BY DEF MCInit
<1>2. machine = "anchor" /\ [MCNext]_all => (machine = "anchor")' /\ [Anchor!Next]_(Anchor!vars)
  BY DEF MCNext, all, inst, Anchor!vars
<1>3. ~(machine = "anchor") /\ [MCNext]_all => (~(machine = "anchor"))'
  BY DEF MCNext, all
<1>. QED BY <1>1, <1>2, <1>3, PTL DEF MCSafe, Anchor!Spec

-----------------------------------------------------------------------------
(* The reconciliation.  Whatever the paging runs into past the end of a     *)
(* window, every transaction of the ledgers behind the window was rebuilt,  *)
(* each as its first transfer (AuditInv).                                   *)

auditPaid == v1
auditReportedAt == v2
auditHead == v3
auditCursor == v4
auditAltered == v5
auditFaults == v6
auditPc == v7
auditFrom == v8
auditTo == v9
auditWindow == v10
auditPage == v11
auditRebuilt == v12
auditProduction == v13

USE DEF auditPaid, auditReportedAt, auditHead, auditCursor, auditAltered, auditFaults,
        auditPc, auditFrom, auditTo, auditWindow, auditPage, auditRebuilt, auditProduction

(* Sets are counted in this machine as they are here. *)
LEMMA AuditCount ==
  /\ \A S : Audit!IsFiniteSet(S) <=> IsFiniteSet(S)
  /\ \A S : Audit!Cardinality(S) = Cardinality(S)
  BY DEF Audit!Cardinality, Cardinality, Audit!IsFiniteSet, IsFiniteSet

Below(S, x) == {y \in S : y < x}

(* A page holds the first events there are, and all of them when it is      *)
(* short.                                                                   *)
LEMMA FirstPageIsPrefix ==
  ASSUME NEW S, S \subseteq Nat, IsFiniteSet(S), AuditPage \in Nat \ {0}
  PROVE  /\ Audit!FirstPage(S) \subseteq S /\ IsFiniteSet(Audit!FirstPage(S))
         /\ \A x \in S, y \in Audit!FirstPage(S) : x <= y => x \in Audit!FirstPage(S)
         /\ Cardinality(Audit!FirstPage(S)) < AuditPage => Audit!FirstPage(S) = S
<1>. DEFINE P == Audit!FirstPage(S)
<1>1. P \in SUBSET S /\ \A x \in S : x \in P <=> Cardinality(Below(S, x)) < AuditPage
  BY AuditCount DEF Audit!FirstPage, Below
<1>. HIDE DEF P
<1>2. IsFiniteSet(P) /\ Cardinality(P) \in Nat
  BY <1>1, FS_Subset, FS_CardinalityType
<1>3. \A x : IsFiniteSet(Below(S, x)) /\ Cardinality(Below(S, x)) \in Nat
  <2>. TAKE x
  <2>1. Below(S, x) \in SUBSET S
    BY DEF Below
  <2>. QED BY <2>1, FS_Subset, FS_CardinalityType
<1>4. ASSUME NEW x \in S, NEW y \in P, x <= y PROVE x \in P
  <2>1. Below(S, x) \in SUBSET Below(S, y)
    <3>1. x \in Nat /\ y \in Nat
      BY <1>1
    <3>2. ASSUME NEW z \in S, z < x PROVE z < y
      <4>. z \in Nat
        OBVIOUS
      <4>. QED BY <1>4, <3>1, <3>2
    <3>. QED BY <3>2 DEF Below
  <2>2. Cardinality(Below(S, x)) <= Cardinality(Below(S, y))
    BY <1>3, <2>1, FS_Subset
  <2>. QED BY <1>1, <1>3, <2>2
<1>5. ASSUME Cardinality(P) < AuditPage, P # S PROVE FALSE
  <2>1. PICK x \in S \ P : \A y \in S \ P : x <= y
    <3>1. S \ P \subseteq Nat /\ S \ P # {}
      BY <1>1, <1>5
    <3>. QED BY <3>1, LeastElement
  <2>2. Below(S, x) \in SUBSET P
    <3>1. \A y \in S : y < x => ~(x <= y)
      OBVIOUS
    <3>. QED BY <2>1, <3>1 DEF Below
  <2>3. Cardinality(Below(S, x)) <= Cardinality(P)
    BY <1>2, <2>2, FS_Subset
  <2>. QED BY <1>1, <1>2, <1>3, <1>5, <2>3
<1>. QED BY <1>1, <1>2, <1>4, <1>5 DEF P

(* A page that starts where nothing of its transactions was missed is taken *)
(* rightly.                                                                 *)
LEMMA TakenRightly ==
  ASSUME Audit!PaymentsAssumption, Audit!AuditInv, NEW P, P \subseteq Transfer,
         auditRebuilt' = Audit!Taken(P),
         \A x \in P, y \in Transfer :
           AuditTx[y] = AuditTx[x] /\ y < x => y \in P \/ Audit!Rebuilt(x)
  PROVE  /\ auditRebuilt' \in [Tx -> Transfer \cup {Audit!NoTransfer}]
         /\ \A t \in Tx : auditRebuilt'[t] # Audit!NoTransfer => Audit!IsFirst(auditRebuilt'[t], t)
         /\ \A x \in P : Audit!Rebuilt(x)'
         /\ \A x \in Transfer : Audit!Rebuilt(x) => Audit!Rebuilt(x)'
<1>1. /\ Transfer \subseteq Nat \ {Audit!NoTransfer} /\ AuditTx \in [Transfer -> Tx]
      /\ auditRebuilt \in [Tx -> Transfer \cup {Audit!NoTransfer}]
  BY DEF Audit!PaymentsAssumption, Audit!AuditInv
<1>2. ASSUME NEW t \in Tx, auditRebuilt[t] = Audit!NoTransfer, NEW z \in P, AuditTx[z] = t
      PROVE  Audit!IsFirst(Audit!FirstOf(P, t), t)
  <2>. DEFINE Own == {x \in P : AuditTx[x] = t}
  <2>1. PICK x \in Own : \A y \in Own : x <= y
    <3>1. Own \subseteq Nat /\ Own # {}
      BY <1>1, <1>2
    <3>. QED BY <3>1, LeastElement
  <2>2. Audit!FirstOf(P, t) \in P /\ AuditTx[Audit!FirstOf(P, t)] = t
        /\ \A y \in P : AuditTx[y] = t => Audit!FirstOf(P, t) <= y
    BY <2>1 DEF Audit!FirstOf
  <2>. DEFINE f == Audit!FirstOf(P, t)
  <2>. HIDE DEF f
  <2>3. f \in Transfer /\ f \in P /\ AuditTx[f] = t /\ \A y \in P : AuditTx[y] = t => f <= y
    BY <2>2 DEF f
  <2>4. ASSUME NEW y \in Transfer, AuditTx[y] = t PROVE f <= y
    <3>1. f \in Nat /\ y \in Nat
      BY <1>1, <2>3
    <3>2. y < f => y \in P
      BY <1>2, <2>3, <2>4 DEF Audit!Rebuilt
    <3>. QED BY <2>3, <2>4, <3>1, <3>2
  <2>. QED BY <2>3, <2>4 DEF Audit!IsFirst, f
<1>3. \A t \in Tx : auditRebuilt'[t] = IF auditRebuilt[t] = Audit!NoTransfer
      /\ \E x \in P : AuditTx[x] = t
                                       THEN Audit!FirstOf(P, t) ELSE auditRebuilt[t]
  BY DEF Audit!Taken
<1>4. \A t \in Tx : auditRebuilt'[t] # Audit!NoTransfer => Audit!IsFirst(auditRebuilt'[t], t)
  BY <1>2, <1>3 DEF Audit!AuditInv
<1>5. \A t \in Tx : auditRebuilt'[t] \in Transfer \cup {Audit!NoTransfer}
  BY <1>4 DEF Audit!IsFirst
<1>6. auditRebuilt' \in [Tx -> Transfer \cup {Audit!NoTransfer}]
  BY <1>5 DEF Audit!Taken
<1>7. \A x \in P : Audit!Rebuilt(x)'
  <2>. TAKE x \in P
  <2>1. AuditTx[x] \in Tx
    BY <1>1
  <2>2. CASE auditRebuilt[AuditTx[x]] = Audit!NoTransfer
    <3>1. Audit!IsFirst(Audit!FirstOf(P, AuditTx[x]), AuditTx[x])
      BY <1>2, <2>1, <2>2
    <3>2. auditRebuilt'[AuditTx[x]] = Audit!FirstOf(P, AuditTx[x])
      BY <1>3, <2>1, <2>2
    <3>. QED BY <1>1, <3>1, <3>2 DEF Audit!IsFirst, Audit!Rebuilt
  <2>3. CASE auditRebuilt[AuditTx[x]] # Audit!NoTransfer
    BY <1>3, <2>1, <2>3 DEF Audit!Rebuilt
  <2>. QED BY <2>2, <2>3
<1>8. \A x \in Transfer : Audit!Rebuilt(x) => Audit!Rebuilt(x)'
  BY <1>1, <1>3 DEF Audit!Rebuilt
<1>. QED BY <1>4, <1>6, <1>7, <1>8

LEMMA AuditTypes ==
  ASSUME Audit!PaymentsAssumption, Audit!ReconcileAssumption
  PROVE  /\ IsFiniteSet(Transfer) /\ Transfer \subseteq Nat /\ Audit!NoTransfer \notin Transfer
         /\ \A x \in Transfer : AuditTx[x] \in Tx /\ AuditLedger[x] \in Nat
         /\ \A x, y \in Transfer : x < y => AuditLedger[x] <= AuditLedger[y]
         /\ \A x, y \in Transfer : AuditTx[x] = AuditTx[y] => AuditLedger[x] = AuditLedger[y]
         /\ AuditWindow \in Nat /\ AuditWindow > 0 /\ AuditPage \in Nat \ {0} /\ Lookback \in Nat
         /\ FromLedger \subseteq Nat
<1>1. AuditWindow \in Nat \ {Audit!Unset} /\ AuditPage \in Nat \ {Audit!Unset} /\ Lookback \in Nat
      /\ FromLedger \subseteq Nat \ {Audit!Unset}
  BY DEF Audit!ReconcileAssumption
<1>2. IsFiniteSet(Transfer)
  BY AuditCount DEF Audit!ReconcileAssumption
<1>3. /\ Transfer \subseteq Nat /\ Audit!NoTransfer \notin Transfer
      /\ \A x \in Transfer : AuditTx[x] \in Tx /\ AuditLedger[x] \in Nat
      /\ \A x, y \in Transfer : x < y => AuditLedger[x] <= AuditLedger[y]
      /\ \A x, y \in Transfer : AuditTx[x] = AuditTx[y] => AuditLedger[x] = AuditLedger[y]
  BY DEF Audit!PaymentsAssumption
<1>. QED BY <1>1, <1>2, <1>3 DEF Audit!Unset

LEMMA AuditInit == Audit!PaymentsAssumption /\ Audit!Init => Audit!AuditInv
<1>. SUFFICES ASSUME Audit!PaymentsAssumption, Audit!Init PROVE Audit!AuditInv
  OBVIOUS
<1>. QED BY DEF Audit!Init, Audit!RowsInit, Audit!AuditInv

(* An insert books the first of its transfers.                              *)
LEMMA InsertTyped ==
  ASSUME Audit!PaymentsAssumption, NEW E, E \subseteq Transfer, Audit!InsertRows(E),
         auditPaid \in [Tx -> Transfer \cup {Audit!NoTransfer}]
  PROVE  auditPaid' \in [Tx -> Transfer \cup {Audit!NoTransfer}]
<1>1. ASSUME NEW t \in Tx, NEW z \in E, AuditTx[z] = t PROVE Audit!FirstOf(E, t) \in Transfer
  <2>. DEFINE Own == {x \in E : AuditTx[x] = t}
  <2>1. PICK x \in Own : \A y \in Own : x <= y
    <3>1. Own \subseteq Nat /\ Own # {}
      BY <1>1 DEF Audit!PaymentsAssumption
    <3>. QED BY <3>1, LeastElement
  <2>2. Audit!FirstOf(E, t) \in E
    BY <2>1 DEF Audit!FirstOf
  <2>. QED BY <2>2
<1>2. \A t \in Tx : t \in Audit!Fresh(E) => Audit!FirstOf(E, t) \in Transfer
  BY <1>1 DEF Audit!Fresh
<1>. QED BY <1>2 DEF Audit!InsertRows

(* The page turned in ReadWindow and ReadPage.                              *)
LEMMA TurnedRightly ==
  ASSUME Audit!PaymentsAssumption, Audit!ReconcileAssumption, Audit!AuditInv,
         auditPc \in {"read", "paging"},
         NEW S, S \subseteq Transfer, Audit!Turned(Audit!FirstPage(S)),
         \A x \in S, y \in Transfer : AuditTx[y] = AuditTx[x] => y \in S \/ Audit!Rebuilt(x),
         \A x \in S : auditWindow <= AuditLedger[x],
         \A x \in Transfer : auditWindow <= AuditLedger[x]
           /\ AuditLedger[x] < auditWindow + AuditWindow
                             /\ AuditLedger[x] <= auditTo => x \in S \/ Audit!Rebuilt(x),
         \A x \in S, y \in Transfer : auditWindow <= AuditLedger[y]
           /\ y <= x => y \in S \/ Audit!Rebuilt(y)
  PROVE  Audit!AuditInv'
<1>. DEFINE P == Audit!FirstPage(S)
<1>1. IsFiniteSet(S) /\ S \subseteq Nat
  BY AuditTypes, FS_Subset
<1>2. /\ P \subseteq S /\ IsFiniteSet(P)
      /\ \A x \in S, y \in P : x <= y => x \in P
      /\ Cardinality(P) < AuditPage => P = S
  BY <1>1, AuditTypes, FirstPageIsPrefix
<1>3. Audit!Turned(P)
  OBVIOUS
<1>. HIDE DEF P
<1>4. /\ auditRebuilt' \in [Tx -> Transfer \cup {Audit!NoTransfer}]
      /\ \A t \in Tx : auditRebuilt'[t] # Audit!NoTransfer => Audit!IsFirst(auditRebuilt'[t], t)
      /\ \A x \in P : Audit!Rebuilt(x)'
      /\ \A x \in Transfer : Audit!Rebuilt(x) => Audit!Rebuilt(x)'
  <2>1. ASSUME NEW x \in P, NEW y \in Transfer, AuditTx[y] = AuditTx[x], y < x
        PROVE  y \in P \/ Audit!Rebuilt(x)
    <3>1. x \in Nat /\ y \in Nat
      BY <1>1, <1>2, AuditTypes
    <3>2. y <= x
      BY <2>1, <3>1
    <3>3. y \in S \/ Audit!Rebuilt(x)
      BY <1>2, <2>1
    <3>. QED BY <1>2, <3>2, <3>3
  <2>2. P \subseteq Transfer /\ auditRebuilt' = Audit!Taken(P)
    BY <1>2, <1>3 DEF Audit!Turned
  <2>. QED BY <2>1, <2>2, TakenRightly
<1>5. /\ auditTo' = auditTo /\ auditFrom' = auditFrom /\ auditHead' = auditHead
         /\ auditPaid' = auditPaid /\ auditCursor' = auditCursor
      /\ auditProduction' = auditProduction
  BY <1>3 DEF Audit!Turned, Audit!rows, Audit!chain
<1>6. /\ auditWindow \in Nat /\ auditTo \in Nat /\ auditFrom \in Nat /\ auditTo <= auditHead
      /\ \A x \in Transfer :
           auditFrom <= AuditLedger[x] /\ AuditLedger[x] < auditWindow
             /\ AuditLedger[x] <= auditTo => Audit!Rebuilt(x)
  BY DEF Audit!AuditInv
<1>7. CASE Cardinality(P) < AuditPage
  <2>1. P = S /\ auditPc' = "read" /\ auditWindow' = auditWindow + AuditWindow
    BY <1>2, <1>3, <1>7, AuditCount DEF Audit!Turned
  <2>2. auditWindow' \in Nat
    BY <1>6, <2>1, AuditTypes
  <2>3. ASSUME NEW x \in Transfer, auditFrom <= AuditLedger[x], AuditLedger[x] < auditWindow',
               AuditLedger[x] <= auditTo
        PROVE  Audit!Rebuilt(x)'
    <3>1. AuditLedger[x] \in Nat
      BY AuditTypes
    <3>2. CASE AuditLedger[x] < auditWindow
      BY <1>4, <1>6, <2>3, <3>2
    <3>3. CASE ~(AuditLedger[x] < auditWindow)
      <4>1. auditWindow <= AuditLedger[x]
        BY <1>6, <3>1, <3>3
      <4>2. x \in S \/ Audit!Rebuilt(x)
        BY <2>1, <2>3, <4>1
      <4>. QED BY <1>4, <2>1, <4>2
    <3>. QED BY <3>2, <3>3
  <2>. QED BY <1>4, <1>5, <1>6, <2>1, <2>2, <2>3 DEF Audit!AuditInv
<1>8. CASE ~(Cardinality(P) < AuditPage)
  <2>1. auditPc' = "paging" /\ auditPage' = Audit!Last(P) /\ auditWindow' = auditWindow
    BY <1>3, <1>8, AuditCount DEF Audit!Turned
  <2>2. P # {}
    BY <1>8, AuditTypes, FS_EmptySet
  <2>3. Audit!Last(P) \in P /\ \A f \in P : f <= Audit!Last(P)
    BY <1>1, <1>2, <2>2, HighestIsLast DEF Highest, Audit!Last
  <2>4. auditPage' \in Transfer /\ auditWindow <= AuditLedger[auditPage'] /\ auditPage' \in P
    BY <1>2, <2>1, <2>3
  <2>5. ASSUME NEW x \in Transfer, auditWindow <= AuditLedger[x], x <= auditPage'
        PROVE  Audit!Rebuilt(x)'
    <3>1. x \in S \/ Audit!Rebuilt(x)
      BY <1>2, <2>4, <2>5
    <3>. QED BY <1>2, <1>4, <2>4, <2>5, <3>1
  <2>. QED BY <1>4, <1>5, <1>6, <2>1, <2>4, <2>5 DEF Audit!AuditInv
<1>. QED BY <1>7, <1>8

LEMMA ReadWindowKeeps ==
  ASSUME Audit!PaymentsAssumption, Audit!ReconcileAssumption, Audit!AuditInv, Audit!ReadWindow
  PROVE  Audit!AuditInv'
<1>. DEFINE S == {x \in Transfer :
                    auditWindow <= AuditLedger[x]
                      /\ AuditLedger[x] <= Audit!Minimum(auditWindow + AuditWindow - 1, auditTo)}
<1>0. auditWindow \in Nat /\ auditTo \in Nat
  BY DEF Audit!AuditInv
<1>1. /\ S \subseteq Transfer /\ auditPc = "read" /\ Audit!Turned(Audit!FirstPage(S))
  BY DEF Audit!ReadWindow
<1>2. \A x \in Transfer : x \in S <=> /\ auditWindow <= AuditLedger[x]
      /\ AuditLedger[x] < auditWindow + AuditWindow
                                      /\ AuditLedger[x] <= auditTo
  BY <1>0, AuditTypes DEF Audit!Minimum
<1>. HIDE DEF S
<1>3. \A x \in S, y \in Transfer : AuditTx[y] = AuditTx[x] => y \in S
  BY <1>1, <1>2, AuditTypes
<1>4. ASSUME NEW x \in S, NEW y \in Transfer, auditWindow <= AuditLedger[y], y <= x
      PROVE  y \in S
  <2>1. /\ x \in Nat /\ y \in Nat /\ AuditLedger[x] \in Nat /\ AuditLedger[y] \in Nat
        /\ AuditLedger[y] <= AuditLedger[x]
    <3>1. x \in Nat /\ y \in Nat /\ x \in Transfer /\ AuditLedger[x] \in Nat
          /\ AuditLedger[y] \in Nat
      BY <1>1, AuditTypes
    <3>2. y = x \/ y < x
      BY <1>4, <3>1
    <3>. QED BY <3>1, <3>2, AuditTypes
  <2>2. AuditLedger[x] < auditWindow + AuditWindow /\ AuditLedger[x] <= auditTo
    BY <1>1, <1>2
  <2>3. AuditLedger[y] < auditWindow + AuditWindow /\ AuditLedger[y] <= auditTo
    BY <1>0, <2>1, <2>2, AuditTypes
  <2>. QED BY <1>2, <1>4, <2>3
<1>. QED BY <1>1, <1>2, <1>3, <1>4, TurnedRightly

LEMMA ReadPageKeeps ==
  ASSUME Audit!PaymentsAssumption, Audit!ReconcileAssumption, Audit!AuditInv, Audit!ReadPage
  PROVE  Audit!AuditInv'
<1>. DEFINE S == {x \in Transfer : auditPage < x /\ AuditLedger[x] <= auditHead}
<1>1. S \subseteq Transfer /\ auditPc = "paging" /\ Audit!Turned(Audit!FirstPage(S))
  BY DEF Audit!ReadPage
<1>2. /\ auditWindow \in Nat /\ auditTo \in Nat /\ auditHead \in Nat /\ auditTo <= auditHead
      /\ auditPage \in Transfer /\ auditWindow <= AuditLedger[auditPage]
      /\ \A x \in Transfer : auditWindow <= AuditLedger[x] /\ x <= auditPage => Audit!Rebuilt(x)
  BY <1>1 DEF Audit!AuditInv
<1>3. \A x \in Transfer : x \in S <=> auditPage < x /\ AuditLedger[x] <= auditHead
  OBVIOUS
<1>. HIDE DEF S
<1>4. /\ auditPage \in Nat /\ AuditLedger[auditPage] \in Nat
      /\ \A x \in Transfer : x \in Nat /\ AuditLedger[x] \in Nat
  BY <1>2, AuditTypes
<1>5. \A x \in S : auditWindow <= AuditLedger[x]
  <2>. TAKE x \in S
  <2>1. AuditLedger[auditPage] <= AuditLedger[x]
    BY <1>1, <1>2, <1>3, AuditTypes
  <2>. QED BY <1>1, <1>2, <1>4, <2>1
<1>6. ASSUME NEW x \in S, NEW y \in Transfer, AuditTx[y] = AuditTx[x]
      PROVE y \in S \/ Audit!Rebuilt(x)
  <2>1. AuditLedger[y] = AuditLedger[x]
    BY <1>1, <1>6, AuditTypes
  <2>2. CASE auditPage < y
    BY <1>1, <1>3, <2>1, <2>2
  <2>3. CASE ~(auditPage < y)
    <3>1. y <= auditPage /\ auditWindow <= AuditLedger[y]
      BY <1>4, <1>5, <2>1, <2>3
    <3>2. Audit!Rebuilt(y)
      BY <1>2, <3>1
    <3>. QED BY <1>6, <3>2 DEF Audit!Rebuilt
  <2>. QED BY <2>2, <2>3
<1>7. ASSUME NEW x \in Transfer, auditWindow <= AuditLedger[x], AuditLedger[x] <= auditTo
      PROVE  x \in S \/ Audit!Rebuilt(x)
  <2>1. AuditLedger[x] <= auditHead
    BY <1>2, <1>4, <1>7
  <2>2. auditPage < x \/ x <= auditPage
    BY <1>4
  <2>. QED BY <1>2, <1>3, <1>7, <2>1, <2>2
<1>8. ASSUME NEW x \in S, NEW y \in Transfer, auditWindow <= AuditLedger[y], y <= x
      PROVE  y \in S \/ Audit!Rebuilt(y)
  <2>1. AuditLedger[y] <= auditHead
    <3>1. x \in Transfer /\ x \in Nat /\ y \in Nat /\ AuditLedger[x] \in Nat
          /\ AuditLedger[y] \in Nat
      BY <1>1, <1>4
    <3>2. y = x \/ y < x
      BY <1>8, <3>1
    <3>3. AuditLedger[y] <= AuditLedger[x] /\ AuditLedger[x] <= auditHead
      BY <1>3, <3>1, <3>2, AuditTypes
    <3>. QED BY <1>2, <3>1, <3>3
  <2>2. auditPage < y \/ y <= auditPage
    BY <1>4
  <2>. QED BY <1>2, <1>3, <1>8, <2>1, <2>2
<1>. QED BY <1>1, <1>5, <1>6, <1>7, <1>8, TurnedRightly

LEMMA AuditStep ==
  ASSUME Audit!PaymentsAssumption, Audit!ReconcileAssumption, Audit!AuditInv,
         [Audit!Next]_(Audit!vars)
  PROVE  Audit!AuditInv'
<1>1. CASE Audit!CloseLedger
  <2>1. auditHead' \in Nat /\ auditHead < auditHead'
    BY <1>1 DEF Audit!CloseLedger, Audit!AuditInv
  <2>. QED BY <1>1, <2>1 DEF Audit!CloseLedger, Audit!AuditInv, Audit!Rebuilt, Audit!rows,
                             Audit!walk
<1>2. CASE Audit!Index
  <2>1. PICK l \in auditCursor + 1 .. auditHead :
          /\ Audit!InsertRows({x \in Transfer :
                               auditCursor < AuditLedger[x] /\ AuditLedger[x] <= l})
          /\ auditCursor' = l /\ UNCHANGED <<auditHead, auditAltered, auditFaults, Audit!walk>>
    BY <1>2 DEF Audit!Index
  <2>2. auditPaid' \in [Tx -> Transfer \cup {Audit!NoTransfer}]
    BY <2>1, InsertTyped DEF Audit!AuditInv
  <2>3. auditCursor' \in Nat
    BY <2>1 DEF Audit!AuditInv
  <2>. QED BY <2>1, <2>2, <2>3 DEF Audit!AuditInv, Audit!Rebuilt, Audit!walk
<1>3. ASSUME NEW t \in Tx, Audit!Report(t) PROVE Audit!AuditInv'
  BY <1>3 DEF Audit!Report, Audit!RecordSettlement, Audit!AuditInv, Audit!Rebuilt, Audit!chain,
              Audit!walk
<1>4. ASSUME NEW t \in Tx, Audit!Alter(t) PROVE Audit!AuditInv'
  BY <1>4 DEF Audit!Alter, Audit!AuditInv, Audit!Rebuilt, Audit!rows, Audit!walk
<1>5. ASSUME NEW t \in Tx, Audit!Lose(t) PROVE Audit!AuditInv'
  <2>1. auditPaid' \in [Tx -> Transfer \cup {Audit!NoTransfer}]
    BY <1>5 DEF Audit!Lose, Audit!AuditInv
  <2>. QED BY <1>5, <2>1 DEF Audit!Lose, Audit!AuditInv, Audit!Rebuilt, Audit!walk
<1>6. CASE Audit!Named
  <2>1. auditFrom' \in Nat
    <3>1. auditHead \in Nat /\ Lookback \in Nat /\ FromLedger \subseteq Nat
      BY AuditTypes DEF Audit!AuditInv
    <3>2. Audit!Maximum(1, auditHead - Lookback) \in Nat
      BY <3>1 DEF Audit!Maximum
    <3>. QED BY <1>6, <3>1, <3>2 DEF Audit!Named
  <2>. QED BY <1>6, <2>1 DEF Audit!Named, Audit!AuditInv, Audit!Rebuilt, Audit!rows, Audit!chain
<1>7. CASE Audit!BeginRebuild
  <2>1. \A x \in Transfer : AuditLedger[x] \in Nat
    BY AuditTypes
  <2>. QED BY <1>7, <2>1 DEF Audit!BeginRebuild, Audit!AuditInv, Audit!Rebuilt, Audit!rows,
                             Audit!chain
<1>8. CASE Audit!ReadWindow
  BY <1>8, ReadWindowKeeps
<1>9. CASE Audit!ReadPage
  BY <1>9, ReadPageKeeps
<1>10. CASE Audit!Fail
  BY <1>10 DEF Audit!Fail, Audit!AuditInv, Audit!Rebuilt, Audit!rows, Audit!chain
<1>11. CASE Audit!EndRebuild
  BY <1>11 DEF Audit!EndRebuild, Audit!AuditInv, Audit!Rebuilt, Audit!rows, Audit!chain
<1>12. CASE Audit!FetchProductionPayments
  <2>1. \A t \in Tx : auditProduction'[t].of # Audit!NoTransfer => auditProduction'[t].exists
    BY <1>12 DEF Audit!FetchProductionPayments, Audit!RowExists, Audit!Booked
  <2>. QED BY <1>12, <2>1 DEF Audit!FetchProductionPayments, Audit!AuditInv, Audit!Rebuilt,
                              Audit!rows, Audit!chain
<1>13. CASE UNCHANGED Audit!vars
  BY <1>13 DEF Audit!vars, Audit!AuditInv, Audit!Rebuilt
<1>. QED
  BY <1>1, <1>2, <1>3, <1>4, <1>5, <1>6, <1>7, <1>8, <1>9, <1>10, <1>11, <1>12, <1>13
     DEF Audit!Next, Audit!Walk

(* What a report without a discrepancy says.                                *)
LEMMA AuditSound ==
  Audit!PaymentsAssumption /\ Audit!ReconcileAssumption /\ Audit!AuditInv => Audit!OkMeansAgreed
<1>. SUFFICES ASSUME Audit!PaymentsAssumption, Audit!ReconcileAssumption, Audit!AuditInv,
                     auditPc = "reported", Audit!Ok
              PROVE  /\ \A x \in Transfer : auditFrom <= AuditLedger[x]
                        /\ AuditLedger[x] <= auditTo =>
                          auditProduction[AuditTx[x]].of # Audit!NoTransfer
                     /\ \A t \in Tx : auditProduction[t].of # Audit!NoTransfer =>
                          /\ ~auditProduction[t].altered
                          /\ auditProduction[t].of = Audit!FirstOf(Transfer, t)
  BY DEF Audit!OkMeansAgreed
<1>1. \A t \in Tx : auditRebuilt[t] # Audit!NoTransfer => auditProduction[t].exists
      /\ Audit!ColumnsEqual(t)
  BY DEF Audit!Ok, Audit!Mismatched, Audit!MissingInDb
<1>2. \A t \in Tx : auditProduction[t].of # Audit!NoTransfer => auditRebuilt[t] # Audit!NoTransfer
  BY DEF Audit!Ok, Audit!MissingOnChain
<1>3. ASSUME NEW x \in Transfer, auditFrom <= AuditLedger[x], AuditLedger[x] <= auditTo
      PROVE  auditProduction[AuditTx[x]].of # Audit!NoTransfer
  <2>1. AuditTx[x] \in Tx /\ AuditLedger[x] \in Nat
    BY AuditTypes
  <2>2. AuditLedger[x] < auditWindow
    BY <1>3, <2>1 DEF Audit!AuditInv
  <2>3. auditRebuilt[AuditTx[x]] # Audit!NoTransfer
    BY <1>3, <2>2 DEF Audit!AuditInv, Audit!Rebuilt
  <2>. QED BY <1>1, <2>1, <2>3 DEF Audit!ColumnsEqual
<1>4. ASSUME NEW t \in Tx, auditProduction[t].of # Audit!NoTransfer
      PROVE  ~auditProduction[t].altered /\ auditProduction[t].of = Audit!FirstOf(Transfer, t)
  <2>1. auditRebuilt[t] # Audit!NoTransfer /\ ~auditProduction[t].altered
        /\ auditProduction[t].of = auditRebuilt[t]
    BY <1>1, <1>2, <1>4 DEF Audit!ColumnsEqual
  <2>2. Audit!IsFirst(auditRebuilt[t], t)
    BY <2>1 DEF Audit!AuditInv
  <2>3. \A x \in Transfer : Audit!IsFirst(x, t) => x = auditRebuilt[t]
    <3>. SUFFICES ASSUME NEW x \in Transfer, Audit!IsFirst(x, t) PROVE x = auditRebuilt[t]
      OBVIOUS
    <3>1. x <= auditRebuilt[t] /\ auditRebuilt[t] <= x /\ x \in Nat /\ auditRebuilt[t] \in Nat
      BY <2>2, AuditTypes DEF Audit!IsFirst
    <3>. QED BY <3>1
  <2>4. Audit!FirstOf(Transfer, t) = auditRebuilt[t]
    BY <2>2, <2>3 DEF Audit!FirstOf, Audit!IsFirst
  <2>. QED BY <2>1, <2>4
<1>. QED BY <1>3, <1>4

(* The module keeps what it promises, whatever the constants. *)
LEMMA AuditHolds ==
  ASSUME Audit!PaymentsAssumption, Audit!ReconcileAssumption
  PROVE  Audit!Spec => []Audit!OkMeansAgreed
<1>1. Audit!Init => Audit!AuditInv
  BY AuditInit
<1>2. Audit!AuditInv /\ [Audit!Next]_(Audit!vars) => Audit!AuditInv'
  BY AuditStep
<1>3. Audit!AuditInv => Audit!OkMeansAgreed
  BY AuditSound
<1>. QED BY <1>1, <1>2, <1>3, PTL DEF Audit!Spec

LEMMA AuditRuns == MCSafe => []~(machine = "audit") \/ Audit!Spec
<1>1. MCInit /\ machine = "audit" => Audit!Init
  BY DEF MCInit
<1>2. machine = "audit" /\ [MCNext]_all => (machine = "audit")' /\ [Audit!Next]_(Audit!vars)
  BY DEF MCNext, all, inst, Audit!vars
<1>3. ~(machine = "audit") /\ [MCNext]_all => (~(machine = "audit"))'
  BY DEF MCNext, all
<1>. QED BY <1>1, <1>2, <1>3, PTL DEF MCSafe, Audit!Spec

-----------------------------------------------------------------------------
(* Receipts that are served verify on the chain, their batch is whole, and *)
(* what the public page says of a receipt is true, whatever panels, losses *)
(* and rewinds there are and whatever is typed or dropped meanwhile.       *)
THEOREM ReceiptsAlwaysVerify ==
  ASSUME MerkleAssumption, Anchor!AnchoringAssumption, Verifier!VerificationAssumption
  PROVE  MCSafe => []ReceiptsVerify
<1>1. Anchor!Spec => [](Anchor!ReceiptsVerify /\ Anchor!BatchIsWhole)
  BY AnchorHolds, PTL
<1>2. Verifier!Spec => []Verifier!VerdictsAreTrue
  BY VerifierHolds
<1>3. (~(machine = "anchor") \/ (Anchor!ReceiptsVerify /\ Anchor!BatchIsWhole))
      /\ (~(machine = "verifier") \/ Verifier!VerdictsAreTrue) => ReceiptsVerify
  BY DEF ReceiptsVerify
<1>. QED BY <1>1, <1>2, <1>3, AnchorRuns, VerifierRuns, PTL

(* A payment that carries a batch keeps it, and its proof, until a rewind  *)
(* deletes the row.                                                        *)
THEOREM ReceiptsStay ==
  ASSUME MerkleAssumption, Anchor!AnchoringAssumption
  PROVE  MCSafe => ReceiptsAreFinal
<1>1. Anchor!Spec => [][Anchor!KeepsReceipts]_(Anchor!vars)
  BY AnchorHolds, PTL
<1>2. ~(machine = "anchor") => (machine = "anchor" => Anchor!KeepsReceipts)
  OBVIOUS
<1>3. [Anchor!KeepsReceipts]_(Anchor!vars) => [machine = "anchor" => Anchor!KeepsReceipts]_all
  BY DEF Anchor!vars, Anchor!KeepsReceipts, all, inst
<1>. QED BY <1>1, <1>2, <1>3, AnchorRuns, PTL DEF ReceiptsAreFinal

(* A reconciliation without a discrepancy means that the books agree with  *)
(* the chain in the range it names, whatever the paging ran into.          *)
THEOREM AgreementsAreTrue ==
  ASSUME Audit!PaymentsAssumption, Audit!ReconcileAssumption
  PROVE  MCSafe => []OkMeansAgreed
<1>1. Audit!Spec => []Audit!OkMeansAgreed
  BY AuditHolds
<1>2. ~(machine = "audit") \/ Audit!OkMeansAgreed => OkMeansAgreed
  BY DEF OkMeansAgreed
<1>. QED BY <1>1, <1>2, AuditRuns, PTL
=============================================================================
