------------------------- MODULE ChainIntake_proofs -------------------------
(***************************************************************************)
(* The intake of the contracts' events skips none, for every number of     *)
(* events, ledgers, cycles and failed calls, and every size of a page.     *)
(*                                                                         *)
(* A checkpoint is written over whatever is in it and may go back, so the  *)
(* argument is not about one cycle and its checkpoint but about ledgers:   *)
(* Taken(k, l) says that all events of contract k before ledger l are      *)
(* stored. It holds of every checkpoint and of where every cycle has       *)
(* started, whoever stored the events (CycleStands); a page adds to it     *)
(* since pages are read in the order of the ids and hold the first events  *)
(* there are (PageIsFirst); and it stays true since new events come in     *)
(* the ledger that is being closed, which no cycle counts as read          *)
(* (Closed).                                                               *)
(***************************************************************************)
EXTENDS ChainIntake, SumLemmas

(* A finite set of integers has a least and a greatest member.             *)
LEMMA LeastOfFinite ==
  ASSUME NEW S \in SUBSET Int, IsFiniteSet(S), S # {}
  PROVE  \E m \in S : \A i \in S : m <= i
<1> DEFINE Before(i) == {j \in S : j < i}
           Initial == {Before(i) : i \in S}
<1>1. Initial \in SUBSET (SUBSET S) /\ Initial # {}
  OBVIOUS
<1>2. PICK T \in Initial : \A U \in SUBSET T : U # T => U \notin Initial
  <2> HIDE DEF Initial
  <2>. QED
    BY <1>1, SmallestBad
<1>3. PICK m \in S : T = Before(m)
  BY <1>2
<1>4. ASSUME NEW i \in S, i < m PROVE FALSE
  <2>1. i \in T /\ i \notin Before(i) /\ Before(i) \in Initial
    BY <1>3, <1>4
  <2>2. \A j \in Before(i) : j \in T
    BY <1>3, <1>4
  <2>. QED
    BY <1>2, <2>1, <2>2
<1>. QED
  BY <1>4

(* Likewise a greatest one, which Max is.                                  *)
LEMMA GreatestOfFinite ==
  ASSUME NEW S \in SUBSET Int, IsFiniteSet(S), S # {}
  PROVE  Max(S) \in S /\ \A i \in S : i <= Max(S)
<1> DEFINE After(i) == {j \in S : i < j}
           Final == {After(i) : i \in S}
<1>1. Final \in SUBSET (SUBSET S) /\ Final # {}
  OBVIOUS
<1>2. PICK T \in Final : \A U \in SUBSET T : U # T => U \notin Final
  <2> HIDE DEF Final
  <2>. QED
    BY <1>1, SmallestBad
<1>3. PICK m \in S : T = After(m)
  BY <1>2
<1>4. ASSUME NEW i \in S, m < i PROVE FALSE
  <2>1. i \in T /\ i \notin After(i) /\ After(i) \in Final
    BY <1>3, <1>4
  <2>2. \A j \in After(i) : j \in T
    BY <1>3, <1>4
  <2>. QED
    BY <1>2, <2>1, <2>2
<1>5. \A i \in S : m >= i
  BY <1>4
<1>. QED
  BY <1>5 DEF Max

(* The greater of two integers.                                            *)
LEMMA MaxOfTwo ==
  ASSUME NEW a \in Int, NEW b \in Int
  PROVE  Max({a, b}) = IF a >= b THEN a ELSE b
BY DEF Max

-----------------------------------------------------------------------------
Contract == Range(contractNames)

Of(i, k) == emitted[i].contract = k

(* Every event of a contract before a ledger is stored.                    *)
Taken(k, ledger) == \A i \in Ids : Of(i, k) /\ emitted[i].ledger < ledger => i \in stored

(* No event of the ledger or of one before it is still to come: but for    *)
(* the first ledger, which a cycle may read while it is open.              *)
Closed(ledger) == ledger < tip \/ ledger <= FirstLedger

(* The tables and the cycles are what they are said to be, at any bound.   *)
IntakeTyped ==
  /\ watch \in Seq(Contract) /\ watch # <<>>
  /\ tip \in Nat \ {0} /\ oldest \in Nat
  /\ emitted \in Seq(IntakeEvent)
  /\ stored \subseteq Ids
  /\ checkpoints \in [Contract -> Nat]
  /\ cycles \in [Cyclers -> IntakeCycle]

EventsInOrder ==
  /\ \A i \in Ids : emitted[i].ledger <= tip
  /\ \A i, j \in Ids : i <= j => emitted[i].ledger <= emitted[j].ledger

CheckpointsStand == \A k \in Contract : Closed(checkpoints[k]) /\ Taken(k, checkpoints[k])

(* What has been read of contract k, up to event j, is stored or in hand.  *)
ReadUpTo(k, j, page) == \A i \in Ids : Of(i, k) /\ i <= j => i \in stored \cup page

(* What a cycle knows of the contract k it is at, by its step.             *)
CycleStands(c, k) ==
  /\ Closed(c.latest) /\ c.latest >= FirstLedger
  /\ c.step = "load" => c.cursor = 0
  /\ c.step \in {"fetch", "store"} => Closed(c.start) /\ c.start >= FirstLedger /\ Taken(k, c.start)
  /\ c.step = "fetch" => c.cursor \in Ids \cup {0} /\ ReadUpTo(k, c.cursor, {})
  /\ c.step = "store" =>
       /\ c.page \subseteq Ids /\ WithinSnapshot(c, c.page) # {}
       /\ \A j \in c.page : ReadUpTo(k, j, c.page)
       /\ IsLast(c, c.page) =>
            \A i \in Ids : Of(i, k) /\ emitted[i].ledger < c.latest => i \in stored \cup c.page
  /\ c.step = "finish" => Taken(k, c.latest)

CyclesStand ==
  \A w \in Cyclers : cycles[w].step # "idle" =>
    cycles[w].at \in DOMAIN watch /\ CycleStands(cycles[w], watch[cycles[w].at])

IntakeInv == IntakeTyped /\ EventsInOrder /\ CheckpointsStand /\ CyclesStand

-----------------------------------------------------------------------------
(* The ids, ledgers and contracts are what they are called, and a cycle    *)
(* on its way is at one of the contracts.                                  *)
LEMMA IntakeLocates ==
  ASSUME IntakeInv
  PROVE  /\ \A i \in Ids : i \in Nat \ {0} /\ emitted[i].ledger \in Nat \ {0} /\ emitted[i].contract \in Contract
         /\ IsFiniteSet(Ids)
         /\ Contracts \subseteq Contract
         /\ \A w \in Cyclers : cycles[w].step # "idle" => watch[cycles[w].at] \in Contract
<1>1. Ids = 1..Len(emitted) /\ Len(emitted) \in Nat
  BY DEF Ids, IntakeInv, IntakeTyped
<1>2. \A i \in Ids : i \in Nat \ {0} /\ emitted[i] \in IntakeEvent
  BY <1>1 DEF IntakeInv, IntakeTyped
<1>3. IsFiniteSet(Ids)
  BY <1>1, FS_Interval
<1>4. \A i \in DOMAIN watch : watch[i] \in Contract
  BY DEF IntakeInv, IntakeTyped
<1>. QED
  BY <1>2, <1>3, <1>4 DEF IntakeEvent, Contract, Contracts, IntakeInv, CyclesStand

Before(E, i) == {j \in E : j < i}
FirstOf(E, n) == {i \in E : Cardinality(Before(E, i)) < n}

(* The first few of a finite set of integers: they are closed downwards,   *)
(* and all there are if they are fewer than the room.                      *)
LEMMA FirstFew ==
  ASSUME NEW E \in SUBSET Int, IsFiniteSet(E), NEW n \in Nat \ {0}, NEW P, P = FirstOf(E, n)
  PROVE  /\ P \subseteq E
         /\ \A j \in P, i \in E : i <= j => i \in P
         /\ Cardinality(P) < n => P = E
         /\ P = {} => Cardinality(P) < n
<1>0. P = {i \in E : Cardinality(Before(E, i)) < n}
  BY DEF FirstOf
<1>1. P \subseteq E /\ IsFiniteSet(P) /\ Cardinality(P) \in Nat
  <2>1. P \in SUBSET E
    BY <1>0
  <2>. QED
    BY <2>1, FS_Subset, FS_CardinalityType
<1>2. ASSUME NEW i \in E PROVE IsFiniteSet(Before(E, i)) /\ Cardinality(Before(E, i)) \in Nat
  <2>1. Before(E, i) \in SUBSET E
    BY DEF Before
  <2>. QED
    BY <2>1, FS_Subset, FS_CardinalityType
<1>3. ASSUME NEW j \in P, NEW i \in E, i <= j PROVE i \in P
  <2>1. j \in E /\ Cardinality(Before(E, j)) < n
    BY <1>0
  <2>2. Before(E, i) \in SUBSET Before(E, j)
    <3>1. i \in Int /\ j \in Int /\ \A k \in E : k \in Int
      BY <2>1
    <3>2. \A k \in E : k < i => k < j
      BY <1>3, <3>1
    <3>. QED
      BY <3>2 DEF Before
  <2>3. Cardinality(Before(E, i)) <= Cardinality(Before(E, j))
    BY <1>2, <2>1, <2>2, FS_Subset
  <2>4. Cardinality(Before(E, i)) < n
    BY <1>2, <2>1, <2>3
  <2>. QED
    BY <1>0, <2>4
<1>4. ASSUME P # E PROVE ~ (Cardinality(P) < n)
  <2>1. E \ P # {} /\ E \ P \in SUBSET Int
    BY <1>1, <1>4
  <2>2. IsFiniteSet(E \ P)
    BY FS_Subset, E \ P \in SUBSET E
  <2>3. PICK m \in E \ P : \A i \in E \ P : m <= i
    BY <2>1, <2>2, LeastOfFinite
  <2>4. Before(E, m) \in SUBSET P
    <3>1. m \in Int /\ \A k \in E : k \in Int
      OBVIOUS
    <3>2. \A k \in E : k < m => k \in P
      BY <2>3, <3>1
    <3>. QED
      BY <3>2 DEF Before
  <2>5. Cardinality(Before(E, m)) <= Cardinality(P)
    BY <1>1, <2>4, FS_Subset
  <2>6. ~ (Cardinality(Before(E, m)) < n)
    BY <1>0, <2>3
  <2>. QED
    BY <1>1, <1>2, <2>3, <2>5, <2>6
<1>. QED
  BY <1>1, <1>3, <1>4, FS_EmptySet

(* What a page holds, up to each of its events and, if it has room, at all.*)
LEMMA PageIsFirst ==
  ASSUME IntakeInv, NEW c
  PROVE  /\ PageOf(c) \subseteq EventsFrom(c) /\ EventsFrom(c) \subseteq Ids
         /\ \A j \in PageOf(c), i \in EventsFrom(c) : i <= j => i \in PageOf(c)
         /\ Cardinality(PageOf(c)) < PageSize => PageOf(c) = EventsFrom(c)
         /\ PageOf(c) = {} => Cardinality(PageOf(c)) < PageSize
<1>1. EventsFrom(c) \subseteq Ids
  BY DEF EventsFrom
<1>2. EventsFrom(c) \in SUBSET Int /\ IsFiniteSet(EventsFrom(c))
  BY <1>1, IntakeLocates, FS_Subset
<1>3. PageOf(c) = FirstOf(EventsFrom(c), PageSize)
  BY DEF PageOf, FirstOf, Before
<1>. QED
  <2> DEFINE E == EventsFrom(c)
             P == PageOf(c)
  <2>1. E \in SUBSET Int /\ IsFiniteSet(E) /\ P = FirstOf(E, PageSize)
    BY <1>2, <1>3
  <2>2. PageSize \in Nat \ {0}
    BY IntakeAssumption
  <2> HIDE DEF E, P
  <2>3. /\ P \subseteq E
        /\ \A j \in P, i \in E : i <= j => i \in P
        /\ Cardinality(P) < PageSize => P = E
        /\ P = {} => Cardinality(P) < PageSize
    BY <2>1, <2>2, FirstFew
  <2>. QED
    BY <1>1, <2>3 DEF E, P

(* What happens at the chain: nothing, but for events in the ledger that   *)
(* is being closed.                                                        *)
Grows ==
  /\ watch' = watch /\ tip' >= tip /\ stored \subseteq stored'
  /\ Ids \subseteq Ids' /\ \A i \in Ids : emitted'[i] = emitted[i]
  /\ \A j \in Ids' \ Ids : j \in Nat \ {0} /\ emitted'[j].ledger = tip /\ \A i \in Ids : i < j

(* What is known to be taken stays taken, and what a cycle knows stays.    *)
LEMMA TakenStays ==
  ASSUME IntakeInv, tip' \in Nat, Grows, NEW k, NEW ledger \in Nat, Closed(ledger), Taken(k, ledger)
  PROVE  Closed(ledger)' /\ Taken(k, ledger)'
<1>1. tip \in Nat \ {0} /\ tip' >= tip
  BY DEF IntakeInv, IntakeTyped, Grows
<1>2. Closed(ledger)'
  BY <1>1 DEF Closed, FirstLedger
<1>3. ASSUME NEW i \in Ids', emitted'[i].contract = k, emitted'[i].ledger < ledger PROVE i \in stored'
  <2>1. i \in Ids
    BY <1>1, <1>3 DEF Closed, FirstLedger, Grows
  <2>. QED
    BY <1>3, <2>1 DEF Taken, Of, Grows
<1>. QED
  BY <1>2, <1>3 DEF Taken, Of

(* What a cycle knows of its contract it goes on knowing.                  *)
LEMMA CycleStays ==
  ASSUME IntakeInv, tip' \in Nat, Grows, NEW k, NEW c \in IntakeCycle, CycleStands(c, k)
  PROVE  CycleStands(c, k)'
<1>1. c.latest \in Nat /\ c.start \in Nat /\ c.cursor \in Nat
  BY DEF IntakeCycle
<1>2. tip \in Nat \ {0} /\ tip' >= tip
  BY DEF IntakeInv, IntakeTyped, Grows
<1>3. Closed(c.latest)' /\ (Closed(c.start) => Closed(c.start)')
  BY <1>1, <1>2 DEF CycleStands, Closed, FirstLedger
<1>4. ASSUME NEW j \in Ids \cup {0}, NEW page, ReadUpTo(k, j, page) PROVE ReadUpTo(k, j, page)'
  <2>0. j \in Nat /\ \A i \in Ids : i \in Nat \ {0}
    BY IntakeLocates
  <2>1. \A i \in Ids' : i <= j => i \in Ids
    BY <2>0 DEF Grows
  <2>. QED
    BY <1>4, <2>1 DEF ReadUpTo, Of, Grows
<1>5. CASE c.step = "fetch"
  <2>1. Taken(k, c.start)'
    BY <1>1, <1>5, TakenStays DEF CycleStands
  <2>. QED
    BY <1>3, <1>4, <1>5, <2>1 DEF CycleStands, Grows
<1>6. CASE c.step = "store"
  <2>1. Taken(k, c.start)'
    BY <1>1, <1>6, TakenStays DEF CycleStands
  <2>2. c.page \subseteq Ids /\ \A j \in c.page : j \in Ids /\ emitted'[j] = emitted[j]
    BY <1>6 DEF CycleStands, Grows
  <2>3. WithinSnapshot(c, c.page)' = WithinSnapshot(c, c.page)
    BY <2>2 DEF WithinSnapshot
  <2>4. IsLast(c, c.page)' = IsLast(c, c.page)
    BY <2>3 DEF IsLast
  <2>5. \A j \in c.page : ReadUpTo(k, j, c.page)'
    BY <1>4, <1>6, <2>2 DEF CycleStands
  <2>6. ASSUME IsLast(c, c.page), NEW i \in Ids', emitted'[i].contract = k, emitted'[i].ledger < c.latest
        PROVE  i \in stored' \cup c.page
    <3>1. i \in Ids
      BY <1>1, <1>2, <2>6 DEF CycleStands, Closed, FirstLedger, Grows
    <3>. QED
      BY <1>6, <2>6, <3>1 DEF CycleStands, Of, Grows
  <2>. QED
    BY <1>3, <1>6, <2>1, <2>2, <2>3, <2>4, <2>5, <2>6 DEF CycleStands, Of, Grows
<1>7. CASE c.step = "finish"
  <2>1. Taken(k, c.latest)'
    BY <1>1, <1>7, TakenStays DEF CycleStands
  <2>. QED
    BY <1>3, <1>7, <2>1 DEF CycleStands
<1>. QED
  BY <1>3, <1>5, <1>6, <1>7 DEF CycleStands

(* A step of a cycle, from what it does to the tables and what the cycle   *)
(* knows after it.                                                         *)
LEMMA CycleStepKeeps ==
  ASSUME IntakeInv, NEW w \in Cyclers, NEW c \in IntakeCycle, Goto(w, c), UNCHANGED chainSide,
         stored \subseteq stored', stored' \subseteq Ids,
         checkpoints' \in [Contract -> Nat], CheckpointsStand',
         c.step # "idle" => c.at \in DOMAIN watch,
         c.step # "idle" => \A k : k = watch[c.at] => CycleStands(c, k)'
  PROVE  IntakeInv'
<1>1. Grows /\ Ids' = Ids /\ tip' \in Nat
  BY DEF Grows, chainSide, Ids, IntakeInv, IntakeTyped
<1>2. cycles' \in [Cyclers -> IntakeCycle]
  BY DEF Goto, IntakeInv, IntakeTyped
<1>3. \A v \in Cyclers : cycles'[v] = c \/ cycles'[v] = cycles[v]
  BY DEF Goto, IntakeInv, IntakeTyped
<1>4. IntakeTyped' /\ EventsInOrder'
  BY <1>1, <1>2 DEF chainSide, IntakeInv, IntakeTyped, EventsInOrder
<1>5. CyclesStand'
  <2>1. ASSUME NEW v \in Cyclers, cycles'[v].step # "idle", NEW k, k = watch[cycles'[v].at], NEW d \in IntakeCycle, d = cycles'[v]
        PROVE  d.at \in DOMAIN watch /\ CycleStands(d, k)'
    <3>1. CASE d = c
      BY <2>1, <3>1
    <3>2. CASE cycles'[v] = cycles[v]
      <4>1. d.at \in DOMAIN watch /\ CycleStands(d, k)
        BY <2>1, <3>2 DEF IntakeInv, CyclesStand
      <4>. QED
        BY <1>1, <4>1, CycleStays
    <3>. QED
      BY <1>3, <2>1, <3>1, <3>2
  <2>2. watch' = watch
    BY DEF chainSide
  <2>. QED
    BY <1>2, <2>1, <2>2 DEF CyclesStand
<1>. QED
  BY <1>4, <1>5 DEF IntakeInv

(* A cycle at rest is one.                                                 *)
LEMMA IdleIsCycle == Idle \in IntakeCycle /\ Idle.step = "idle" /\ Idle.cursor = 0
BY DEF Idle, IntakeCycle

(* The steps beside the cycles.                                            *)
LEMMA ChainStepKeeps ==
  ASSUME IntakeInv, IntakeTyped', EventsInOrder', Grows, UNCHANGED <<tables, cycles>>
  PROVE  IntakeInv'
<1>1. tip' \in Nat /\ watch' = watch
  BY DEF IntakeTyped, Grows
<1>2. CheckpointsStand'
  <2>1. ASSUME NEW k \in Contract PROVE Closed(checkpoints[k])' /\ Taken(k, checkpoints[k])'
    <3>1. checkpoints[k] \in Nat /\ checkpoints' = checkpoints
      BY DEF tables, IntakeInv, IntakeTyped
    <3>2. ASSUME NEW ledger, ledger = checkpoints[k] PROVE Closed(ledger)' /\ Taken(k, ledger)'
      BY <1>1, <3>1, <3>2, TakenStays DEF IntakeInv, CheckpointsStand
    <3>. QED
      BY <3>1, <3>2 DEF Closed, Taken
  <2>. QED
    BY <2>1 DEF CheckpointsStand
<1>3. CyclesStand'
  <2>1. ASSUME NEW w \in Cyclers, cycles[w].step # "idle", NEW c, c = cycles[w], NEW k, k = watch[c.at]
        PROVE  c.at \in DOMAIN watch /\ CycleStands(c, k)'
    <3>1. c \in IntakeCycle /\ c.at \in DOMAIN watch /\ CycleStands(c, k)
      BY <2>1 DEF IntakeInv, IntakeTyped, CyclesStand
    <3>. QED
      BY <1>1, <3>1, CycleStays
  <2>. QED
    BY <1>1, <2>1 DEF CyclesStand
<1>. QED
  BY <1>2, <1>3 DEF IntakeInv

(* A ledger is closed, the RPC forgets one, a contract publishes: what     *)
(* has been read stays read, as new events come in the open ledger.        *)
LEMMA ChainSideKeeps ==
  ASSUME IntakeInv, CloseLedger \/ Forget \/ \E k \in Contracts : Publish(k)
  PROVE  IntakeInv'
<1>1. ASSUME CloseLedger \/ Forget PROVE IntakeInv'
  <2>1. /\ tip \in Nat \ {0} /\ oldest \in Nat
        /\ UNCHANGED <<watch, emitted, tables, cycles>>
        /\ tip' \in Nat \ {0} /\ oldest' \in Nat /\ tip' >= tip
    BY <1>1 DEF CloseLedger, Forget, IntakeInv, IntakeTyped
  <2>2. IntakeTyped' /\ Grows
    BY <2>1 DEF IntakeInv, IntakeTyped, Grows, Ids, tables
  <2>3. EventsInOrder'
    BY <2>1, IntakeLocates DEF IntakeInv, EventsInOrder, Ids
  <2>. QED
    BY <2>1, <2>2, <2>3, ChainStepKeeps
<1>2. ASSUME NEW k \in Contracts, Publish(k) PROVE IntakeInv'
  <2>1. PICK t \in DOMAIN Published[k] :
          emitted' = Append(emitted, [contract |-> k, ledger |-> tip, decodes |-> Decodes(k, t)])
    BY <1>2 DEF Publish
  <2> DEFINE e == [contract |-> k, ledger |-> tip, decodes |-> Decodes(k, t)]
  <2>2. e \in IntakeEvent /\ e.ledger = tip
    BY IntakeLocates DEF IntakeEvent, Contract, Decodes, IntakeInv, IntakeTyped
  <2> HIDE DEF e
  <2> DEFINE n == Len(emitted) + 1
  <2>3. /\ emitted' \in Seq(IntakeEvent) /\ Ids = 1..Len(emitted) /\ Len(emitted) \in Nat
        /\ Ids' = 1..n /\ emitted'[n].ledger = tip /\ \A i \in Ids : emitted'[i] = emitted[i]
    BY <2>1, <2>2 DEF e, Ids, IntakeInv, IntakeTyped
  <2>4. UNCHANGED <<watch, tip, oldest, tables, cycles>> /\ tip \in Nat \ {0}
    BY <1>2 DEF Publish, IntakeInv, IntakeTyped
  <2>5. Grows
    BY <2>3, <2>4 DEF Grows, tables
  <2>6. IntakeTyped'
    BY <2>3, <2>4 DEF IntakeInv, IntakeTyped, tables
  <2>7. EventsInOrder'
    <3>1. \A i \in Ids : emitted[i].ledger \in Nat /\ emitted[i].ledger <= tip
      BY IntakeLocates DEF IntakeInv, EventsInOrder
    <3>2. \A i \in Ids' : i = n \/ i \in Ids
      BY <2>3
    <3>3. \A i \in Ids : i < n
      BY <2>3
    <3>4. \A i \in Ids' : emitted'[i].ledger <= tip'
      BY <2>3, <2>4, <3>1, <3>2
    <3>5. ASSUME NEW i \in Ids', NEW j \in Ids', i <= j
          PROVE  emitted'[i].ledger <= emitted'[j].ledger
      <4>1. CASE j = n
        BY <2>3, <2>4, <3>4, <4>1
      <4>2. CASE i \in Ids /\ j \in Ids
        BY <2>3, <3>5, <4>2 DEF IntakeInv, EventsInOrder
      <4>3. ~ (i = n /\ j \in Ids)
        BY <2>3, <3>3, <3>5
      <4>. QED
        BY <3>2, <4>1, <4>2, <4>3
    <3>. QED
      BY <3>4, <3>5 DEF EventsInOrder
  <2>. QED
    BY <2>4, <2>5, <2>6, <2>7, ChainStepKeeps
<1>. QED
  BY <1>1, <1>2

(* A step of a cycle that leaves the tables alone.                         *)
LEMMA TablesStay ==
  ASSUME IntakeInv, UNCHANGED <<chainSide, tables>>
  PROVE  /\ stored \subseteq stored' /\ stored' \subseteq Ids
         /\ checkpoints' \in [Contract -> Nat] /\ CheckpointsStand' /\ UNCHANGED chainSide
BY DEF tables, chainSide, IntakeInv, IntakeTyped, CheckpointsStand, Closed, Taken, Of, Ids

(* A cycle begins, at the end of the ledgers that are closed.              *)
LEMMA BeginKeeps == ASSUME IntakeInv, NEW w \in Cyclers, Begin(w) PROVE IntakeInv'
<1>1. tip \in Nat \ {0} /\ watch \in Seq(Contract) /\ watch # <<>>
  BY DEF IntakeInv, IntakeTyped
<1>2. PICK latest : latest = Max({FirstLedger, tip - 1})
  OBVIOUS
<1>3. latest \in Nat /\ latest >= FirstLedger /\ Closed(latest)
  <2>1. latest = IF FirstLedger >= tip - 1 THEN FirstLedger ELSE tip - 1
    BY <1>1, <1>2, MaxOfTwo DEF FirstLedger
  <2>. QED
    BY <1>1, <2>1 DEF Closed, FirstLedger
<1>4. PICK c : c = [Idle EXCEPT !.step = "load", !.at = 1, !.latest = latest]
  OBVIOUS
<1>5. c \in IntakeCycle /\ c.step = "load" /\ c.at = 1 /\ c.cursor = 0 /\ c.latest = latest
  BY <1>3, <1>4 DEF Idle, IntakeCycle
<1>6. Goto(w, c) /\ UNCHANGED <<chainSide, tables>>
  BY <1>2, <1>4 DEF Begin
<1>7. 1 \in DOMAIN watch
  BY <1>1
<1>8. \A k : CycleStands(c, k)'
  BY <1>3, <1>5, <1>6 DEF CycleStands, Closed, chainSide
<1>. QED
  BY <1>5, <1>6, <1>7, <1>8, TablesStay, CycleStepKeeps

(* The cycle resumes at a ledger before which nothing is missing.          *)
LEMMA ResumesRight ==
  ASSUME IntakeInv, NEW k \in Contract
  PROVE  /\ startLedger(k) \in Nat /\ startLedger(k) >= FirstLedger
         /\ Closed(startLedger(k)) /\ Taken(k, startLedger(k))
<1>1. checkpoints[k] \in Nat /\ tip \in Nat \ {0} /\ Overlap \in Nat
  BY IntakeAssumption DEF IntakeInv, IntakeTyped
<1>2. Max({FirstLedger, checkpoints[k] - Overlap}) =
        IF FirstLedger >= checkpoints[k] - Overlap THEN FirstLedger ELSE checkpoints[k] - Overlap
  BY <1>1, MaxOfTwo DEF FirstLedger
<1>3. /\ startLedger(k) \in Nat /\ startLedger(k) >= FirstLedger
      /\ startLedger(k) = FirstLedger \/ startLedger(k) <= checkpoints[k]
  BY <1>1, <1>2 DEF startLedger, FirstLedger
<1>4. Closed(checkpoints[k]) /\ Taken(k, checkpoints[k])
  BY DEF IntakeInv, CheckpointsStand
<1>5. Closed(startLedger(k))
  BY <1>1, <1>3, <1>4 DEF Closed, FirstLedger
<1>6. ASSUME NEW i \in Ids, Of(i, k), emitted[i].ledger < startLedger(k) PROVE i \in stored
  <2>1. emitted[i].ledger \in Nat \ {0}
    BY IntakeLocates
  <2>2. emitted[i].ledger < checkpoints[k]
    BY <1>1, <1>3, <1>6, <2>1 DEF FirstLedger
  <2>. QED
    BY <1>4, <1>6, <2>2 DEF Taken
<1>. QED
  BY <1>3, <1>5, <1>6 DEF Taken

(* The checkpoint of a contract is loaded.                                 *)
LEMMA LoadKeeps == ASSUME IntakeInv, NEW w \in Cyclers, Load(w) PROVE IntakeInv'
<1>1. PICK c : c = cycles[w]
  OBVIOUS
<1>2. PICK k : k = watch[c.at]
  OBVIOUS
<1>3. c \in IntakeCycle /\ c.step = "load" /\ c.at \in DOMAIN watch /\ k \in Contract /\ CycleStands(c, k)
  BY <1>1, <1>2, IntakeLocates DEF Load, IntakeInv, IntakeTyped, CyclesStand
<1>4. PICK start : start = startLedger(k)
  OBVIOUS
<1>5. start \in Nat /\ start >= FirstLedger /\ Closed(start) /\ Taken(k, start)
  BY <1>3, <1>4, ResumesRight
<1>6. PICK d : d = [c EXCEPT !.step = "fetch", !.start = start]
  OBVIOUS
<1>7. d \in IntakeCycle /\ d.step = "fetch" /\ d.at = c.at /\ d.latest = c.latest /\ d.start = start /\ d.cursor = c.cursor
  BY <1>3, <1>5, <1>6 DEF IntakeCycle
<1>8. Goto(w, d) /\ UNCHANGED <<chainSide, tables>>
  BY <1>1, <1>2, <1>4, <1>6 DEF Load
<1>9. CycleStands(d, k)
  <2>1. \A i \in Ids : ~ (i <= 0)
    BY IntakeLocates
  <2>. QED
    BY <1>3, <1>5, <1>7, <2>1 DEF CycleStands, ReadUpTo
<1>10. tip' \in Nat /\ Grows
  BY <1>8 DEF Grows, chainSide, tables, Ids, IntakeInv, IntakeTyped
<1>11. CycleStands(d, k)'
  BY <1>7, <1>9, <1>10, CycleStays
<1>. QED
  BY <1>2, <1>3, <1>7, <1>8, <1>11, TablesStay, CycleStepKeeps

(* What a page means for a cycle that has read everything before it: up to *)
(* each of its events nothing is missing, and if it is the last, nothing   *)
(* before the end of the snapshot is.                                      *)
LEMMA PageIsNext ==
  ASSUME IntakeInv, NEW c \in IntakeCycle, NEW k, k = watch[c.at], c.step = "fetch", CycleStands(c, k), ~ OutOfRetention(c),
         NEW page, page = PageOf(c)
  PROVE  /\ page \subseteq Ids
         /\ \A j \in page : ReadUpTo(k, j, page)
         /\ IsLast(c, page) => \A i \in Ids : Of(i, k) /\ emitted[i].ledger < c.latest => i \in stored \cup page
         /\ WithinSnapshot(c, page) = {} => IsLast(c, page)
<1>1. /\ \A i \in Ids : i \in Nat \ {0} /\ emitted[i].ledger \in Nat \ {0}
      /\ \A i, j \in Ids : i <= j => emitted[i].ledger <= emitted[j].ledger
      /\ c.start \in Nat /\ c.latest \in Nat /\ c.cursor \in Nat /\ oldest \in Nat /\ oldest <= c.start
  BY IntakeLocates DEF IntakeInv, IntakeTyped, EventsInOrder, IntakeCycle, OutOfRetention
<1>2. /\ page \subseteq EventsFrom(c) /\ EventsFrom(c) \subseteq Ids
      /\ \A j \in page, i \in EventsFrom(c) : i <= j => i \in page
      /\ Cardinality(page) < PageSize => page = EventsFrom(c)
      /\ page = {} => Cardinality(page) < PageSize
  BY PageIsFirst
<1>3. ASSUME NEW i \in Ids, Of(i, k), i \notin stored, c.cursor = 0 => emitted[i].ledger <= c.latest
      PROVE  i \in EventsFrom(c)
  <2>1. emitted[i].ledger >= c.start
    BY <1>1, <1>3 DEF CycleStands, Taken
  <2>2. c.cursor # 0 => i > c.cursor
    BY <1>1, <1>3 DEF CycleStands, ReadUpTo
  <2>. QED
    BY <1>1, <1>3, <2>1, <2>2 DEF EventsFrom, Of
<1>4. ASSUME NEW j \in page, NEW i \in Ids, Of(i, k), i <= j PROVE i \in stored \cup page
  <2>1. CASE i \in stored
    BY <2>1
  <2>2. CASE i \notin stored
    <3>1. j \in EventsFrom(c) /\ j \in Ids
      BY <1>2
    <3>2. c.cursor = 0 => emitted[i].ledger <= c.latest
      BY <1>1, <1>4, <3>1 DEF EventsFrom
    <3>3. i \in EventsFrom(c)
      BY <1>3, <1>4, <2>2, <3>2
    <3>. QED
      BY <1>2, <1>4, <3>3
  <2>. QED
    BY <2>1, <2>2
<1>5. ASSUME IsLast(c, page), NEW i \in Ids, Of(i, k), emitted[i].ledger < c.latest PROVE i \in stored \cup page
  <2>1. CASE i \in stored
    BY <2>1
  <2>2. CASE i \notin stored
    <3>1. i \in EventsFrom(c)
      BY <1>1, <1>3, <1>5, <2>2
    <3>2. CASE Cardinality(page) < PageSize
      BY <1>2, <3>1, <3>2
    <3>3. CASE WithinSnapshot(c, page) # page
      <4>1. PICK j \in page : ~ (emitted[j].ledger <= c.latest)
        BY <3>3 DEF WithinSnapshot
      <4>2. j \in Ids /\ i <= j
        BY <1>1, <1>2, <1>5, <4>1
      <4>. QED
        BY <1>2, <3>1, <4>2
    <3>. QED
      BY <1>5, <3>2, <3>3 DEF IsLast
  <2>. QED
    BY <2>1, <2>2
<1>6. WithinSnapshot(c, page) = {} => IsLast(c, page)
  BY <1>2 DEF IsLast
<1>. QED
  BY <1>2, <1>4, <1>5, <1>6 DEF ReadUpTo

(* A page is fetched, or the cycle ends.                                   *)
LEMMA FetchKeeps == ASSUME IntakeInv, NEW w \in Cyclers, Fetch(w) PROVE IntakeInv'
<1>1. PICK c : c = cycles[w]
  OBVIOUS
<1>2. PICK k : k = watch[c.at]
  OBVIOUS
<1>3. c \in IntakeCycle /\ c.step = "fetch" /\ c.at \in DOMAIN watch /\ CycleStands(c, k)
  BY <1>1, <1>2 DEF Fetch, IntakeInv, IntakeTyped, CyclesStand
<1>4. PICK page : page = PageOf(c)
  OBVIOUS
<1>5. UNCHANGED <<chainSide, tables>> /\ tip' \in Nat /\ Grows
  BY DEF Fetch, Grows, chainSide, tables, Ids, IntakeInv, IntakeTyped
<1>6. CASE Goto(w, Idle)
  BY <1>5, <1>6, IdleIsCycle, TablesStay, CycleStepKeeps
<1>7. CASE ~ OutOfRetention(c) /\ WithinSnapshot(c, page) = {} /\ Goto(w, Onward(c, page))
  <2>1. IsLast(c, page) /\ \A i \in Ids : Of(i, k) /\ emitted[i].ledger < c.latest => i \in stored \cup page
    BY <1>2, <1>3, <1>4, <1>7, PageIsNext
  <2>2. PICK d : d = [c EXCEPT !.step = "finish", !.page = {}]
    OBVIOUS
  <2>3. d \in IntakeCycle /\ d.step = "finish" /\ d.at = c.at /\ d.latest = c.latest
    BY <1>3, <2>2 DEF IntakeCycle
  <2>4. Goto(w, d)
    BY <1>7, <2>1, <2>2 DEF Onward
  <2>5. Taken(k, c.latest)
    <3>1. ASSUME NEW i \in Ids, emitted[i].ledger < c.latest PROVE i \notin page
      <4>1. emitted[i].ledger <= c.latest
        BY <1>3, <3>1, IntakeLocates DEF IntakeCycle
      <4>. QED
        BY <1>7, <4>1 DEF WithinSnapshot
    <3>. QED
      BY <2>1, <3>1 DEF Taken
  <2>6. CycleStands(d, k)
    BY <1>3, <2>3, <2>5 DEF CycleStands
  <2>7. CycleStands(d, k)'
    BY <1>5, <2>3, <2>6, CycleStays
  <2>. QED
    BY <1>2, <1>3, <1>5, <2>3, <2>4, <2>7, TablesStay, CycleStepKeeps
<1>8. CASE ~ OutOfRetention(c) /\ WithinSnapshot(c, page) # {} /\ Goto(w, [c EXCEPT !.step = "store", !.page = page])
  <2>1. /\ page \subseteq Ids
        /\ \A j \in page : ReadUpTo(k, j, page)
        /\ IsLast(c, page) => \A i \in Ids : Of(i, k) /\ emitted[i].ledger < c.latest => i \in stored \cup page
    BY <1>2, <1>3, <1>4, <1>8, PageIsNext
  <2>2. page \in SUBSET Nat
    BY <2>1, IntakeLocates
  <2>3. PICK d : d = [c EXCEPT !.step = "store", !.page = page]
    OBVIOUS
  <2>4. d \in IntakeCycle /\ d.step = "store" /\ d.at = c.at /\ d.latest = c.latest /\ d.start = c.start /\ d.page = page
    BY <1>3, <2>2, <2>3 DEF IntakeCycle
  <2>5. WithinSnapshot(d, page) = WithinSnapshot(c, page) /\ (IsLast(d, page) <=> IsLast(c, page))
    BY <2>4 DEF WithinSnapshot, IsLast
  <2>6. CycleStands(d, k)
    BY <1>3, <1>8, <2>1, <2>4, <2>5 DEF CycleStands
  <2>7. CycleStands(d, k)'
    BY <1>5, <2>4, <2>6, CycleStays
  <2>. QED
    BY <1>2, <1>3, <1>5, <1>8, <2>3, <2>4, <2>7, TablesStay, CycleStepKeeps
<1>. QED
  BY <1>1, <1>4, <1>6, <1>7, <1>8 DEF Fetch

(* A page is stored with its checkpoint, the ledger of its last event:     *)
(* what is before that ledger was before the page or is in it.             *)
LEMMA StoreKeeps == ASSUME IntakeInv, NEW w \in Cyclers, Store(w) PROVE IntakeInv'
<1>1. PICK c : c = cycles[w]
  OBVIOUS
<1>2. PICK k : k = watch[c.at]
  OBVIOUS
<1>3. c \in IntakeCycle /\ c.step = "store" /\ c.at \in DOMAIN watch /\ k \in Contract /\ CycleStands(c, k)
  BY <1>1, <1>2, IntakeLocates DEF Store, IntakeInv, IntakeTyped, CyclesStand
<1>4. PICK within : within = WithinSnapshot(c, c.page)
  OBVIOUS
<1>5. /\ within \subseteq c.page /\ c.page \subseteq Ids /\ within # {}
      /\ \A i \in c.page : i \in within <=> emitted[i].ledger <= c.latest
  BY <1>3, <1>4 DEF CycleStands, WithinSnapshot
<1>6. /\ \A i \in Ids : i \in Nat \ {0} /\ emitted[i].ledger \in Nat \ {0}
      /\ \A i, j \in Ids : i <= j => emitted[i].ledger <= emitted[j].ledger
      /\ c.latest \in Nat /\ tip \in Nat \ {0}
  BY <1>3, IntakeLocates DEF IntakeInv, IntakeTyped, EventsInOrder, IntakeCycle
<1>7. PICK m : m = Max(within)
  OBVIOUS
<1>8. m \in within /\ \A i \in within : i <= m
  <2>1. within \in SUBSET Int /\ IsFiniteSet(within)
    BY <1>5, <1>6, IntakeLocates, FS_Subset
  <2>. QED
    BY <1>5, <1>7, <2>1, GreatestOfFinite
<1>9. PICK ledger : ledger = emitted[m].ledger
  OBVIOUS
<1>10. ledger \in Nat /\ ledger <= c.latest /\ Closed(ledger)
  BY <1>3, <1>5, <1>6, <1>8, <1>9 DEF CycleStands, Closed, FirstLedger
<1>11. /\ UNCHANGED chainSide /\ stored' = stored \cup within
       /\ checkpoints' = [checkpoints EXCEPT ![k] = ledger] /\ Goto(w, Onward(c, c.page))
  BY <1>1, <1>2, <1>4, <1>7, <1>9 DEF Store, PageCheckpoint
<1>12. tip' \in Nat /\ Grows /\ Ids' = Ids /\ emitted' = emitted
  BY <1>11 DEF Grows, chainSide, Ids, IntakeInv, IntakeTyped
<1>13. stored \subseteq stored' /\ stored' \subseteq Ids /\ checkpoints' \in [Contract -> Nat]
  BY <1>5, <1>10, <1>11 DEF IntakeInv, IntakeTyped
<1>14. Closed(ledger)' /\ Taken(k, ledger)'
  <2>1. ASSUME NEW i \in Ids, Of(i, k), emitted[i].ledger < ledger PROVE i \in stored'
    <3>1. m \in c.page /\ m \in Ids /\ i <= m
      BY <1>5, <1>6, <1>8, <1>9, <2>1
    <3>2. i \in stored \cup c.page
      BY <1>3, <2>1, <3>1 DEF CycleStands, ReadUpTo
    <3>3. emitted[i].ledger <= c.latest
      BY <1>6, <1>10, <2>1
    <3>. QED
      BY <1>5, <1>11, <3>2, <3>3
  <2>. QED
    BY <1>10, <1>11, <1>12, <2>1 DEF Closed, Taken, Of, chainSide
<1>15. CheckpointsStand'
  <2>1. ASSUME NEW j \in Contract, NEW l, l = checkpoints'[j] PROVE Closed(l)' /\ Taken(j, l)'
    <3>1. CASE j = k
      BY <1>11, <1>14, <2>1, <3>1 DEF IntakeInv, IntakeTyped
    <3>2. CASE j # k
      <4>1. l = checkpoints[j] /\ l \in Nat /\ Closed(l) /\ Taken(j, l)
        BY <1>11, <2>1, <3>2 DEF IntakeInv, IntakeTyped, CheckpointsStand
      <4>. QED
        BY <1>12, <4>1, TakenStays
    <3>. QED
      BY <3>1, <3>2
  <2>. QED
    BY <2>1 DEF CheckpointsStand
<1>16. CASE IsLast(c, c.page)
  <2>1. PICK d : d = [c EXCEPT !.step = "finish", !.page = {}]
    OBVIOUS
  <2>2. d \in IntakeCycle /\ d.step = "finish" /\ d.at = c.at /\ d.latest = c.latest /\ Goto(w, d)
    BY <1>3, <1>11, <1>16, <2>1 DEF IntakeCycle, Onward
  <2>3. ASSUME NEW i \in Ids, Of(i, k), emitted[i].ledger < c.latest PROVE i \in stored'
    <3>1. i \in stored \cup c.page
      BY <1>3, <1>16, <2>3 DEF CycleStands
    <3>. QED
      BY <1>5, <1>6, <1>11, <2>3, <3>1
  <2>4. CycleStands(d, k)'
    BY <1>3, <1>11, <1>12, <2>2, <2>3 DEF CycleStands, Closed, Taken, Of, chainSide
  <2>. QED
    BY <1>2, <1>3, <1>11, <1>13, <1>15, <2>2, <2>4, CycleStepKeeps
<1>17. CASE ~ IsLast(c, c.page)
  <2>1. within = c.page
    BY <1>4, <1>17 DEF IsLast
  <2>2. PICK d : d = [c EXCEPT !.step = "fetch", !.cursor = m, !.page = {}]
    OBVIOUS
  <2>3. /\ d \in IntakeCycle /\ d.step = "fetch" /\ d.at = c.at /\ d.latest = c.latest
        /\ d.start = c.start /\ d.cursor = m /\ Goto(w, d)
    BY <1>3, <1>5, <1>6, <1>7, <1>8, <1>11, <1>17, <2>1, <2>2 DEF IntakeCycle, Onward
  <2>4. ASSUME NEW i \in Ids, Of(i, k), i <= m PROVE i \in stored'
    BY <1>3, <1>8, <1>11, <2>1, <2>4 DEF CycleStands, ReadUpTo
  <2>5. Closed(c.start)' /\ Taken(k, c.start)'
    <3>1. c.start \in Nat /\ Closed(c.start) /\ Taken(k, c.start)
      BY <1>3 DEF CycleStands, IntakeCycle
    <3>. QED
      BY <1>12, <3>1, TakenStays
  <2>6. CycleStands(d, k)'
    <3>1. m \in Ids
      BY <1>5, <1>8
    <3>. QED
      BY <1>3, <1>11, <1>12, <2>3, <2>4, <2>5, <3>1 DEF CycleStands, Closed, ReadUpTo, Of, chainSide
  <2>. QED
    BY <1>2, <1>3, <1>11, <1>13, <1>15, <2>3, <2>6, CycleStepKeeps
<1>. QED
  BY <1>16, <1>17

(* A contract is done, and the cycle goes on to the next.                  *)
LEMMA FinishKeeps == ASSUME IntakeInv, NEW w \in Cyclers, Finish(w) PROVE IntakeInv'
<1>1. PICK c : c = cycles[w]
  OBVIOUS
<1>2. PICK k : k = watch[c.at]
  OBVIOUS
<1>3. c \in IntakeCycle /\ c.step = "finish" /\ c.at \in DOMAIN watch /\ k \in Contract /\ CycleStands(c, k)
  BY <1>1, <1>2, IntakeLocates DEF Finish, IntakeInv, IntakeTyped, CyclesStand
<1>4. /\ UNCHANGED <<chainSide, stored>> /\ checkpoints' = [checkpoints EXCEPT ![k] = c.latest]
      /\ tip' \in Nat /\ Grows /\ c.latest \in Nat
  BY <1>1, <1>2, <1>3 DEF Finish, Grows, chainSide, Ids, IntakeCycle, IntakeInv, IntakeTyped
<1>5. stored \subseteq stored' /\ stored' \subseteq Ids /\ checkpoints' \in [Contract -> Nat]
  BY <1>4 DEF IntakeInv, IntakeTyped
<1>6. CheckpointsStand'
  <2>1. ASSUME NEW j \in Contract, NEW l, l = checkpoints'[j] PROVE Closed(l)' /\ Taken(j, l)'
    <3>1. l \in Nat /\ Closed(l) /\ Taken(j, l)
      BY <1>3, <1>4, <2>1 DEF IntakeInv, IntakeTyped, CheckpointsStand, CycleStands
    <3>. QED
      BY <1>4, <3>1, TakenStays
  <2>. QED
    BY <2>1 DEF CheckpointsStand
<1>7. CASE Goto(w, Idle)
  BY <1>4, <1>5, <1>6, <1>7, IdleIsCycle, CycleStepKeeps
<1>8. CASE c.at # Len(watch) /\ Goto(w, [Idle EXCEPT !.step = "load", !.at = c.at + 1, !.latest = c.latest])
  <2>1. PICK d : d = [Idle EXCEPT !.step = "load", !.at = c.at + 1, !.latest = c.latest]
    OBVIOUS
  <2>2. c.at + 1 \in DOMAIN watch /\ c.at + 1 \in Nat
    BY <1>3, <1>8 DEF IntakeInv, IntakeTyped
  <2>3. d \in IntakeCycle /\ d.step = "load" /\ d.at = c.at + 1 /\ d.latest = c.latest /\ d.cursor = 0
    BY <1>4, <2>1, <2>2 DEF IntakeCycle, Idle
  <2>4. \A j : CycleStands(d, j)'
    BY <1>3, <1>4, <2>3 DEF CycleStands, Closed, chainSide
  <2>. QED
    BY <1>4, <1>5, <1>6, <1>8, <2>1, <2>2, <2>3, <2>4, CycleStepKeeps
<1>. QED
  BY <1>1, <1>7, <1>8 DEF Finish

(* Every step keeps the invariant.                                         *)
LEMMA IntakeStep == IntakeInv /\ [IntakeNext]_intakeVars => IntakeInv'
<1> SUFFICES ASSUME IntakeInv, [IntakeNext]_intakeVars PROVE IntakeInv'
  OBVIOUS
<1>1. ASSUME NEW w \in Cyclers, Abort(w) PROVE IntakeInv'
  BY <1>1, IdleIsCycle, TablesStay, CycleStepKeeps DEF Abort
<1>2. CASE UNCHANGED intakeVars
  <2>1. IntakeTyped' /\ EventsInOrder' /\ Grows /\ UNCHANGED <<tables, cycles>>
    BY <1>2 DEF intakeVars, chainSide, tables, IntakeInv, IntakeTyped, EventsInOrder, Grows, Ids
  <2>. QED
    BY <2>1, ChainStepKeeps
<1>. QED
  BY <1>1, <1>2, ChainSideKeeps, BeginKeeps, LoadKeeps, FetchKeeps, StoreKeeps, FinishKeeps
  DEF IntakeNext, CycleStep

(* What holds when nothing has been emitted.                               *)
LEMMA IntakeStarts == IntakeInit => IntakeInv
<1>1. ASSUME IntakeInit PROVE IntakeInv
  <2>1. watch \in Seq(Contract) /\ watch # <<>>
    BY <1>1, IntakeAssumption DEF IntakeInit, Contract
  <2>2. Ids = {} /\ emitted \in Seq(IntakeEvent)
    BY <1>1 DEF IntakeInit, Ids
  <2>3. IntakeTyped
    BY <1>1, <2>1, <2>2, IdleIsCycle DEF IntakeInit, IntakeTyped, FirstLedger, Contract
  <2>4. EventsInOrder /\ CheckpointsStand
    BY <1>1, <2>2 DEF IntakeInit, EventsInOrder, CheckpointsStand, Closed, Taken, FirstLedger, Contract
  <2>5. CyclesStand
    BY <1>1, IdleIsCycle DEF IntakeInit, CyclesStand
  <2>. QED
    BY <2>3, <2>4, <2>5 DEF IntakeInv
<1>. QED
  BY <1>1

(* The tables, the chain and the cycles hold what their types say, and no  *)
(* more awaits throw than the bound allows.                                *)
THEOREM IntakeTypeCorrect == IntakeSpec => []IntakeTypeOK
<1> DEFINE Aborts == aborts \in 0..MaxAborts
<1>1. IntakeInit => Aborts
  BY IntakeAssumption DEF IntakeInit
<1>2. Aborts /\ [IntakeNext]_intakeVars => Aborts'
  <2> SUFFICES ASSUME Aborts, [IntakeNext]_intakeVars PROVE Aborts'
    OBVIOUS
  <2>1. ASSUME NEW w \in Cyclers, Abort(w) PROVE Aborts'
    BY <2>1, IntakeAssumption DEF Abort
  <2>2. ASSUME NEW w \in Cyclers, CycleStep(w) PROVE Aborts'
    BY <2>2 DEF CycleStep, Begin, Load, Fetch, Store, Finish
  <2>. QED
    BY <2>1, <2>2 DEF IntakeNext, CloseLedger, Forget, Publish, intakeVars
<1>3. IntakeInv /\ Aborts => IntakeTypeOK
  BY DEF IntakeInv, IntakeTyped, IntakeTypeOK, Contract
<1>. QED
  BY <1>1, <1>2, <1>3, IntakeStarts, IntakeStep, PTL DEF IntakeSpec

(* No event is ever below the ledger from which the next cycle resumes     *)
(* without being stored: for every page size, overlap, number of cycles    *)
(* and failures.                                                           *)
THEOREM NothingIsSkipped == IntakeSpec => []NothingSkipped
<1>1. IntakeInv => NothingSkipped
  <2> SUFFICES ASSUME IntakeInv, NEW i \in Ids, emitted[i].ledger < startLedger(emitted[i].contract) PROVE i \in stored
    BY DEF NothingSkipped
  <2>1. emitted[i].contract \in Contract
    BY IntakeLocates
  <2>. QED
    BY <2>1, ResumesRight DEF Taken, Of
<1>. QED
  BY <1>1, IntakeStarts, IntakeStep, PTL DEF IntakeSpec
=============================================================================
