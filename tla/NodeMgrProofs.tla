---------------------------- MODULE NodeMgrProofs ----------------------------
(***************************************************************************)
(* Proofs about the node manager and the power domain, for every table of  *)
(* nodes, every number of ground threads and every choice of faulty chips. *)
(*                                                                         *)
(* Every action moves at most one thread, from a place where it does not   *)
(* wait for the bus or from a transfer it makes as the owner of the bus:   *)
(* that keeps the queue of the bus.  What the drivers and chips may do to  *)
(* each other, and the counts of power cycles, are two further parts of    *)
(* the invariant, each disturbed by a few actions only.                    *)
(***************************************************************************)
EXTENDS NodeMgr, TLAPS, WellFoundedInduction, FiniteSetTheorems

Cycle == {"cycleOff", "cycleOn"}
Begin == {"boot", "setup"}

PlaceType == [job : Jobs, at : Steps, card : Nodes, arg : BOOLEAN, left : Nat]

(* What holds of every place a thread can be at. *)
OKPlace(q) ==
  /\ q \in PlaceType
  /\ q.at \in Transfers \cup {"nap"} => q.card \in Cards
  /\ q.at \in {"read", "nap"} => q.left > 0
  /\ q.job \in Cycle => q.at \in {"pin", "ret"}
  /\ q.at = "woken" => q.job = "none"

PlaceInv ==
  /\ bus \in Seq(Threads)
  /\ thread \in [Threads -> PlaceType]
  /\ \A t \in Threads : OKPlace(thread[t])
  /\ BusDiscipline

PowerType ==
  /\ line \in BOOLEAN /\ chip \in [Cards -> {"input", "low", "high"}]
  /\ dev \in [Cards -> {"stop", "ready"}] /\ valid \in [Cards -> BOOLEAN]
  /\ byNode \in [Cards -> BOOLEAN] /\ missed \in [Cards -> BOOLEAN]

(* A device that is ready is valid, and a chip that drives its pins has a  *)
(* device that is ready, or missed its stop.                               *)
PowerInv ==
  /\ \A c \in Cards : dev[c] = "ready" => valid[c]
  /\ \A c \in Cards : chip[c] # "input" => dev[c] = "ready" \/ missed[c]
  /\ AssertWindow

TableType ==
  /\ known \in [Nodes -> BOOLEAN] /\ enable \in [Nodes -> BOOLEAN]
  /\ attempts \in [Nodes -> 0 .. Limit]
  /\ state \in [Nodes -> {"unknown", "alive", "idle"}]
  /\ cycled \in [Nodes -> Nat]

EventType ==
  /\ heard \in [Nodes -> {"unknown", "alive", "idle"}]
  /\ pending \in BOOLEAN /\ flags \in 0 .. 15 /\ term \in BOOLEAN /\ halted \in BOOLEAN

(* The manager is between switching the card of node n off and counting it.*)
InCycle(n) == mgr.card = n /\ (mgr.job \in Cycle \/ mgr.at = "pause")

(* A power cycle in progress is the one attempts does not count yet, and   *)
(* it was begun with an attempt left; an assertion may end it before the   *)
(* manager is told.                                                        *)
CountInv ==
  /\ CyclesBounded
  /\ \A n \in Nodes :
       /\ ~ halted => cycled[n] <= attempts[n] + (IF InCycle(n) THEN 1 ELSE 0)
       /\ InCycle(n) => attempts[n] < Limit
       /\ state[n] = "alive" => cycled[n] = 0
  /\ mgr.at \in Begin \/ mgr.job \in Begin => \A n \in Nodes : cycled[n] = 0

IInv == PowerType /\ TableType /\ EventType /\ PlaceInv /\ PowerInv /\ CountInv

----------------------------------------------------------------------------
(* A nonempty set of cards has a first one: the sets 0 .. c are ordered by *)
(* inclusion, which is well-founded on finite sets.                        *)
LEMMA FirstIsLeast ==
  ASSUME NEW S, S \subseteq Nat, S # {}
  PROVE  First(S) \in S /\ \A d \in S : First(S) <= d
<1> DEFINE T == {0 .. c : c \in S}
           R == StrictSubsetOrdering(Nat)
<1>1. IsWellFoundedOn(R, FiniteSubsetsOf(Nat))
  BY FS_StrictSubsetOrderingWellFounded
<1>2. T \subseteq FiniteSubsetsOf(Nat) /\ T # {}
  <2>1. \A c \in S : IsFiniteSet(0 .. c)
    BY FS_Interval
  <2>2. \A c \in S : 0 .. c \in SUBSET Nat
    OBVIOUS
  <2>3. \A c \in S : 0 .. c \in FiniteSubsetsOf(Nat)
    BY <2>1, <2>2 DEF FiniteSubsetsOf
  <2> QED  BY <2>3
<1> HIDE DEF R
<1>3. PICK x \in T : \A y \in T : ~ (<<y, x>> \in R)
  BY <1>1, <1>2, WFMin
<1>4. PICK c \in S : x = 0 .. c
  BY <1>3
<1>5. ASSUME NEW d \in S PROVE c <= d
  <2>1. ~ (<<0 .. d, 0 .. c>> \in R)
    BY <1>3, <1>4
  <2>2. ~ (0 .. d \subseteq 0 .. c /\ 0 .. d # 0 .. c)
    BY <2>1 DEF R, StrictSubsetOrdering
  <2>3. SUFFICES ASSUME d < c PROVE FALSE
    OBVIOUS
  <2>4. c \in 0 .. c /\ c \notin 0 .. d
    BY <2>3
  <2>5. 0 .. d \subseteq 0 .. c
    BY <2>3
  <2> QED  BY <2>2, <2>4, <2>5
<1> QED  BY <1>5 DEF First

(* Cards are naturals and nodes of the table. *)
LEMMA CardsAreNaturals == Cards \subseteq Nat /\ Cards \subseteq Nodes /\ 0 \in Nodes
BY NodeMgrAssumption DEF Nodes

----------------------------------------------------------------------------
(* Moves of one thread. *)

Moves(t, q) ==
  /\ thread' = [thread EXCEPT ![t] = q]
  /\ bus' = IF q.at \in Transfers THEN Append(Released(t), t) ELSE Released(t)

MayMove(t) == (bus # <<>> /\ Head(bus) = t) \/ thread[t].at \notin Transfers

(* The place q continues the job of p, on the same card in a power cycle.  *)
Continues(t, p, q) ==
  /\ q.at \notin Begin \cup {"pause"}
  /\ t = "mgr" => q.job = p.job /\ (p.job \in Cycle => q.card = p.card)

Result(t, p) == \E q : OKPlace(q) /\ Moves(t, q) /\ Continues(t, p, q)

(* The bus without its owner holds the others, each once. *)
LEMMA ReleasedBus ==
  ASSUME PlaceInv, NEW t \in Threads, MayMove(t)
  PROVE  /\ Released(t) \in Seq(Threads)
         /\ \A i \in 1 .. Len(Released(t)) : Released(t)[i] # t
         /\ \A u \in Threads \ {t} :
              /\ (\E i \in 1 .. Len(Released(t)) : Released(t)[i] = u)
                   <=> thread[u].at \in Transfers
              /\ \A i, j \in 1 .. Len(Released(t)) :
                   Released(t)[i] = u /\ Released(t)[j] = u => i = j
<1>1. bus \in Seq(Threads) /\ BusDiscipline
  BY DEF PlaceInv
<1>2. CASE bus # <<>> /\ Head(bus) = t
  <2>1. Released(t) = Tail(bus)
    BY <1>2 DEF Released
  <2>2. /\ Tail(bus) \in Seq(Threads) /\ Len(Tail(bus)) = Len(bus) - 1
        /\ Len(bus) \in Nat /\ Len(bus) > 0 /\ bus[1] = t
        /\ \A i \in 1 .. Len(bus) - 1 : Tail(bus)[i] = bus[i + 1]
    BY <1>1, <1>2
  <2>3. \A i \in 1 .. Len(bus) - 1 : bus[i + 1] # t
    <3> SUFFICES ASSUME NEW i \in 1 .. Len(bus) - 1, bus[i + 1] = t PROVE FALSE
      OBVIOUS
    <3>1. 1 \in 1 .. Len(bus) /\ i + 1 \in 1 .. Len(bus)
      BY <2>2
    <3>2. 1 = i + 1
      BY <1>1, <2>2, <3>1 DEF BusDiscipline
    <3> QED  BY <3>2
  <2>4. ASSUME NEW u \in Threads \ {t}
        PROVE  (\E i \in 1 .. Len(bus) - 1 : bus[i + 1] = u) <=> thread[u].at \in Transfers
    <3>1. (\E i \in 1 .. Len(bus) : bus[i] = u) <=> thread[u].at \in Transfers
      BY <1>1 DEF BusDiscipline
    <3>2. ASSUME NEW i \in 1 .. Len(bus), bus[i] = u
          PROVE  \E k \in 1 .. Len(bus) - 1 : bus[k + 1] = u
      <4>1. i # 1
        BY <2>2, <2>4, <3>2
      <4>2. i - 1 \in 1 .. Len(bus) - 1 /\ bus[(i - 1) + 1] = u
        BY <2>2, <3>2, <4>1
      <4> QED  BY <4>2
    <3>3. ASSUME NEW k \in 1 .. Len(bus) - 1, bus[k + 1] = u
          PROVE  \E i \in 1 .. Len(bus) : bus[i] = u
      <4>1. k + 1 \in 1 .. Len(bus)
        BY <2>2
      <4> QED  BY <3>3, <4>1
    <3> QED  BY <3>1, <3>2, <3>3
  <2>5. ASSUME NEW u \in Threads \ {t}, NEW i \in 1 .. Len(bus) - 1,
               NEW j \in 1 .. Len(bus) - 1, bus[i + 1] = u, bus[j + 1] = u
        PROVE  i = j
    <3>1. i + 1 \in 1 .. Len(bus) /\ j + 1 \in 1 .. Len(bus)
      BY <2>2
    <3>2. i + 1 = j + 1
      BY <1>1, <2>5, <3>1 DEF BusDiscipline
    <3> QED  BY <3>2
  <2> QED  BY <2>1, <2>2, <2>3, <2>4, <2>5
<1>3. CASE ~ (bus # <<>> /\ Head(bus) = t)
  <2>1. Released(t) = bus
    BY <1>3 DEF Released
  <2>2. thread[t].at \notin Transfers
    BY <1>3 DEF MayMove
  <2> QED  BY <1>1, <2>1, <2>2 DEF BusDiscipline
<1> QED  BY <1>2, <1>3

(* A move to a good place keeps the threads and the bus in order. *)
LEMMA MoveKeepsPlaces ==
  ASSUME PlaceInv, NEW t \in Threads, MayMove(t), NEW q, OKPlace(q), Moves(t, q)
  PROVE  PlaceInv'
<1> DEFINE r == Released(t)
<1>1. /\ r \in Seq(Threads)
      /\ \A i \in 1 .. Len(r) : r[i] # t
      /\ \A u \in Threads \ {t} :
           /\ (\E i \in 1 .. Len(r) : r[i] = u) <=> thread[u].at \in Transfers
           /\ \A i, j \in 1 .. Len(r) : r[i] = u /\ r[j] = u => i = j
  BY ReleasedBus
<1>2. bus' = IF q.at \in Transfers THEN Append(r, t) ELSE r
  BY DEF Moves
<1> HIDE DEF r
<1>3. thread' \in [Threads -> PlaceType] /\ thread'[t] = q
      /\ \A u \in Threads \ {t} : thread'[u] = thread[u]
  BY DEF Moves, PlaceInv, OKPlace
<1>4. \A u \in Threads : OKPlace(thread'[u])
  BY <1>3 DEF PlaceInv
<1>5. bus' \in Seq(Threads)
  BY <1>1, <1>2
<1>6. BusDiscipline'
  <2>1. CASE q.at \notin Transfers
    BY <1>1, <1>2, <1>3, <2>1 DEF BusDiscipline
  <2>2. CASE q.at \in Transfers
    <3>1. /\ bus' = Append(r, t) /\ Len(r) \in Nat /\ Len(bus') = Len(r) + 1
          /\ bus'[Len(r) + 1] = t
          /\ \A i \in 1 .. Len(r) : bus'[i] = r[i]
      BY <1>1, <1>2, <2>2
    <3>2. \A i \in 1 .. Len(bus') : i \in 1 .. Len(r) \/ i = Len(r) + 1
      BY <3>1
    <3>3. Len(r) + 1 \in 1 .. Len(bus') /\ \A i \in 1 .. Len(r) : i \in 1 .. Len(bus')
      BY <3>1
    <3>4. ASSUME NEW u \in Threads, u # t
          PROVE  /\ (\E i \in 1 .. Len(bus') : bus'[i] = u) <=> thread'[u].at \in Transfers
                 /\ \A i, j \in 1 .. Len(bus') : bus'[i] = u /\ bus'[j] = u => i = j
      BY <1>1, <1>3, <3>1, <3>2, <3>3, <3>4
    <3>5. /\ (\E i \in 1 .. Len(bus') : bus'[i] = t) <=> thread'[t].at \in Transfers
          /\ \A i, j \in 1 .. Len(bus') : bus'[i] = t /\ bus'[j] = t => i = j
      BY <1>1, <1>3, <2>2, <3>1, <3>2, <3>3
    <3> QED  BY <3>4, <3>5 DEF BusDiscipline
  <2> QED  BY <2>1, <2>2
<1> QED  BY <1>3, <1>4, <1>5, <1>6 DEF PlaceInv

(* ... and so does no move. *)
LEMMA StayKeepsPlaces == ASSUME PlaceInv, UNCHANGED place PROVE PlaceInv'
BY DEF PlaceInv, place, BusDiscipline

----------------------------------------------------------------------------
(* What the functions of opd.c do to the thread that runs them. *)

(* Waiting for the bus. *)
LEMMA AcquireResult ==
  ASSUME NEW t \in Threads, NEW p \in PlaceType, NEW x \in Transfers, NEW c \in Cards,
         Acquire(t, p, x, c), x = "read" => p.left > 0,
         p.job \in Cycle => x = "pin" /\ c = p.card
  PROVE  Result(t, p)
<1> DEFINE q == [p EXCEPT !.at = x, !.card = c]
<1>1. c \in Nodes /\ x \in Steps
  BY CardsAreNaturals DEF Steps
<1>2. q \in PlaceType /\ q.at = x /\ q.card = c /\ q.job = p.job /\ q.left = p.left
  BY <1>1 DEF PlaceType
<1>3. x \notin {"nap", "woken", "pause"} \cup Begin
  BY DEF Transfers, Begin
<1>4. Moves(t, q)
  BY <1>2 DEF Moves, Acquire, Set
<1> HIDE DEF q
<1>5. OKPlace(q)
  BY <1>2, <1>3 DEF OKPlace
<1>6. Continues(t, p, q)
  BY <1>2, <1>3 DEF Continues
<1> QED  BY <1>4, <1>5, <1>6 DEF Result

(* Leaving the functions. *)
LEMMA LeaveResult ==
  ASSUME NEW t \in Threads, NEW p \in PlaceType, Leave(t, p)
  PROVE  Result(t, p)
<1> DEFINE q == IF t = "mgr" THEN [p EXCEPT !.at = "ret", !.arg = FALSE] ELSE Idle
<1>1. Idle \in PlaceType /\ Idle.at = "idle" /\ Idle.job = "none"
  BY CardsAreNaturals DEF Idle, Place, PlaceType, Jobs, Steps
<1>2. q \in PlaceType /\ q.at \in {"ret", "idle"}
  BY <1>1 DEF PlaceType, Steps
<1>3. q.job \in Cycle => q.at = "ret"
  BY <1>1 DEF PlaceType, Cycle
<1>4. t = "mgr" => q.job = p.job /\ q.card = p.card
  BY DEF PlaceType
<1>5. thread' = [thread EXCEPT ![t] = q] /\ bus' = Released(t)
  BY DEF Leave, Set
<1> HIDE DEF q
<1>6. q.at \notin Transfers \cup Begin \cup {"pause", "nap", "read", "woken"}
  BY <1>2 DEF Transfers, Begin
<1>7. OKPlace(q)
  BY <1>2, <1>3, <1>6 DEF OKPlace
<1>8. Moves(t, q) /\ Continues(t, p, q)
  BY <1>4, <1>5, <1>6 DEF Moves, Continues
<1> QED  BY <1>7, <1>8 DEF Result

(* The assertion of max7310.c before a wait for the bus. *)
LEMMA AssertResult ==
  ASSUME NEW t \in Threads, NEW p \in PlaceType, NEW x \in Transfers, NEW c \in Cards,
         Assert(t, p, x, c), x = "read" => p.left > 0,
         p.job \in Cycle => x = "pin" /\ c = p.card
  PROVE  (Result(t, p) \/ UNCHANGED place) /\ (halted' = halted \/ halted' = TRUE)
<1>1. CASE dev[c] = "ready"
  BY <1>1, AcquireResult DEF Assert
<1>2. CASE dev[c] # "ready"
  BY <1>2 DEF Assert, place
<1> QED  BY <1>1, <1>2

(* The next probe of opd_scan, which is not made in a power cycle. *)
LEMMA NextProbeResult ==
  ASSUME NEW t \in Threads, NEW p \in PlaceType, p = thread[t], p.job \notin Cycle,
         NextProbe(t)
  PROVE  Result(t, p)
<1>1. CASE Behind(p.card) = {}
  <2>1. Leave(t, p)
    BY <1>1 DEF NextProbe, Leave, Set
  <2> QED  BY <2>1, LeaveResult
<1>2. CASE Behind(p.card) # {}
  <2>1. First(Behind(p.card)) \in Cards
    BY <1>2, FirstIsLeast, CardsAreNaturals DEF Behind
  <2>2. PICK c \in Cards : c = First(Behind(p.card))
    BY <2>1
  <2>3. Acquire(t, p, "probe", c)
    BY <1>2, <2>2 DEF NextProbe, Acquire, Set
  <2>4. "probe" \in Transfers
    BY DEF Transfers
  <2> QED  BY <2>3, <2>4, AcquireResult
<1> QED  BY <1>1, <1>2

(* The way of opd_stop through the devices: those that become invalid have *)
(* no ready driver, and the chips are left as they are or powered off.     *)
LEMMA StopFromResult ==
  ASSUME NEW t \in Threads, NEW p \in PlaceType, p.job \notin Cycle,
         NEW todo \in SUBSET Cards,
         NEW ch \in [Cards -> {"input", "low", "high"}],
         NEW dv \in [Cards -> {"stop", "ready"}],
         valid \in [Cards -> BOOLEAN], StopFrom(t, p, todo, ch, dv)
  PROVE  /\ Result(t, p) \/ UNCHANGED place
         /\ valid' \in [Cards -> BOOLEAN]
         /\ \A c \in Cards : valid'[c] => valid[c]
         /\ \A c \in todo : valid'[c] => \E d \in todo : dv[d] = "ready" /\ d <= c
         /\ \A c \in Cards : dv[c] = "ready" /\ valid[c] => valid'[c]
         /\ chip' = ch \/ chip' = [c \in Cards |-> "input"]
         /\ line' \in {line, FALSE} /\ halted' \in {halted, TRUE}
<1> DEFINE ready == {c \in todo : dv[c] = "ready"}
<1>0. Cards \subseteq Nat
  BY CardsAreNaturals
<1>1. CASE ready # {}
  <2>1. First(ready) \in ready /\ \A d \in ready : First(ready) <= d
    BY <1>0, <1>1, FirstIsLeast
  <2>2. Acquire(t, p, "off", First(ready))
    BY <1>1 DEF StopFrom
  <2>3. "off" \in Transfers
    BY DEF Transfers
  <2>4. Result(t, p)
    BY <2>1, <2>2, <2>3, AcquireResult
  <2>5. valid' = [c \in Cards |-> valid[c] /\ (c \notin todo \/ c >= First(ready))]
    BY <1>1 DEF StopFrom
  <2>6. chip' = ch /\ line' = line /\ halted' = halted
    BY <1>1 DEF StopFrom
  <2>7. \A c \in Cards : valid'[c] <=> valid[c] /\ (c \notin todo \/ c >= First(ready))
    BY <2>5
  <2>8. ASSUME NEW c \in Cards, dv[c] = "ready", valid[c] PROVE valid'[c]
    <3>1. c \in todo => c >= First(ready)
      BY <1>0, <2>1, <2>8
    <3> QED  BY <2>7, <2>8, <3>1
  <2>9. ASSUME NEW c \in todo, valid'[c]
        PROVE  \E d \in todo : dv[d] = "ready" /\ d <= c
    BY <1>0, <2>1, <2>7, <2>9
  <2> QED  BY <2>4, <2>5, <2>6, <2>7, <2>8, <2>9
<1>2. CASE ready = {}
  <2>1. valid' = [c \in Cards |-> valid[c] /\ c \notin todo]
    BY <1>2 DEF StopFrom
  <2>2. \A c \in Cards : valid'[c] <=> valid[c] /\ c \notin todo
    BY <2>1
  <2>3. \A c \in Cards : dv[c] = "ready" => c \notin todo
    BY <1>2
  <2>4. \/ /\ Leave(t, p) /\ line' = FALSE /\ halted' = halted
           /\ chip' = [c \in Cards |-> "input"]
        \/ UNCHANGED place /\ line' = line /\ halted' = TRUE /\ chip' = ch
    BY <1>2 DEF StopFrom, place
  <2>5. Leave(t, p) => Result(t, p)
    BY LeaveResult
  <2> QED  BY <2>1, <2>2, <2>3, <2>4, <2>5
<1> QED  BY <1>1, <1>2

(* opd_enable for a job j. *)
LEMMA OpdEnableResult ==
  ASSUME NEW t \in Threads, NEW c \in Cards, NEW j \in Jobs, NEW b \in BOOLEAN,
         OpdEnable(t, c, j, b)
  PROVE  /\ Result(t, Place(j, "ret", c, b, 0)) \/ UNCHANGED place
         /\ halted' \in {halted, TRUE}
<1> DEFINE p == Place(j, "ret", c, b, 0)
<1>1. p \in PlaceType /\ p.card = c /\ p.left = 0
  BY CardsAreNaturals DEF Place, PlaceType, Steps
<1>2. "pin" \in Transfers /\ "pin" # "read"
  BY DEF Transfers
<1> HIDE DEF p
<1>3. CASE valid[c]
  <2>1. Assert(t, p, "pin", c)
    BY <1>3 DEF OpdEnable, p
  <2>2. (Result(t, p) \/ UNCHANGED place) /\ (halted' = halted \/ halted' = TRUE)
    BY <1>1, <1>2, <2>1, AssertResult
  <2> QED  BY <2>2 DEF p
<1>4. CASE ~ valid[c]
  <2>1. Leave(t, p) /\ halted' = halted
    BY <1>4 DEF OpdEnable, p
  <2>2. Result(t, p)
    BY <1>1, <2>1, LeaveResult
  <2> QED  BY <2>1, <2>2 DEF p
<1> QED  BY <1>3, <1>4

(* node_enable for a job j: the flag is set, whatever happens to the pin.  *)
LEMMA NodeEnableResult ==
  ASSUME NEW t \in Threads, NEW n \in Nodes, NEW j \in Jobs, NEW b \in BOOLEAN,
         TableType, NodeEnable(t, n, j, b)
  PROVE  /\ Result(t, Place(j, "ret", n, b, 0)) \/ UNCHANGED place
         /\ enable' \in [Nodes -> BOOLEAN] /\ halted' \in {halted, TRUE}
<1>1. enable' \in [Nodes -> BOOLEAN]
  BY DEF NodeEnable, Set, TableType
<1>2. CASE n \in Cards
  <2>1. OpdEnable(t, n, j, b)
    BY <1>2 DEF NodeEnable
  <2> QED  BY <1>1, <1>2, <2>1, OpdEnableResult
<1>3. CASE n \notin Cards
  <2>1. Leave(t, Place(j, "ret", n, b, 0)) /\ halted' = halted
    BY <1>3 DEF NodeEnable
  <2>2. Place(j, "ret", n, b, 0) \in PlaceType
    BY DEF Place, PlaceType, Steps
  <2> QED  BY <1>1, <2>1, <2>2, LeaveResult
<1> QED  BY <1>2, <1>3

----------------------------------------------------------------------------
(* The parts of the invariant a step leaves alone. *)

(* The bus and the threads are in order after any result. *)
LEMMA ResultKeepsPlaces ==
  ASSUME PlaceInv, NEW t \in Threads, MayMove(t), NEW p, Result(t, p) \/ UNCHANGED place
  PROVE  PlaceInv'
BY MoveKeepsPlaces, StayKeepsPlaces DEF Result

(* An assertion is the end of it: only a reset lets the computer run again.*)
LEMMA HaltedStays == ASSUME halted' \in {halted, TRUE} PROVE ~ halted' => ~ halted
OBVIOUS

(* The counts do not notice a step that continues the manager's job. *)
LEMMA ResultKeepsCount ==
  ASSUME PlaceInv, CountInv, UNCHANGED <<attempts, cycled, state>>, ~ halted' => ~ halted,
         NEW t \in Threads, NEW p, Result(t, p) \/ UNCHANGED place,
         t = "mgr" => p.job = mgr.job /\ p.card = mgr.card /\ mgr.at # "pause"
  PROVE  CountInv'
<1>0. "mgr" \in Threads
  BY DEF Threads
<1>1. CASE mgr' = mgr
  <2>1. \A n \in Nodes : InCycle(n)' <=> InCycle(n)
    BY <1>1 DEF InCycle
  <2> QED  BY <1>1, <2>1 DEF CountInv, CyclesBounded
<1>2. CASE mgr' # mgr
  <2>1. PICK q : Moves(t, q) /\ Continues(t, p, q)
    BY <1>2 DEF Result, place, mgr
  <2>2. t = "mgr" /\ mgr' = q
    BY <1>0, <1>2, <2>1 DEF Moves, PlaceInv, mgr
  <2>3. /\ mgr'.at \notin Begin \cup {"pause"} /\ mgr'.job = mgr.job /\ mgr.at # "pause"
        /\ mgr.job \in Cycle => mgr'.card = mgr.card
    BY <2>1, <2>2 DEF Continues
  <2>4. \A n \in Nodes : InCycle(n)' <=> InCycle(n)
    BY <2>3 DEF InCycle
  <2> QED  BY <2>3, <2>4 DEF CountInv, CyclesBounded
<1> QED  BY <1>1, <1>2

(* AssertWindow loses no witness but a thread that starts its device. *)
LEMMA WindowKept ==
  ASSUME PlaceInv, AssertWindow, NEW t \in Threads, thread[t].at # "start",
         (\E q : Moves(t, q)) \/ UNCHANGED place,
         \A c \in Cards : valid'[c] /\ dev'[c] = "stop" =>
           \/ valid[c] /\ dev[c] = "stop"
           \/ thread'[t].at = "start" /\ thread'[t].card = c
  PROVE  AssertWindow'
<1>1. \A u \in Threads \ {t} : thread'[u] = thread[u]
  BY DEF Moves, PlaceInv, place
<1> QED  BY <1>1 DEF AssertWindow

(* The invariant of the power domain holds if none of it changes. *)
LEMMA QuietPower ==
  ASSUME PlaceInv, PowerType, PowerInv, UNCHANGED power,
         NEW t \in Threads, thread[t].at # "start", (\E q : Moves(t, q)) \/ UNCHANGED place
  PROVE  PowerType' /\ PowerInv'
<1>1. UNCHANGED <<line, chip, dev, valid, byNode, missed>>
  BY DEF power
<1>2. AssertWindow'
  BY <1>1, WindowKept DEF PowerInv
<1> QED  BY <1>1, <1>2 DEF PowerType, PowerInv

(* After a transfer or a sleep, all but the power domain is in order. *)
LEMMA TransferRest ==
  ASSUME IInv, NEW t \in Threads, MayMove(t), thread[t].at # "pause",
         NEW p, p.job = thread[t].job, p.card = thread[t].card,
         Result(t, p) \/ UNCHANGED place,
         UNCHANGED <<known, enable, attempts, state, cycled, events, term>>,
         halted' \in {halted, TRUE}
  PROVE  TableType' /\ EventType' /\ PlaceInv' /\ CountInv'
<1>1. UNCHANGED <<known, enable, attempts, state, cycled, heard, pending, flags, term>>
  BY DEF events
<1>2. TableType' /\ EventType'
  BY <1>1 DEF IInv, TableType, EventType
<1>3. PlaceInv'
  BY ResultKeepsPlaces DEF IInv
<1>4. CountInv'
  <2>1. ~ halted' => ~ halted
    BY HaltedStays
  <2> QED  BY <1>1, <2>1, ResultKeepsCount DEF IInv, mgr
<1> QED  BY <1>2, <1>3, <1>4

(* The place of a thread at a transfer. *)
LEMMA TransferPlace ==
  ASSUME IInv, NEW t \in Threads, NEW x \in Transfers, At(t, x)
  PROVE  /\ thread[t] \in PlaceType /\ thread[t].card \in Cards /\ MayMove(t)
         /\ thread[t].at = x /\ x \notin {"ret", "pause"}
         /\ x # "pin" => thread[t].job \notin Cycle
<1>1. OKPlace(thread[t]) /\ thread[t].at = x
  BY DEF IInv, PlaceInv, At
<1>2. x \notin {"ret", "pause"}
  BY DEF Transfers
<1> QED  BY <1>1, <1>2 DEF OKPlace, MayMove, At, Owns

----------------------------------------------------------------------------
(* The transfers. *)

(* A probe starts, stops or passes a device, or finds it gone. *)
LEMMA ProbeIInv == ASSUME IInv, NEW t \in Threads, Probe(t) PROVE IInv'
<1>1. PICK p : p = thread[t]
  OBVIOUS
<1>2. PICK c : c = p.card
  OBVIOUS
<1>3. At(t, "probe") /\ "probe" \in Transfers
  BY DEF Probe, Transfers
<1>4. /\ p \in PlaceType /\ c \in Cards /\ MayMove(t) /\ p.at = "probe"
      /\ p.job \notin Cycle
  BY <1>1, <1>2, <1>3, TransferPlace
<1>5. {"stop", "start", "fail"} \subseteq Transfers
  BY DEF Transfers
<1>6. /\ Result(t, p)
      /\ valid' = valid \/ (valid' = [valid EXCEPT ![c] = FALSE] /\ dev[c] # "ready")
  <2>1. CASE NextProbe(t) /\ UNCHANGED valid
    BY <1>1, <1>4, <2>1, NextProbeResult
  <2>2. CASE \E x \in {"stop", "start", "fail"} : Acquire(t, p, x, c) /\ UNCHANGED valid
    BY <1>4, <1>5, <2>2, AcquireResult
  <2>3. CASE NextProbe(t) /\ Invalidate(c) /\ ~ NeedsStop(c)
    BY <1>1, <1>4, <2>3, NextProbeResult DEF Invalidate, Set, NeedsStop
  <2>4. \/ UNCHANGED valid /\ (NextProbe(t) \/ \E x \in {"stop", "start", "fail"} :
                                                  Acquire(t, p, x, c))
        \/ NextProbe(t) /\ Invalidate(c) /\ ~ NeedsStop(c)
    BY <1>1, <1>2 DEF Probe, Acquire, Set
  <2> QED  BY <2>1, <2>2, <2>3, <2>4
<1>7. UNCHANGED <<line, chip, dev, byNode, missed, table, events, term, halted>>
  BY DEF Probe
<1>8. TableType' /\ EventType' /\ PlaceInv' /\ CountInv'
  BY <1>1, <1>4, <1>6, <1>7, TransferRest DEF table
<1>9. PowerType'
  BY <1>4, <1>6, <1>7 DEF IInv, PowerType
<1>10. \A d \in Cards : valid'[d] => valid[d]
  BY <1>4, <1>6 DEF IInv, PowerType
<1>11. \A d \in Cards : dev[d] = "ready" /\ valid[d] => valid'[d]
  BY <1>4, <1>6 DEF IInv, PowerType
<1>12. AssertWindow'
  BY <1>1, <1>4, <1>6, <1>7, <1>10, WindowKept DEF IInv, PowerInv, Result
<1> QED
  BY <1>7, <1>8, <1>9, <1>11, <1>12 DEF IInv, PowerInv

(* The values a chip may have after a write: none of a pin makes an input  *)
(* drive.                                                                  *)
LEMMA WrittenType ==
  ASSUME PowerType, NEW c \in Cards
  PROVE  /\ \A y \in Stopped(c) \cup Started(c) \cup Garbled(c) :
              y \in {"input", "low", "high"}
         /\ \A y \in Garbled(c) : chip[c] = "input" => y = "input"
         /\ \A x \in {"low", "high"} : \A y \in Written(c, x) :
              y \in {"input", "low", "high"} /\ (chip[c] = "input" => y = "input")
<1>1. chip[c] \in {"input", "low", "high"} /\ line \in BOOLEAN
  BY DEF PowerType
<1>2. \A y \in Stopped(c) : y \in {"input", "low", "high"}
  BY <1>1 DEF Stopped
<1>3. \A y \in Started(c) : y \in {"input", "low", "high"}
  BY <1>1 DEF Started
<1>4. \A y \in Garbled(c) : y \in {"input", "low",
       "high"} /\ (chip[c] = "input" => y = "input")
  BY <1>1 DEF Garbled
<1>5. \A x \in {"low", "high"} : \A y \in Written(c, x) :
        y \in {"input", "low", "high"} /\ (chip[c] = "input" => y = "input")
  BY <1>1 DEF Written
<1> QED  BY <1>2, <1>3, <1>4, <1>5

(* A chip driven to x. *)
LEMMA DriveType ==
  ASSUME PowerType, NEW c \in Cards, NEW x \in {"input", "low", "high"}, Drive(c, x)
  PROVE  /\ chip' = [chip EXCEPT ![c] = x] /\ chip' \in [Cards -> {"input", "low", "high"}]
         /\ byNode' \in [Cards -> BOOLEAN]
<1>1. PICK b \in BOOLEAN : b = (byNode[c] /\ x = chip[c])
  OBVIOUS
<1>2. byNode' = [byNode EXCEPT ![c] = b] /\ chip' = [chip EXCEPT ![c] = x]
  BY <1>1 DEF Drive, Set
<1> QED  BY <1>2 DEF PowerType

(* max7310Stop leaves the device to the start that follows, or invalid. *)
LEMMA StopIInv == ASSUME IInv, NEW t \in Threads, Stop(t) PROVE IInv'
<1>1. PICK p : p = thread[t]
  OBVIOUS
<1>2. PICK c : c = p.card
  OBVIOUS
<1>3. (At(t, "stop") \/ At(t, "fail")) /\ {"stop", "fail", "start"} \subseteq Transfers
  BY DEF Stop, Transfers
<1>4. /\ p \in PlaceType /\ c \in Cards /\ MayMove(t) /\ p.at \in {"stop", "fail"}
      /\ p.job \notin Cycle
  BY <1>1, <1>2, <1>3, TransferPlace
<1>5. PICK x \in Stopped(c) : Drive(c, x) /\ missed' = [missed EXCEPT ![c] = x # "input"]
  BY <1>1, <1>2 DEF Stop, Set, Drive
<1>6. /\ x \in {"input", "low", "high"} /\ chip' = [chip EXCEPT ![c] = x]
      /\ byNode' \in [Cards -> BOOLEAN]
  BY <1>4, <1>5, WrittenType, DriveType DEF IInv
<1>7. dev' = [dev EXCEPT ![c] = "stop"]
  BY <1>1, <1>2 DEF Stop, Set
<1>8. /\ Result(t, p)
      /\ \/ valid' = valid /\ thread'[t].at = "start" /\ thread'[t].card = c
         \/ valid' = [valid EXCEPT ![c] = FALSE]
  <2>1. CASE p.at = "stop"
    <3>1. Acquire(t, p, "start", c) /\ UNCHANGED valid
      BY <1>1, <1>2, <2>1 DEF Stop, Acquire, Set
    <3>2. thread'[t].at = "start" /\ thread'[t].card = c
      BY <1>1, <1>4, <3>1 DEF Acquire, Set, IInv, PlaceInv, PlaceType
    <3> QED  BY <1>3, <1>4, <3>1, <3>2, AcquireResult
  <2>2. CASE p.at # "stop"
    <3>1. NextProbe(t) /\ Invalidate(c)
      BY <1>1, <1>2, <2>2 DEF Stop
    <3> QED  BY <1>1, <1>4, <3>1, NextProbeResult DEF Invalidate, Set
  <2> QED  BY <2>1, <2>2
<1>9. UNCHANGED <<line, table, events, term, halted>>
  BY DEF Stop
<1>10. TableType' /\ EventType' /\ PlaceInv' /\ CountInv'
  BY <1>1, <1>4, <1>8, <1>9, TransferRest DEF table
<1>11. PowerType'
  BY <1>4, <1>5, <1>6, <1>7, <1>8, <1>9 DEF IInv, PowerType
<1>12. /\ \A d \in Cards \ {c} : chip'[d] = chip[d] /\ dev'[d] = dev[d]
                                 /\ missed'[d] = missed[d] /\ valid'[d] = valid[d]
       /\ chip'[c] = x /\ dev'[c] = "stop" /\ missed'[c] = (x # "input")
  BY <1>4, <1>5, <1>6, <1>7, <1>8 DEF IInv, PowerType
<1>13. AssertWindow'
  <2>1. ~ valid'[c] \/ (thread'[t].at = "start" /\ thread'[t].card = c)
    BY <1>4, <1>8 DEF IInv, PowerType
  <2>2. \A d \in Cards : valid'[d] /\ dev'[d] = "stop" =>
          \/ valid[d] /\ dev[d] = "stop"
          \/ thread'[t].at = "start" /\ thread'[t].card = d
    BY <1>12, <2>1
  <2> QED
    BY <1>1, <1>4, <1>8, <2>2, WindowKept DEF IInv, PowerInv, Result
<1>14. \A d \in Cards : dev'[d] = "ready" => valid'[d]
  BY <1>12 DEF IInv, PowerInv
<1>15. \A d \in Cards : chip'[d] # "input" => dev'[d] = "ready" \/ missed'[d]
  BY <1>12 DEF IInv, PowerInv
<1> QED  BY <1>10, <1>11, <1>13, <1>14, <1>15 DEF IInv, PowerInv

(* The drivers dv and chips ch are in order but for a stopped device that  *)
(* is to become invalid, ahead of the ready ones among todo.               *)
StopBegun(todo, ch, dv) ==
  /\ \A c \in Cards : dv[c] = "ready" => dev[c] = "ready"
  /\ \A c \in Cards : ch[c] # "input" => dv[c] = "ready" \/ missed'[c]
  /\ \A c \in Cards : dv[c] = "stop" /\ dev[c] = "ready" =>
       c \in todo /\ \A d \in todo : dv[d] = "ready" => c < d

(* Then the way of opd_stop through the devices keeps the power domain in  *)
(* order.                                                                  *)
LEMMA StopFromPower ==
  ASSUME IInv, NEW t \in Threads, thread[t].at # "start",
         NEW p \in PlaceType, p.job \notin Cycle, NEW todo \in SUBSET Cards,
         NEW ch \in [Cards -> {"input", "low", "high"}],
         NEW dv \in [Cards -> {"stop", "ready"}],
         StopFrom(t, p, todo, ch, dv), dev' = dv, byNode' \in [Cards -> BOOLEAN],
         missed' \in [Cards -> BOOLEAN], StopBegun(todo, ch, dv)
  PROVE  PowerType' /\ PowerInv' /\ (Result(t, p) \/ UNCHANGED place)
         /\ halted' \in {halted, TRUE}
<1>0. valid \in [Cards -> BOOLEAN]
  BY DEF IInv, PowerType
<1>1. /\ Result(t, p) \/ UNCHANGED place
      /\ valid' \in [Cards -> BOOLEAN]
      /\ \A c \in Cards : valid'[c] => valid[c]
      /\ \A c \in todo : valid'[c] => \E d \in todo : dv[d] = "ready" /\ d <= c
      /\ \A c \in Cards : dv[c] = "ready" /\ valid[c] => valid'[c]
      /\ chip' = ch \/ chip' = [c \in Cards |-> "input"]
      /\ line' \in {line, FALSE} /\ halted' \in {halted, TRUE}
  BY <1>0, StopFromResult
<1>2. PowerType'
  BY <1>1 DEF IInv, PowerType
<1>3. \A c \in Cards : dev'[c] = "ready" => valid'[c]
  BY <1>1 DEF IInv, PowerInv, StopBegun
<1>4. \A c \in Cards : chip'[c] # "input" => dev'[c] = "ready" \/ missed'[c]
  BY <1>1 DEF StopBegun
<1>5. AssertWindow'
  <2>1. ASSUME NEW c \in Cards, valid'[c], dev'[c] = "stop"
        PROVE  valid[c] /\ dev[c] = "stop"
    <3>1. valid[c]
      BY <1>1, <2>1
    <3>2. SUFFICES ASSUME dev[c] # "stop" PROVE FALSE
      BY <3>1
    <3>3. dev[c] = "ready"
      BY <3>2 DEF IInv, PowerType
    <3>4. c \in todo /\ \A d \in todo : dv[d] = "ready" => c < d
      BY <2>1, <3>3 DEF StopBegun
    <3>5. PICK d \in todo : dv[d] = "ready" /\ d <= c
      BY <1>1, <2>1, <3>4
    <3>6. c \in Nat /\ d \in Nat
      BY CardsAreNaturals
    <3> QED  BY <3>4, <3>5, <3>6
  <2> QED  BY <1>1, <2>1, WindowKept DEF IInv, PowerInv, Result
<1> QED  BY <1>1, <1>2, <1>3, <1>4, <1>5 DEF PowerInv

(* The stop of one device on the way of opd_stop. *)
LEMMA StopOffIInv == ASSUME IInv, NEW t \in Threads, StopOff(t) PROVE IInv'
<1>1. PICK p : p = thread[t]
  OBVIOUS
<1>2. PICK c : c = p.card
  OBVIOUS
<1>3. At(t, "off") /\ "off" \in Transfers
  BY DEF StopOff, Transfers
<1>4. p \in PlaceType /\ c \in Cards /\ MayMove(t) /\ p.at = "off" /\ p.job \notin Cycle
  BY <1>1, <1>2, <1>3, TransferPlace
<1>5. PICK x \in Stopped(c) :
        /\ missed' = [missed EXCEPT ![c] = x # "input"]
        /\ byNode' = [byNode EXCEPT ![c] = byNode[c] /\ x = chip[c]]
        /\ StopFrom(t, thread[t], {c} \cup Behind(c), [chip EXCEPT ![c] = x], dev')
  BY <1>1, <1>2 DEF StopOff, Set
<1>6. x \in {"input", "low", "high"}
  BY <1>4, WrittenType DEF IInv
<1>7. PICK dv : dv = [dev EXCEPT ![c] = "stop"]
  OBVIOUS
<1>8. PICK ch : ch = [chip EXCEPT ![c] = x]
  OBVIOUS
<1>9. PICK todo : todo = {c} \cup Behind(c)
  OBVIOUS
<1>10. dev' = dv
  BY <1>1, <1>2, <1>7 DEF StopOff, Set
<1>11. StopFrom(t, p, todo, ch, dv)
  BY <1>1, <1>5, <1>8, <1>9, <1>10 DEF StopFrom, Acquire, Leave, Set
<1>12. /\ todo \in SUBSET Cards /\ c \in todo
       /\ \A d \in todo : d = c \/ (d > c /\ d # c)
  BY <1>4, <1>9, CardsAreNaturals DEF Behind
<1>13. /\ ch \in [Cards -> {"input", "low", "high"}] /\ dv \in [Cards -> {"stop", "ready"}]
       /\ dv[c] = "stop" /\ ch[c] = x
       /\ \A d \in Cards \ {c} : dv[d] = dev[d] /\ ch[d] = chip[d]
  BY <1>4, <1>6, <1>7, <1>8 DEF IInv, PowerType
<1>14. /\ missed' \in [Cards -> BOOLEAN] /\ missed'[c] = (x # "input")
       /\ \A d \in Cards \ {c} : missed'[d] = missed[d]
  BY <1>4, <1>5 DEF IInv, PowerType
<1>15. UNCHANGED <<table, events, term>>
  BY DEF StopOff
<1>16. \A d \in Cards : dv[d] = "ready" => dev[d] = "ready"
  BY <1>13
<1>17. \A d \in Cards : ch[d] # "input" => dv[d] = "ready" \/ missed'[d]
  BY <1>13, <1>14 DEF IInv, PowerInv
<1>18. \A d \in Cards : dv[d] = "stop" /\ dev[d] = "ready" =>
         d \in todo /\ \A e \in todo : dv[e] = "ready" => d < e
  <2>1. SUFFICES ASSUME NEW d \in Cards, dv[d] = "stop", dev[d] = "ready"
                 PROVE  d \in todo /\ \A e \in todo : dv[e] = "ready" => d < e
    OBVIOUS
  <2>2. d = c
    BY <1>13, <2>1
  <2>3. ASSUME NEW e \in todo, dv[e] = "ready" PROVE c < e
    <3>1. e # c
      BY <1>13, <2>3
    <3> QED  BY <1>4, <1>12, <3>1, CardsAreNaturals
  <2> QED  BY <1>12, <2>2, <2>3
<1>19. PowerType' /\ PowerInv' /\ (Result(t, p) \/ UNCHANGED place)
       /\ halted' \in {halted, TRUE}
  <2>1. thread[t].at # "start" /\ p \in PlaceType /\ p.job \notin Cycle
    BY <1>1, <1>4
  <2>2. byNode' \in [Cards -> BOOLEAN]
    <3>1. PICK b \in BOOLEAN : b = (byNode[c] /\ x = chip[c])
      OBVIOUS
    <3>2. byNode' = [byNode EXCEPT ![c] = b]
      BY <1>5, <3>1
    <3> QED  BY <3>2 DEF IInv, PowerType
  <2>3. /\ todo \in SUBSET Cards /\ ch \in [Cards -> {"input", "low", "high"}]
        /\ dv \in [Cards -> {"stop", "ready"}] /\ missed' \in [Cards -> BOOLEAN]
    BY <1>12, <1>13, <1>14
  <2>4. StopBegun(todo, ch, dv)
    BY <1>16, <1>17, <1>18 DEF StopBegun
  <2> QED
    BY <1>10, <1>11, <2>1, <2>2, <2>3, <2>4, StopFromPower
<1>20. TableType' /\ EventType' /\ PlaceInv' /\ CountInv'
  BY <1>1, <1>4, <1>15, <1>19, TransferRest DEF table
<1> QED  BY <1>19, <1>20 DEF IInv

(* max7310Start makes the device ready and valid at once. *)
LEMMA StartIInv == ASSUME IInv, NEW t \in Threads, Start(t) PROVE IInv'
<1>1. PICK p : p = thread[t]
  OBVIOUS
<1>2. PICK c : c = p.card
  OBVIOUS
<1>3. At(t, "start") /\ "start" \in Transfers
  BY DEF Start, Transfers
<1>4. /\ p \in PlaceType /\ c \in Cards /\ MayMove(t) /\ p.at = "start"
      /\ p.job \notin Cycle
  BY <1>1, <1>2, <1>3, TransferPlace
<1>5. PICK x \in Started(c) : chip' = [chip EXCEPT ![c] = x]
  BY <1>1, <1>2 DEF Start, Set
<1>6. x \in {"input", "low", "high"}
  BY <1>4, WrittenType DEF IInv
<1>7. /\ dev' = [dev EXCEPT ![c] = "ready"] /\ valid' = [valid EXCEPT ![c] = TRUE]
      /\ byNode' = [byNode EXCEPT ![c] = FALSE] /\ missed' = [missed EXCEPT ![c] = FALSE]
  BY <1>1, <1>2 DEF Start, Set
<1>8. UNCHANGED <<line, table, events, term, halted>> /\ NextProbe(t)
  BY DEF Start
<1>9. Result(t, p)
  BY <1>1, <1>4, <1>8, NextProbeResult
<1>10. TableType' /\ EventType' /\ PlaceInv' /\ CountInv'
  BY <1>1, <1>4, <1>8, <1>9, TransferRest DEF table
<1>11. PowerType'
  BY <1>4, <1>5, <1>6, <1>7, <1>8 DEF IInv, PowerType
<1>12. /\ \A d \in Cards \ {c} : chip'[d] = chip[d] /\ dev'[d] = dev[d]
                                 /\ missed'[d] = missed[d] /\ valid'[d] = valid[d]
       /\ dev'[c] = "ready" /\ valid'[c]
  BY <1>4, <1>5, <1>7 DEF IInv, PowerType
<1>13. AssertWindow'
  <2>1. SUFFICES ASSUME NEW d \in Cards, valid'[d], dev'[d] = "stop"
                 PROVE  \E u \in Threads : thread'[u].at = "start" /\ thread'[u].card = d
    BY DEF AssertWindow
  <2>2. d # c /\ valid[d] /\ dev[d] = "stop"
    BY <1>12, <2>1
  <2>3. PICK u \in Threads : thread[u].at = "start" /\ thread[u].card = d
    BY <2>2 DEF IInv, PowerInv, AssertWindow
  <2>4. u # t
    BY <1>1, <1>2, <2>2, <2>3
  <2>5. thread'[u] = thread[u]
    BY <1>9, <2>4 DEF Result, Moves, IInv, PlaceInv
  <2> QED  BY <2>3, <2>5
<1>14. \A d \in Cards : dev'[d] = "ready" => valid'[d]
  BY <1>12 DEF IInv, PowerInv
<1>15. \A d \in Cards : chip'[d] # "input" => dev'[d] = "ready" \/ missed'[d]
  BY <1>12 DEF IInv, PowerInv
<1> QED  BY <1>10, <1>11, <1>13, <1>14, <1>15 DEF IInv, PowerInv

(* Writing a pin does not make an input drive. *)
LEMMA PinIInv == ASSUME IInv, NEW t \in Threads, Pin(t) PROVE IInv'
<1>1. PICK p : p = thread[t]
  OBVIOUS
<1>2. PICK c : c = p.card
  OBVIOUS
<1>3. At(t, "pin") /\ "pin" \in Transfers
  BY DEF Pin, Transfers
<1>4. p \in PlaceType /\ c \in Cards /\ MayMove(t) /\ p.at = "pin"
  BY <1>1, <1>2, <1>3, TransferPlace
<1>5. PICK new \in {"low", "high"} : new = IF p.arg THEN "high" ELSE "low"
  OBVIOUS
<1>6. PICK x \in Written(c, new) :
        /\ chip' = [chip EXCEPT ![c] = x]
        /\ \E b \in BOOLEAN : byNode' = [byNode EXCEPT ![c] = b]
  <2>1. PICK x \in Written(c, new) :
          /\ chip' = [chip EXCEPT ![c] = x]
          /\ byNode' = [byNode EXCEPT ![c] = p.job \in NodeJobs /\ x = new]
    BY <1>1, <1>2, <1>5 DEF Pin, Set
  <2>2. PICK b \in BOOLEAN : b = (p.job \in NodeJobs /\ x = new)
    OBVIOUS
  <2> QED  BY <2>1, <2>2
<1>7. /\ x \in {"input", "low", "high"} /\ (chip[c] = "input" => x = "input")
  BY <1>4, <1>5, WrittenType DEF IInv
<1>8. /\ UNCHANGED <<line, dev, valid, missed, known, enable, attempts, state, cycled>>
      /\ UNCHANGED <<events, term, halted>>
  BY DEF Pin
<1>9. Leave(t, p)
  BY <1>1 DEF Pin, Leave, Set
<1>10. Result(t, p)
  BY <1>4, <1>9, LeaveResult
<1>11. TableType' /\ EventType' /\ PlaceInv' /\ CountInv'
  BY <1>1, <1>4, <1>8, <1>10, TransferRest DEF table
<1>12. PowerType'
  BY <1>4, <1>6, <1>7, <1>8 DEF IInv, PowerType
<1>13. \A d \in Cards : chip'[d] # "input" => chip[d] # "input"
  BY <1>4, <1>6, <1>7 DEF IInv, PowerType
<1>14. AssertWindow'
  BY <1>1, <1>4, <1>8, <1>10, WindowKept DEF IInv, PowerInv, Result
<1> QED  BY <1>8, <1>11, <1>12, <1>13, <1>14 DEF IInv, PowerInv

(* The reads of opd_status change nothing but the place of the thread, and *)
(* the transfers of opd_reset at most the level of a pin that is driven.   *)
LEMMA ReadIInv == ASSUME IInv, NEW t \in Threads, Read(t) PROVE IInv'
<1>1. At(t, "read") /\ "read" \in Transfers /\ "read" \in Steps /\ "nap" \in Steps
      /\ "nap" \notin Transfers \cup Begin \cup {"pause", "read"}
  BY DEF Read, Transfers, Steps, Begin
<1>2. PICK p : p = [thread[t] EXCEPT !.left = @ - 1]
  OBVIOUS
<1>3. /\ thread[t] \in PlaceType /\ thread[t].card \in Cards /\ MayMove(t)
      /\ thread[t].at = "read" /\ thread[t].job \notin Cycle
  BY <1>1, TransferPlace
<1>4. thread[t].left \in Nat /\ thread[t].left > 0
  BY <1>3 DEF IInv, PlaceInv, OKPlace, PlaceType
<1>5. /\ p \in PlaceType /\ p.card = thread[t].card /\ p.job = thread[t].job
      /\ p.left = thread[t].left - 1
  BY <1>2, <1>3, <1>4 DEF PlaceType
<1>6. PICK c \in Cards : c = p.card
  BY <1>3, <1>5
<1>7. (Result(t, p) \/ UNCHANGED place) /\ halted' \in {halted, TRUE}
  <2>1. CASE p.left = 0
    <3>1. Leave(t, p) /\ UNCHANGED halted
      BY <1>2, <2>1 DEF Read, Leave, Set
    <3> QED  BY <1>5, <3>1, LeaveResult
  <2>2. CASE p.left # 0 /\ p.job = "status"
    <3>1. Assert(t, p, "read", c)
      BY <1>2, <1>6, <2>2 DEF Read, Assert, Acquire, Set
    <3>2. p.left > 0
      BY <1>4, <1>5, <2>2
    <3> QED  BY <1>1, <1>3, <1>5, <3>1, <3>2, AssertResult
  <2>3. CASE p.left # 0 /\ p.job # "status"
    <3>1. PICK q : q = [p EXCEPT !.at = "nap"]
      OBVIOUS
    <3>2. bus' = Released(t) /\ thread' = [thread EXCEPT ![t] = q] /\ UNCHANGED halted
      BY <1>2, <2>3, <3>1 DEF Read, Set
    <3>3. /\ q \in PlaceType /\ q.at = "nap" /\ q.card = p.card /\ q.left = p.left
          /\ q.job = p.job
      BY <1>1, <1>5, <3>1 DEF PlaceType
    <3>4. OKPlace(q)
      BY <1>3, <1>4, <1>5, <2>3, <3>3 DEF OKPlace
    <3>5. Moves(t, q) /\ Continues(t, p, q)
      BY <1>1, <3>2, <3>3 DEF Moves, Continues
    <3> QED  BY <3>2, <3>4, <3>5 DEF Result
  <2> QED  BY <2>1, <2>2, <2>3
<1>8. PICK x \in Garbled(c) \cup {chip[c]} : Drive(c, x)
  <2>1. PICK x \in IF p.job = "reset" THEN Garbled(c) ELSE {chip[c]} : Drive(c, x)
    BY <1>2, <1>6 DEF Read, Drive, Set
  <2> QED  BY <2>1
<1>9. x \in {"input", "low", "high"} /\ (chip[c] = "input" => x = "input")
  BY <1>8, WrittenType DEF IInv, PowerType
<1>10. /\ chip' = [chip EXCEPT ![c] = x] /\ chip' \in [Cards -> {"input", "low", "high"}]
       /\ byNode' \in [Cards -> BOOLEAN]
  BY <1>8, <1>9, DriveType DEF IInv
<1>11. UNCHANGED <<line, dev, valid, missed, table, events, term>>
  BY DEF Read
<1>12. TableType' /\ EventType' /\ PlaceInv' /\ CountInv'
  BY <1>1, <1>3, <1>5, <1>7, <1>11, TransferRest DEF table
<1>13. PowerType'
  BY <1>10, <1>11 DEF IInv, PowerType
<1>14. \A d \in Cards : chip'[d] # "input" => chip[d] # "input"
  BY <1>9, <1>10 DEF IInv, PowerType
<1>15. AssertWindow'
  BY <1>3, <1>7, <1>11, WindowKept DEF IInv, PowerInv, Result
<1> QED  BY <1>11, <1>12, <1>13, <1>14, <1>15 DEF IInv, PowerInv

(* The sleep between these and the one of opd_start change nothing else.   *)
LEMMA NapIInv == ASSUME IInv, NEW t \in Threads, Nap(t) PROVE IInv'
<1>1. PICK p : p = thread[t]
  OBVIOUS
<1>2. /\ p.at = "nap" /\ "nap" \notin Transfers \cup {"pause", "start", "pin", "ret"}
      /\ "read" \in Transfers
  BY <1>1 DEF Nap, Transfers
<1>3. p \in PlaceType /\ OKPlace(p)
  BY <1>1 DEF IInv, PlaceInv
<1>4. p.card \in Cards /\ p.left > 0 /\ p.job \notin Cycle /\ MayMove(t)
  BY <1>1, <1>2, <1>3 DEF OKPlace, MayMove
<1>5. PICK c \in Cards : c = p.card
  BY <1>4
<1>6. Assert(t, p, "read", c)
  BY <1>1, <1>5 DEF Nap, Assert, Acquire, Set
<1>7. (Result(t, p) \/ UNCHANGED place) /\ halted' \in {halted, TRUE}
  BY <1>2, <1>3, <1>4, <1>6, AssertResult
<1>8. UNCHANGED <<power, table, events, term>>
  BY DEF Nap
<1>9. TableType' /\ EventType' /\ PlaceInv' /\ CountInv'
  BY <1>1, <1>2, <1>4, <1>7, <1>8, TransferRest DEF table
<1>10. PowerType' /\ PowerInv'
  BY <1>1, <1>2, <1>7, <1>8, QuietPower DEF IInv, Result
<1> QED  BY <1>9, <1>10 DEF IInv

LEMMA WarmIInv == ASSUME IInv, NEW t \in Threads, Warm(t) PROVE IInv'
<1>1. PICK p : p = thread[t]
  OBVIOUS
<1>2. /\ p.at = "warm" /\ "probe" \in Transfers
      /\ "warm" \notin Transfers \cup {"nap", "pause", "start", "pin", "ret"}
  BY <1>1 DEF Warm, Transfers
<1>3. p \in PlaceType /\ p.job \notin Cycle /\ MayMove(t)
  BY <1>1, <1>2 DEF IInv, PlaceInv, OKPlace, MayMove
<1>4. First(Cards) \in Cards
  BY FirstIsLeast, CardsAreNaturals, NodeMgrAssumption
<1>5. PICK c \in Cards : c = First(Cards)
  BY <1>4
<1>6. (Result(t, p) \/ UNCHANGED place) /\ halted' \in {halted, TRUE}
  <2>1. \/ Acquire(t, p, "probe", c) /\ UNCHANGED halted
        \/ UNCHANGED place /\ halted' = TRUE
    BY <1>1, <1>5 DEF Warm, Acquire, Set, place
  <2> QED  BY <1>2, <1>3, <2>1, AcquireResult
<1>7. UNCHANGED <<power, table, events, term>>
  BY DEF Warm
<1>8. TableType' /\ EventType' /\ PlaceInv' /\ CountInv'
  BY <1>1, <1>2, <1>3, <1>6, <1>7, TransferRest DEF table
<1>9. PowerType' /\ PowerInv'
  BY <1>1, <1>2, <1>6, <1>7, QuietPower DEF IInv, Result
<1> QED  BY <1>8, <1>9 DEF IInv

----------------------------------------------------------------------------
(* The commands. *)

(* A ground thread without a job: its commands concern neither the counts  *)
(* nor, but for opd_stop, the power domain.                                *)
LEMMA FreeThread ==
  ASSUME IInv, NEW t \in Ground, Free(t)
  PROVE  /\ t \in Threads /\ t # "mgr" /\ MayMove(t)
         /\ thread[t].at = "idle" /\ thread[t].at \notin {"start", "pause"}
<1>1. thread[t].at = "idle" /\ "idle" \notin Transfers
  BY DEF Free, Transfers
<1> QED  BY <1>1, NodeMgrAssumption DEF Threads, MayMove

(* What a command does besides the power domain and the events. *)
LEMMA CommandRest ==
  ASSUME IInv, NEW t \in Ground, Free(t), NEW p, Result(t, p) \/ UNCHANGED place,
         UNCHANGED <<attempts, state, cycled>>, ~ halted' => ~ halted
  PROVE  PlaceInv' /\ CountInv'
BY FreeThread, ResultKeepsPlaces, ResultKeepsCount DEF IInv

LEMMA NodeCommandIInv == ASSUME IInv, NEW t \in Ground, NodeCommand(t) PROVE IInv'
<1>1. Free(t) /\ "node" \in Jobs
  BY DEF NodeCommand, Jobs, NodeJobs
<1>2. t \in Threads /\ thread[t].at # "start"
  BY <1>1, FreeThread
<1>3. PICK n \in Nodes, b \in BOOLEAN : NodeEnable(t, n, "node", b)
  BY NodeMgrAssumption DEF NodeCommand
<1>4. PICK p : p = Place("node", "ret", n, b, 0)
  OBVIOUS
<1>5. /\ Result(t, p) \/ UNCHANGED place
      /\ enable' \in [Nodes -> BOOLEAN] /\ halted' \in {halted, TRUE}
  BY <1>1, <1>2, <1>3, <1>4, NodeEnableResult DEF IInv
<1>6. UNCHANGED <<known, attempts, state, cycled, heard, pending, flags, term>>
      /\ UNCHANGED power
  BY DEF NodeCommand, events
<1>7. PlaceInv' /\ CountInv'
  <2>1. ~ halted' => ~ halted
    BY <1>5, HaltedStays
  <2> QED  BY <1>1, <1>5, <1>6, <2>1, CommandRest
<1>8. PowerType' /\ PowerInv'
  BY <1>2, <1>5, <1>6, QuietPower DEF IInv, Result
<1>9. TableType' /\ EventType'
  BY <1>5, <1>6 DEF IInv, TableType, EventType
<1> QED  BY <1>7, <1>8, <1>9 DEF IInv

(* The commands that leave the table of nodes alone. *)
LEMMA QuietCommand ==
  ASSUME IInv, NEW t \in Ground, Free(t), NEW p, Result(t, p) \/ UNCHANGED place,
         UNCHANGED <<table, events, term>>, halted' \in {halted, TRUE}
  PROVE  PlaceInv' /\ CountInv' /\ TableType' /\ EventType'
<1>1. UNCHANGED <<known, enable, attempts, state, cycled, heard, pending, flags, term>>
  BY DEF table, events
<1>2. TableType' /\ EventType'
  BY <1>1 DEF IInv, TableType, EventType
<1>3. ~ halted' => ~ halted
  BY HaltedStays
<1> QED  BY <1>1, <1>2, <1>3, CommandRest

LEMMA EnableCommandIInv == ASSUME IInv, NEW t \in Ground, EnableCommand(t) PROVE IInv'
<1>1. Free(t) /\ "opd" \in Jobs
  BY DEF EnableCommand, Jobs
<1>2. t \in Threads /\ thread[t].at # "start"
  BY <1>1, FreeThread
<1>3. PICK c \in Cards, b \in BOOLEAN : OpdEnable(t, c, "opd", b)
  BY DEF EnableCommand
<1>4. PICK p : p = Place("opd", "ret", c, b, 0)
  OBVIOUS
<1>5. (Result(t, p) \/ UNCHANGED place) /\ halted' \in {halted, TRUE}
  BY <1>1, <1>2, <1>3, <1>4, OpdEnableResult
<1>6. UNCHANGED <<power, table, events, term>>
  BY DEF EnableCommand
<1>7. PowerType' /\ PowerInv'
  BY <1>2, <1>5, <1>6, QuietPower DEF IInv, Result
<1> QED  BY <1>1, <1>5, <1>6, <1>7, QuietCommand DEF IInv

(* opd_start powers the subsystem and sleeps. *)
LEMMA OpdStartResult ==
  ASSUME PlaceInv, NEW t \in Threads, thread[t].at \notin Transfers,
         NEW j \in Jobs, j \notin Cycle, OpdStart(t, j)
  PROVE  Result(t, Place(j, "warm", 0, TRUE, 0))
<1>1. PICK q : q = Place(j, "warm", 0, TRUE, 0)
  OBVIOUS
<1>2. q \in PlaceType /\ q.at = "warm" /\ q.job = j
  BY <1>1, CardsAreNaturals DEF Place, PlaceType, Steps
<1>3. "warm" \notin Transfers \cup Begin \cup {"nap", "read", "pause"}
  BY DEF Transfers, Begin
<1>4. OKPlace(q) /\ Continues(t, q, q)
  BY <1>2, <1>3 DEF OKPlace, Continues
<1>5. Released(t) = bus
  <2>1. SUFFICES ASSUME bus # <<>>, Head(bus) = t PROVE FALSE
    BY DEF Released
  <2>2. 1 \in 1 .. Len(bus) /\ bus[1] = t
    BY <2>1 DEF PlaceInv
  <2> QED  BY <2>2 DEF PlaceInv, BusDiscipline
<1>6. Moves(t, q)
  BY <1>1, <1>2, <1>3, <1>5 DEF Moves, OpdStart, Set
<1> QED  BY <1>1, <1>4, <1>6 DEF Result

LEMMA StartCommandIInv == ASSUME IInv, NEW t \in Ground, StartCommand(t) PROVE IInv'
<1>1. Free(t) /\ "start" \in Jobs /\ "start" \notin Cycle
  BY DEF StartCommand, Jobs, Cycle
<1>2. /\ t \in Threads /\ thread[t].at # "start" /\ MayMove(t)
      /\ thread[t].at \notin Transfers
  BY <1>1, FreeThread DEF Transfers
<1>3. PICK p : p = Place("start", "warm", 0, TRUE, 0)
  OBVIOUS
<1>4. OpdStart(t, "start")
  BY DEF StartCommand
<1>5. Result(t, p)
  BY <1>1, <1>2, <1>3, <1>4, OpdStartResult DEF IInv
<1>6. UNCHANGED <<chip, dev, valid, byNode, missed, table, events, term, halted>>
  BY DEF StartCommand
<1>7. line' = TRUE
  BY <1>4 DEF OpdStart
<1>8. AssertWindow'
  BY <1>2, <1>5, <1>6, WindowKept DEF IInv, PowerInv, Result
<1>9. PowerType' /\ PowerInv'
  BY <1>6, <1>7, <1>8 DEF IInv, PowerType, PowerInv
<1> QED  BY <1>1, <1>5, <1>6, <1>9, QuietCommand DEF IInv

(* opd_stop, from its call, by a thread that is not at a transfer. *)
LEMMA OpdStopPower ==
  ASSUME IInv, NEW t \in Threads, thread[t].at # "start",
         StopFrom(t, Place("stop", "ret", 0, FALSE, 0), Cards, chip, dev),
         UNCHANGED <<dev, byNode, missed>>
  PROVE  /\ PowerType' /\ PowerInv' /\ halted' \in {halted, TRUE}
         /\ Result(t, Place("stop", "ret", 0, FALSE, 0)) \/ UNCHANGED place
<1>1. PICK p : p = Place("stop", "ret", 0, FALSE, 0)
  OBVIOUS
<1>2. PICK ch : ch = chip
  OBVIOUS
<1>3. PICK dv : dv = dev
  OBVIOUS
<1>4. StopFrom(t, p, Cards, ch, dv)
  BY <1>1, <1>2, <1>3 DEF StopFrom, Acquire, Leave, Set
<1>5. p \in PlaceType /\ p.job \notin Cycle
  BY <1>1, CardsAreNaturals DEF Place, PlaceType, Jobs, Steps, Cycle
<1>6. /\ ch \in [Cards -> {"input", "low", "high"}] /\ dv \in [Cards -> {"stop", "ready"}]
      /\ missed' \in [Cards -> BOOLEAN]
  BY <1>2, <1>3 DEF IInv, PowerType
<1>7. StopBegun(Cards, ch, dv)
  BY <1>2, <1>3 DEF StopBegun, IInv, PowerInv
<1>8. byNode' \in [Cards -> BOOLEAN] /\ dev' = dv
  BY <1>3 DEF IInv, PowerType
<1>9. PowerType' /\ PowerInv' /\ (Result(t, p) \/ UNCHANGED place)
      /\ halted' \in {halted, TRUE}
  BY <1>4, <1>5, <1>6, <1>7, <1>8, StopFromPower
<1> QED  BY <1>1, <1>9

LEMMA StopCommandIInv == ASSUME IInv, NEW t \in Ground, StopCommand(t) PROVE IInv'
<1>1. Free(t) /\ UNCHANGED <<dev, byNode, missed, table, events, term>>
  BY DEF StopCommand
<1>2. t \in Threads /\ thread[t].at # "start"
  BY <1>1, FreeThread
<1>3. StopFrom(t, Place("stop", "ret", 0, FALSE, 0), Cards, chip, dev)
  BY DEF StopCommand
<1>4. /\ PowerType' /\ PowerInv' /\ halted' \in {halted, TRUE}
      /\ Result(t, Place("stop", "ret", 0, FALSE, 0)) \/ UNCHANGED place
  BY <1>1, <1>2, <1>3, OpdStopPower
<1> QED  BY <1>1, <1>4, QuietCommand DEF IInv

LEMMA ScanCommandIInv == ASSUME IInv, NEW t \in Ground, ScanCommand(t) PROVE IInv'
<1>1. Free(t) /\ UNCHANGED <<power, table, events, term, halted>> /\ "probe" \in Transfers
  BY DEF ScanCommand, Transfers
<1>2. t \in Threads /\ thread[t].at # "start"
  BY <1>1, FreeThread
<1>3. PICK b \in BOOLEAN :
        Acquire(t, Place("scan", "ret", 0, b, 0), "probe", First(Cards))
  BY DEF ScanCommand
<1>4. PICK p : p = Place("scan", "ret", 0, b, 0)
  OBVIOUS
<1>5. p \in PlaceType /\ p.job \notin Cycle
  BY <1>4, CardsAreNaturals DEF Place, PlaceType, Jobs, Steps, Cycle
<1>6. First(Cards) \in Cards
  BY FirstIsLeast, CardsAreNaturals, NodeMgrAssumption
<1>7. Acquire(t, p, "probe", First(Cards))
  BY <1>3, <1>4
<1>8. Result(t, p)
  BY <1>1, <1>2, <1>5, <1>6, <1>7, AcquireResult
<1>9. PowerType' /\ PowerInv'
  BY <1>1, <1>2, <1>8, QuietPower DEF IInv, Result
<1> QED  BY <1>1, <1>8, <1>9, QuietCommand DEF IInv

LEMMA ReadCommandIInv == ASSUME IInv, NEW t \in Ground, ReadCommand(t) PROVE IInv'
<1>1. Free(t) /\ UNCHANGED <<power, table, events, term>> /\ "read" \in Transfers
  BY DEF ReadCommand, Transfers
<1>2. t \in Threads /\ thread[t].at # "start"
  BY <1>1, FreeThread
<1>3. PICK c \in Cards, j \in {"status", "reset"}, k \in {Reads, 2} :
        Assert(t, Place(j, "ret", c, FALSE, k), "read", c)
  BY DEF ReadCommand
<1>4. PICK p : p = Place(j, "ret", c, FALSE, k)
  OBVIOUS
<1>5. k \in Nat /\ k > 0 /\ j \in Jobs /\ j \notin Cycle
  BY NodeMgrAssumption DEF Jobs, Cycle
<1>6. p \in PlaceType /\ p.job \notin Cycle /\ p.left > 0
  BY <1>4, <1>5, CardsAreNaturals DEF Place, PlaceType, Steps
<1>7. Assert(t, p, "read", c)
  BY <1>3, <1>4
<1>8. (Result(t, p) \/ UNCHANGED place) /\ halted' \in {halted, TRUE}
  BY <1>1, <1>2, <1>6, <1>7, AssertResult
<1>9. PowerType' /\ PowerInv'
  BY <1>1, <1>2, <1>8, QuietPower DEF IInv, Result
<1> QED  BY <1>1, <1>8, <1>9, QuietCommand DEF IInv

----------------------------------------------------------------------------
(* The manager. *)

(* The places of the manager's own steps are not transfers. *)
LEMMA ManagerMoves ==
  ASSUME IInv, mgr.at \notin Transfers
  PROVE  /\ "mgr" \in Threads /\ MayMove("mgr") /\ thread["mgr"].at # "start"
         /\ Released("mgr") = bus /\ mgr \in PlaceType /\ mgr.card \in Nodes
         /\ mgr.job \in Cycle => mgr.at = "ret"
         /\ mgr.at = "woken" => mgr.job = "none"
<1>1. "mgr" \in Threads
  BY DEF Threads
<1>2. Released("mgr") = bus
  <2>1. SUFFICES ASSUME bus # <<>>, Head(bus) = "mgr" PROVE FALSE
    BY DEF Released
  <2>2. 1 \in 1 .. Len(bus) /\ bus[1] = "mgr"
    BY <2>1 DEF IInv, PlaceInv
  <2> QED  BY <1>1, <2>2 DEF IInv, PlaceInv, BusDiscipline, mgr
<1>3. OKPlace(mgr) /\ "start" \in Transfers /\ "pin" \in Transfers
  BY <1>1 DEF IInv, PlaceInv, mgr, Transfers
<1>4. mgr \in PlaceType /\ mgr.card \in Nodes
  BY <1>3 DEF OKPlace, PlaceType
<1> QED  BY <1>1, <1>2, <1>3, <1>4 DEF mgr, MayMove, OKPlace

(* Going on to another place of the manager. *)
LEMMA GoResult ==
  ASSUME IInv, mgr.at \notin Transfers, NEW n \in Nodes,
         NEW x \in {"setup", "exit", "close", "pause", "gone", "wait", "woken"}, Go(x, n)
  PROVE  /\ PlaceInv' /\ (\E q : Moves("mgr", q))
         /\ mgr'.at = x /\ mgr'.card = n /\ mgr'.job = "none"
<1>1. PICK q : q = Place("none", x, n, FALSE, 0)
  OBVIOUS
<1>2. q \in PlaceType /\ q.at = x /\ q.card = n /\ q.job = "none"
  BY <1>1 DEF Place, PlaceType, Jobs, Steps
<1>3. x \notin Transfers \cup {"nap", "read"} /\ "none" \notin Cycle
  BY DEF Transfers, Cycle
<1>4. OKPlace(q)
  BY <1>2, <1>3 DEF OKPlace
<1>5. "mgr" \in Threads /\ MayMove("mgr") /\ Released("mgr") = bus
  BY ManagerMoves
<1>6. Moves("mgr", q)
  BY <1>1, <1>2, <1>3, <1>5 DEF Go, Set, Moves
<1>7. PlaceInv'
  BY <1>4, <1>5, <1>6, MoveKeepsPlaces DEF IInv
<1>8. mgr' = q
  BY <1>5, <1>6 DEF Moves, IInv, PlaceInv, mgr
<1> QED  BY <1>2, <1>6, <1>7, <1>8

(* The manager's steps leave the power domain to transfers. *)
LEMMA ManagerPower ==
  ASSUME IInv, mgr.at \notin Transfers, UNCHANGED power,
         (\E q : Moves("mgr", q)) \/ UNCHANGED place
  PROVE  PowerType' /\ PowerInv'
BY ManagerMoves, QuietPower DEF IInv

(* The counts, when the manager goes on outside of a power cycle. *)
LEMMA CountOutside ==
  ASSUME IInv, mgr.at # "pause", mgr.job \notin Cycle, NEW a \in [Nodes -> 0 .. Limit],
         attempts' = a, UNCHANGED <<cycled, state>>, ~ halted' => ~ halted,
         \A n \in Nodes : a[n] = attempts[n] \/ cycled[n] = 0,
         mgr'.at # "pause", mgr'.job \notin Cycle,
         mgr'.at \in Begin \/ mgr'.job \in Begin => mgr.at \in Begin \/ mgr.job \in Begin
  PROVE  CountInv'
<1>1. \A n \in Nodes : ~ InCycle(n) /\ ~ InCycle(n)'
  BY DEF InCycle
<1>2. ASSUME NEW n \in Nodes
      PROVE  /\ ~ halted' => cycled'[n] <= attempts'[n] + (IF InCycle(n)' THEN 1 ELSE 0)
             /\ InCycle(n)' => attempts'[n] < Limit
             /\ state'[n] = "alive" => cycled'[n] = 0
  <2>1. cycled[n] \in Nat /\ attempts[n] \in Nat /\ a[n] \in Nat
    BY NodeMgrAssumption DEF IInv, TableType
  <2>2. /\ ~ halted => cycled[n] <= attempts[n]
        /\ state[n] = "alive" => cycled[n] = 0
    BY <1>1, <2>1 DEF IInv, CountInv
  <2>3. ~ halted => cycled[n] <= a[n]
    BY <2>1, <2>2
  <2> QED  BY <1>1, <2>1, <2>2, <2>3
<1> QED  BY <1>2 DEF IInv, CountInv, CyclesBounded

(* A result for a job, begun by the manager outside of opd.c. *)
LEMMA ManagerResult ==
  ASSUME IInv, mgr.at \notin Transfers, NEW p, Result("mgr", p)
  PROVE  /\ PlaceInv' /\ (\E q : Moves("mgr", q))
         /\ mgr'.at \notin Begin \cup {"pause"} /\ mgr'.job = p.job
         /\ p.job \in Cycle => mgr'.card = p.card
<1>1. "mgr" \in Threads /\ MayMove("mgr")
  BY ManagerMoves
<1>2. PICK q : OKPlace(q) /\ Moves("mgr", q) /\ Continues("mgr", p, q)
  BY DEF Result
<1>3. PlaceInv'
  BY <1>1, <1>2, MoveKeepsPlaces DEF IInv
<1>4. mgr' = q
  BY <1>1, <1>2 DEF Moves, IInv, PlaceInv, mgr
<1> QED  BY <1>2, <1>3, <1>4 DEF Continues

LEMMA MgrBootIInv == ASSUME IInv, MgrBoot PROVE IInv'
<1>1. mgr.at = "boot" /\ "boot" \notin Transfers \cup Cycle /\ "boot" \in Jobs \cap Begin
  BY DEF MgrBoot, Manager, Transfers, Cycle, Jobs, Begin
<1>2. "mgr" \in Threads /\ MayMove("mgr") /\ thread["mgr"].at \notin Transfers
      /\ mgr.job \notin Cycle /\ thread["mgr"].at # "start"
  BY <1>1, ManagerMoves DEF mgr
<1>3. PICK p : p = Place("boot", "warm", 0, TRUE, 0)
  OBVIOUS
<1>4. Result("mgr", p)
  <2>1. OpdStart("mgr", "boot")
    BY DEF MgrBoot
  <2> QED  BY <1>1, <1>2, <1>3, <2>1, OpdStartResult DEF IInv
<1>5. UNCHANGED <<chip, dev, valid, byNode, missed, table, events, term, halted>>
  BY DEF MgrBoot
<1>6. line' = TRUE
  BY DEF MgrBoot, OpdStart
<1>7. p.job = "boot"
  BY <1>3 DEF Place
<1>8. /\ PlaceInv' /\ (\E q : Moves("mgr", q))
      /\ mgr'.at \notin Begin \cup {"pause"} /\ mgr'.job = "boot"
  BY <1>1, <1>4, <1>7, ManagerResult
<1>9. AssertWindow'
  BY <1>2, <1>5, <1>8, WindowKept DEF IInv, PowerInv
<1>10. PowerType' /\ PowerInv'
  BY <1>5, <1>6, <1>9 DEF IInv, PowerType, PowerInv
<1>11. UNCHANGED <<known, enable, attempts, state, cycled, heard, pending, flags>>
       /\ UNCHANGED <<term, halted>>
  BY <1>5 DEF table, events
<1>12. TableType' /\ EventType'
  BY <1>11 DEF IInv, TableType, EventType
<1>13. CountInv'
  <2>1. PICK a : a = attempts
    OBVIOUS
  <2>2. a \in [Nodes -> 0 .. Limit] /\ attempts' = a
    BY <1>11, <2>1 DEF IInv, TableType
  <2>3. \A n \in Nodes : a[n] = attempts[n] \/ cycled[n] = 0
    BY <2>1
  <2>4. mgr.at # "pause" /\ mgr.at \in Begin
    BY <1>1
  <2> QED  BY <1>1, <1>2, <1>8, <1>11, <2>2, <2>3, <2>4, CountOutside
<1> QED  BY <1>8, <1>10, <1>12, <1>13 DEF IInv

(* The table of nodes is set up before any power cycle. *)
LEMMA MgrSetupIInv == ASSUME IInv, MgrSetup PROVE IInv'
<1>1. mgr.at = "setup" /\ "setup" \notin Transfers \cup Cycle /\ "setup" \in Jobs \cap Begin
  BY DEF MgrSetup, Manager, Transfers, Cycle, Jobs, NodeJobs, Begin
<1>2. "mgr" \in Threads /\ mgr.card \in Nodes /\ mgr.job \notin Cycle /\ mgr \in PlaceType
  BY <1>1, ManagerMoves
<1>3. PICK n \in Nodes : n = mgr.card
  BY <1>2
<1>4. known' = [known EXCEPT ![n] = TRUE] /\ attempts' = [attempts EXCEPT ![n] = 0]
  BY <1>3 DEF MgrSetup, Set
<1>5. UNCHANGED <<power, state, cycled, events, term>>
  BY DEF MgrSetup
<1>6. /\ enable' \in [Nodes -> BOOLEAN] /\ halted' \in {halted, TRUE}
      /\ (\E p : Result("mgr", p) /\ p.job = "setup") \/ UNCHANGED place
  <2>1. CASE n \notin Cards \/ n \in Autostart
    <3>1. NodeEnable("mgr", n, "setup", TRUE)
      BY <1>3, <2>1 DEF MgrSetup, NodeEnable, OpdEnable, Leave, Assert, Acquire, Set
    <3>2. PICK p : p = Place("setup", "ret", n, TRUE, 0)
      OBVIOUS
    <3>3. p.job = "setup"
      BY <3>2 DEF Place
    <3> QED  BY <1>1, <1>2, <3>1, <3>2, <3>3, NodeEnableResult DEF IInv
  <2>2. CASE ~ (n \notin Cards \/ n \in Autostart)
    <3>1. PICK p : p = Place("setup", "ret", n, FALSE, 0)
      OBVIOUS
    <3>2. Leave("mgr", p) /\ UNCHANGED <<enable, halted>>
      BY <1>3, <2>2, <3>1 DEF MgrSetup, Leave, Set
    <3>3. p \in PlaceType /\ p.job = "setup"
      BY <1>1, <3>1 DEF Place, PlaceType, Steps
    <3>4. Result("mgr", p)
      BY <1>2, <3>2, <3>3, LeaveResult
    <3> QED  BY <3>2, <3>3, <3>4 DEF IInv, TableType
  <2> QED  BY <2>1, <2>2
<1>7. \/ mgr'.at \notin Begin \cup {"pause"} /\ mgr'.job = "setup"
      \/ mgr' = mgr
  <2>1. CASE \E p : Result("mgr", p) /\ p.job = "setup"
    BY <1>1, <2>1, ManagerResult
  <2>2. CASE UNCHANGED place
    BY <2>2 DEF place, mgr
  <2> QED  BY <1>6, <2>1, <2>2
<1>8. PlaceInv' /\ ((\E q : Moves("mgr", q)) \/ UNCHANGED place)
  <2>1. CASE \E p : Result("mgr", p) /\ p.job = "setup"
    BY <1>1, <2>1, ManagerResult
  <2>2. CASE UNCHANGED place
    BY <2>2, StayKeepsPlaces DEF IInv
  <2> QED  BY <1>6, <2>1, <2>2
<1>9. PowerType' /\ PowerInv'
  BY <1>1, <1>5, <1>8, ManagerPower
<1>10. TableType' /\ EventType'
  <2>1. attempts' \in [Nodes -> 0 .. Limit]
    BY <1>4, NodeMgrAssumption DEF IInv, TableType
  <2> QED  BY <1>4, <1>5, <1>6, <2>1 DEF IInv, TableType, EventType, events
<1>11. CountInv'
  <2>1. PICK a : a = [attempts EXCEPT ![n] = 0]
    OBVIOUS
  <2>2. a \in [Nodes -> 0 .. Limit] /\ attempts' = a
    BY <1>4, <2>1, NodeMgrAssumption DEF IInv, TableType
  <2>3. \A k \in Nodes : a[k] = attempts[k] \/ cycled[k] = 0
    BY <1>1 DEF IInv, CountInv
  <2>4. mgr.at # "pause" /\ mgr.at \in Begin
    BY <1>1
  <2>5. mgr'.at # "pause" /\ mgr'.job \notin Cycle
    BY <1>1, <1>2, <1>7
  <2>6. ~ halted' => ~ halted
    BY <1>6, HaltedStays
  <2> QED  BY <1>2, <1>5, <2>2, <2>3, <2>4, <2>5, <2>6, CountOutside
<1> QED  BY <1>8, <1>9, <1>10, <1>11 DEF IInv

(* Back from opd.c: only the end of a power cycle counts. *)
LEMMA MgrReturnIInv == ASSUME IInv, MgrReturn PROVE IInv'
<1>1. mgr.at = "ret" /\ "ret" \notin Transfers \cup Begin \cup {"pause"}
  BY DEF MgrReturn, Manager, Transfers, Begin
<1>2. PICK n \in Nodes : n = mgr.card
  BY <1>1, ManagerMoves
<1>3. UNCHANGED <<power, enable, state, cycled, pending, flags, term, halted>>
  BY DEF MgrReturn
<1>4. PICK x \in {"setup", "exit", "close", "pause", "gone", "wait"}, k \in Nodes :
        /\ Go(x, k)
        /\ x = "pause" <=> mgr.job = "cycleOff"
        /\ x = "pause" => k = n
        /\ x = "setup" => mgr.job \in Begin
  BY <1>2, CardsAreNaturals DEF MgrReturn, Loop, Begin
<1>5. /\ PlaceInv' /\ (\E q : Moves("mgr", q))
      /\ mgr'.at = x /\ mgr'.card = k /\ mgr'.job = "none"
  BY <1>1, <1>4, GoResult
<1>6. PowerType' /\ PowerInv'
  BY <1>1, <1>3, <1>5, ManagerPower
<1>7. known' \in [Nodes -> BOOLEAN] /\ heard' \in [Nodes -> {"unknown", "alive", "idle"}]
  BY <1>2 DEF MgrReturn, Set, IInv, TableType, EventType
<1>8. EventType'
  BY <1>3, <1>7 DEF IInv, EventType
<1>9. attempts' = IF mgr.job = "cycleOn" THEN [attempts EXCEPT ![n] = attempts[n] + 1]
                  ELSE attempts
  BY <1>2 DEF MgrReturn, Set, Attempt
<1>10. "none" \notin Cycle \cup Begin /\ Begin = {"boot", "setup"}
       /\ Cycle = {"cycleOff", "cycleOn"}
  BY DEF Cycle, Begin
<1>11. CASE mgr.job = "cycleOn"
  <2>1. InCycle(n) /\ \A m \in Nodes \ {n} : ~ InCycle(m)
    BY <1>1, <1>2, <1>10, <1>11 DEF InCycle
  <2>2. attempts[n] < Limit /\ attempts[n] \in Nat /\ attempts[n] + 1 \in 0 .. Limit
    BY <2>1, NodeMgrAssumption DEF IInv, CountInv, TableType
  <2>3. attempts' = [attempts EXCEPT ![n] = attempts[n] + 1]
        /\ attempts' \in [Nodes -> 0 .. Limit]
    BY <1>9, <1>11, <2>2 DEF IInv, TableType
  <2>4. \A m \in Nodes : ~ InCycle(m)'
    BY <1>4, <1>5, <1>10, <1>11 DEF InCycle
  <2>5. ASSUME NEW m \in Nodes
        PROVE  ~ halted => cycled[m] <= attempts'[m]
    <3>1. cycled[m] \in Nat /\ attempts[m] \in Nat
      BY NodeMgrAssumption DEF IInv, TableType
    <3>2. ~ halted => cycled[m] <= attempts[m] + (IF InCycle(m) THEN 1 ELSE 0)
      BY DEF IInv, CountInv
    <3>3. CASE m = n
      BY <2>1, <2>3, <3>1, <3>2, <3>3 DEF IInv, TableType
    <3>4. CASE m # n
      BY <2>1, <2>3, <3>1, <3>2, <3>4 DEF IInv, TableType
    <3> QED  BY <3>3, <3>4
  <2>6. ASSUME NEW m \in Nodes
        PROVE  ~ halted' => cycled'[m] <= attempts'[m] + (IF InCycle(m)' THEN 1 ELSE 0)
    <3>1. cycled[m] \in Nat /\ attempts'[m] \in Nat
      BY <2>3, NodeMgrAssumption DEF IInv, TableType
    <3> QED  BY <1>3, <2>4, <2>5, <3>1
  <2>7. CountInv'
    BY <1>3, <1>4, <1>5, <1>10, <1>11, <2>4, <2>6 DEF IInv, CountInv, CyclesBounded
  <2>8. TableType'
    BY <1>3, <1>7, <2>3 DEF IInv, TableType
  <2> QED  BY <1>5, <1>6, <1>8, <2>7, <2>8 DEF IInv
<1>12. CASE mgr.job = "cycleOff"
  <2>1. \A m \in Nodes : InCycle(m)' <=> InCycle(m)
    BY <1>1, <1>2, <1>4, <1>5, <1>10, <1>12 DEF InCycle
  <2>2. attempts' = attempts
    BY <1>9, <1>12
  <2>3. CountInv'
    BY <1>3, <1>4, <1>5, <1>10, <1>12, <2>1, <2>2 DEF IInv, CountInv, CyclesBounded
  <2>4. TableType'
    BY <1>3, <1>7, <2>2 DEF IInv, TableType
  <2> QED  BY <1>5, <1>6, <1>8, <2>3, <2>4 DEF IInv
<1>13. CASE mgr.job \notin Cycle
  <2>1. PICK a : a = attempts
    OBVIOUS
  <2>2. attempts' = a /\ a \in [Nodes -> 0 .. Limit]
    BY <1>9, <1>10, <1>13, <2>1 DEF IInv, TableType
  <2>3. \A m \in Nodes : a[m] = attempts[m] \/ cycled[m] = 0
    BY <2>1
  <2>4. mgr'.at # "pause" /\ mgr'.job \notin Cycle /\ (~ halted' => ~ halted)
    BY <1>3, <1>4, <1>5, <1>10, <1>13
  <2>5. mgr'.at \in Begin \/ mgr'.job \in Begin => mgr.at \in Begin \/ mgr.job \in Begin
    BY <1>4, <1>5, <1>10
  <2>6. CountInv'
    BY <1>1, <1>3, <1>13, <2>2, <2>3, <2>4, <2>5, CountOutside
  <2>7. TableType'
    BY <1>3, <1>7, <2>2 DEF IInv, TableType
  <2> QED  BY <1>5, <1>6, <1>8, <2>6, <2>7 DEF IInv
<1> QED  BY <1>10, <1>11, <1>12, <1>13

LEMMA MgrWakeIInv == ASSUME IInv, MgrWake PROVE IInv'
<1>1. mgr.at = "wait" /\ "wait" \notin Transfers \cup Begin \cup {"pause", "ret"}
  BY DEF MgrWake, Manager, Transfers, Begin
<1>2. mgr.job \notin Cycle /\ 0 \in Nodes
  BY <1>1, ManagerMoves, CardsAreNaturals
<1>3. /\ UNCHANGED <<power, known, enable, attempts, state, cycled, heard, flags, term>>
      /\ UNCHANGED halted /\ pending' = FALSE /\ Go("woken", 0)
  BY DEF MgrWake, table
<1>4. /\ PlaceInv' /\ (\E q : Moves("mgr", q))
      /\ mgr'.at = "woken" /\ mgr'.job = "none"
  BY <1>1, <1>2, <1>3, GoResult
<1>5. PowerType' /\ PowerInv'
  BY <1>1, <1>3, <1>4, ManagerPower
<1>6. TableType' /\ EventType'
  BY <1>3 DEF IInv, TableType, EventType
<1>7. CountInv'
  <2>1. PICK a : a = attempts
    OBVIOUS
  <2>2. attempts' = a /\ a \in [Nodes -> 0 .. Limit]
        /\ \A m \in Nodes : a[m] = attempts[m] \/ cycled[m] = 0
    BY <1>3, <2>1 DEF IInv, TableType
  <2>3. mgr'.at \notin Begin \cup {"pause"} /\ mgr'.job \notin Cycle \cup Begin
    BY <1>4 DEF Begin, Cycle
  <2> QED  BY <1>1, <1>2, <1>3, <2>2, <2>3, CountOutside
<1> QED  BY <1>4, <1>5, <1>6, <1>7 DEF IInv

(* node_enable by the manager, whatever it is for. *)
LEMMA ManagerEnable ==
  ASSUME IInv, mgr.at \notin Transfers, NEW n \in Nodes, NEW j \in NodeJobs,
         NEW b \in BOOLEAN, NodeEnable("mgr", n, j, b)
  PROVE  /\ PlaceInv' /\ ((\E q : Moves("mgr", q)) \/ UNCHANGED place)
         /\ enable' \in [Nodes -> BOOLEAN] /\ halted' \in {halted, TRUE}
         /\ \/ /\ mgr'.at \notin Begin \cup {"pause"} /\ mgr'.job = j
               /\ j \in Cycle => mgr'.card = n
            \/ mgr' = mgr /\ halted' = TRUE
<1>1. j \in Jobs /\ "mgr" \in Threads
  BY ManagerMoves DEF Jobs
<1>2. PICK p : p = Place(j, "ret", n, b, 0)
  OBVIOUS
<1>3. p.job = j /\ p.card = n
  BY <1>2 DEF Place
<1>4. /\ Result("mgr", p) \/ UNCHANGED place
      /\ enable' \in [Nodes -> BOOLEAN] /\ halted' \in {halted, TRUE}
  BY <1>1, <1>2, NodeEnableResult DEF IInv
<1>5. CASE Result("mgr", p)
  BY <1>3, <1>4, <1>5, ManagerResult
<1>6. CASE UNCHANGED place /\ ~ Result("mgr", p)
  <2>1. mgr' = mgr /\ PlaceInv'
    BY <1>6, StayKeepsPlaces DEF IInv, place, mgr
  <2>2. halted' = TRUE
    <3>1. CASE n \in Cards /\ valid[n] /\ dev[n] # "ready"
      BY <3>1 DEF NodeEnable, OpdEnable, Assert
    <3>2. CASE n \in Cards /\ valid[n] /\ dev[n] = "ready"
      <4>1. Acquire("mgr", p, "pin", n)
        BY <1>2, <3>2 DEF NodeEnable, OpdEnable, Assert, Acquire, Set
      <4>2. "pin" \in Transfers /\ "pin" # "read" /\ p \in PlaceType
        BY <1>1, <1>2 DEF Transfers, Place, PlaceType, Steps
      <4>3. Result("mgr", p)
        BY <1>1, <1>3, <3>2, <4>1, <4>2, AcquireResult
      <4> QED  BY <1>6, <4>3
    <3>3. CASE ~ (n \in Cards /\ valid[n])
      <4>1. Leave("mgr", p)
        BY <1>2, <3>3 DEF NodeEnable, OpdEnable, Leave, Set
      <4>2. p \in PlaceType
        BY <1>1, <1>2 DEF Place, PlaceType, Steps
      <4> QED  BY <1>1, <1>6, <4>1, <4>2, LeaveResult
    <3> QED  BY <3>1, <3>2, <3>3
  <2> QED  BY <1>4, <1>6, <2>1, <2>2
<1> QED  BY <1>4, <1>5, <1>6

(* A power cycle is begun with an attempt left, and counted at once. *)
LEMMA MgrHandleIInv == ASSUME IInv, MgrHandle PROVE IInv'
<1>1. /\ mgr.at = "woken" /\ "woken" \notin Transfers \cup Begin \cup {"pause", "ret"}
      /\ ~ halted
  BY DEF MgrHandle, Manager, Transfers, Begin
<1>2. mgr.job \notin Cycle /\ 0 \in Nodes
  BY <1>1, ManagerMoves, CardsAreNaturals
<1>3. UNCHANGED <<power, known, state, heard, pending, term>> /\ flags' = 0
  BY DEF MgrHandle
<1>4. \A m \in Nodes : ~ InCycle(m) /\ cycled[m] \in Nat /\ attempts[m] \in Nat
                       /\ cycled[m] <= attempts[m]
  <2>1. \A m \in Nodes : ~ InCycle(m)
    BY <1>1, <1>2 DEF InCycle
  <2>2. \A m \in Nodes : cycled[m] \in Nat /\ attempts[m] \in Nat
    BY NodeMgrAssumption DEF IInv, TableType
  <2> QED  BY <1>1, <2>1, <2>2 DEF IInv, CountInv
<1>5. PICK n : n = flags
  OBVIOUS
<1>6. {"cycleOff", "giveUp"} \subseteq NodeJobs /\ "giveUp" \notin Cycle \cup Begin
      /\ "cycleOff" \notin Begin /\ "cycleOff" \in Cycle
  BY DEF NodeJobs, Cycle, Begin
<1>7. CASE /\ n \in Cards /\ state[n] = "unknown" /\ MayCycle(n)
           /\ NodeEnable("mgr", n, "cycleOff", FALSE)
           /\ cycled' = [cycled EXCEPT ![n] = cycled[n] + 1] /\ attempts' = attempts
  <2>1. n \in Nodes
    BY <1>7, CardsAreNaturals
  <2>2. /\ PlaceInv' /\ ((\E q : Moves("mgr", q)) \/ UNCHANGED place)
        /\ enable' \in [Nodes -> BOOLEAN] /\ halted' \in {halted, TRUE}
        /\ \/ /\ mgr'.at \notin Begin \cup {"pause"} /\ mgr'.job = "cycleOff"
              /\ mgr'.card = n
           \/ mgr' = mgr /\ halted' = TRUE
    BY <1>1, <1>6, <1>7, <2>1, ManagerEnable
  <2>3. PowerType' /\ PowerInv'
    BY <1>1, <1>3, <2>2, ManagerPower
  <2>4. cycled' \in [Nodes -> Nat]
    BY <1>4, <1>7, <2>1 DEF IInv, TableType
  <2>5. TableType' /\ EventType'
    <3>1. TableType'
      BY <1>3, <1>7, <2>2, <2>4 DEF IInv, TableType
    <3>2. halted' \in BOOLEAN /\ flags' \in 0 .. 15
      <4>1. halted' \in BOOLEAN
        BY <2>2 DEF IInv, EventType
      <4>2. flags' \in 0 .. 15
        BY <1>3
      <4> QED  BY <4>1, <4>2
    <3>3. EventType'
      BY <1>3, <3>2 DEF IInv, EventType
    <3> QED  BY <3>1, <3>3
  <2>6. /\ cycled'[n] = cycled[n] + 1 /\ state[n] # "alive" /\ attempts[n] < Limit
        /\ \A m \in Nodes \ {n} : cycled'[m] = cycled[m]
    BY <1>7, <2>1 DEF IInv, TableType, MayCycle
  <2>7. \A m \in Nodes : cycled'[m] <= Limit
    BY <1>4, <2>1, <2>6, NodeMgrAssumption DEF IInv, CountInv, CyclesBounded
  <2>8. ASSUME NEW m \in Nodes
        PROVE  /\ ~ halted' => cycled'[m] <= attempts'[m] + (IF InCycle(m)' THEN 1 ELSE 0)
               /\ InCycle(m)' => attempts'[m] < Limit
               /\ state'[m] = "alive" => cycled'[m] = 0
    <3>1. InCycle(m)' => m = n
      BY <1>1, <1>2, <2>2 DEF InCycle
    <3>2. ~ halted' => InCycle(n)'
      BY <1>6, <2>2 DEF InCycle
    <3>3. state'[m] = "alive" => cycled'[m] = 0
      BY <1>3, <2>6 DEF IInv, CountInv
    <3>4. CASE m = n
      BY <1>4, <1>7, <2>6, <3>2, <3>3, <3>4
    <3>5. CASE m # n
      BY <1>4, <1>7, <2>6, <3>1, <3>3, <3>5
    <3> QED  BY <3>4, <3>5
  <2>9. ~ (mgr'.at \in Begin \/ mgr'.job \in Begin) \/ mgr' = mgr
    BY <1>6, <2>2
  <2>10. mgr.at \notin Begin /\ mgr.job \notin Begin
    BY <1>1, ManagerMoves DEF Begin
  <2> QED  BY <2>2, <2>3, <2>5, <2>7, <2>8, <2>9, <2>10 DEF IInv, CountInv, CyclesBounded
<1>8. CASE /\ NodeEnable("mgr", n, "giveUp", FALSE) /\ n \in Cards
           /\ UNCHANGED <<attempts, cycled>>
  <2>1. n \in Nodes
    BY <1>8, CardsAreNaturals
  <2>2. /\ PlaceInv' /\ ((\E q : Moves("mgr", q)) \/ UNCHANGED place)
        /\ enable' \in [Nodes -> BOOLEAN] /\ halted' \in {halted, TRUE}
        /\ mgr' = mgr \/ (mgr'.at \notin Begin \cup {"pause"} /\ mgr'.job = "giveUp")
    BY <1>1, <1>6, <1>8, <2>1, ManagerEnable
  <2>3. PowerType' /\ PowerInv'
    BY <1>1, <1>3, <2>2, ManagerPower
  <2>4. TableType'
    BY <1>3, <1>8, <2>2 DEF IInv, TableType
  <2>5. halted' \in BOOLEAN /\ flags' \in 0 .. 15
    <3>1. halted' \in BOOLEAN
      BY <2>2 DEF IInv, EventType
    <3>2. flags' \in 0 .. 15
      BY <1>3
    <3> QED  BY <3>1, <3>2
  <2>6. EventType'
    BY <1>3, <2>5 DEF IInv, EventType
  <2>7. CountInv'
    <3>1. PICK a : a = attempts
      OBVIOUS
    <3>2. attempts' = a /\ a \in [Nodes -> 0 .. Limit]
          /\ \A m \in Nodes : a[m] = attempts[m] \/ cycled[m] = 0
      BY <1>8, <3>1 DEF IInv, TableType
    <3>3. mgr'.at # "pause" /\ mgr'.job \notin Cycle
          /\ (mgr'.at \in Begin \/ mgr'.job \in Begin
                => mgr.at \in Begin \/ mgr.job \in Begin)
      BY <1>1, <1>2, <1>6, <2>2
    <3>4. ~ halted' => ~ halted
      BY <1>1
    <3> QED  BY <1>1, <1>2, <1>3, <1>8, <3>2, <3>3, <3>4, CountOutside
  <2> QED  BY <2>2, <2>3, <2>4, <2>6, <2>7 DEF IInv
<1>9. CASE /\ Loop /\ UNCHANGED <<enable, cycled, halted>>
           /\ attempts' = [k \in Nodes |->
                             IF k = n /\ state[k] = "alive" THEN 0 ELSE attempts[k]]
  <2>1. PICK x \in {"exit", "wait"} : Go(x, 0)
    BY <1>9 DEF Loop
  <2>2. /\ PlaceInv' /\ (\E q : Moves("mgr", q))
        /\ mgr'.at = x /\ mgr'.job = "none"
    BY <1>1, <1>2, <2>1, GoResult
  <2>3. PowerType' /\ PowerInv'
    BY <1>1, <1>3, <2>2, ManagerPower
  <2>4. PICK a : a = [k \in Nodes |->
                       IF k = n /\ state[k] = "alive" THEN 0 ELSE attempts[k]]
    OBVIOUS
  <2>5. attempts' = a /\ a \in [Nodes -> 0 .. Limit]
    BY <1>9, <2>4, NodeMgrAssumption DEF IInv, TableType
  <2>6. TableType' /\ EventType'
    BY <1>3, <1>9, <2>5 DEF IInv, TableType, EventType
  <2>7. \A m \in Nodes : a[m] = attempts[m] \/ cycled[m] = 0
    BY <2>4 DEF IInv, CountInv
  <2>8. mgr'.at \notin Begin \cup {"pause"} /\ mgr'.job \notin Cycle \cup Begin
        /\ (~ halted' => ~ halted)
    BY <1>1, <2>2 DEF Begin, Cycle
  <2>9. CountInv'
    BY <1>1, <1>2, <1>3, <1>9, <2>5, <2>7, <2>8, CountOutside
  <2> QED  BY <2>2, <2>3, <2>6, <2>9 DEF IInv
<1>10. \/ /\ n \in Cards /\ state[n] = "unknown" /\ MayCycle(n)
          /\ NodeEnable("mgr", n, "cycleOff", FALSE)
          /\ cycled' = [cycled EXCEPT ![n] = cycled[n] + 1] /\ attempts' = attempts
       \/ /\ NodeEnable("mgr", n, "giveUp", FALSE) /\ n \in Cards
          /\ UNCHANGED <<attempts, cycled>>
       \/ /\ Loop /\ UNCHANGED <<enable, cycled, halted>>
          /\ attempts' = [k \in Nodes |->
                            IF k = n /\ state[k] = "alive" THEN 0 ELSE attempts[k]]
  BY <1>5 DEF MgrHandle, NodeEnable, OpdEnable, Assert, Acquire, Leave, Set
<1> QED  BY <1>7, <1>8, <1>9, <1>10

(* The end of the pause of a power cycle: the cycle goes on. *)
LEMMA MgrPauseIInv == ASSUME IInv, MgrPause PROVE IInv'
<1>1. /\ mgr.at = "pause" /\ "pause" \notin Transfers \cup Begin \cup {"ret"}
      /\ ~ halted
  BY DEF MgrPause, Manager, Transfers, Begin
<1>2. PICK n \in Nodes : n = mgr.card
  BY <1>1, ManagerMoves
<1>3. UNCHANGED <<power, known, attempts, state, cycled, events, term>>
  BY DEF MgrPause
<1>4. NodeEnable("mgr", n, "cycleOn", TRUE)
  BY <1>2 DEF MgrPause, NodeEnable, OpdEnable, Assert, Acquire, Leave, Set
<1>5. "cycleOn" \in NodeJobs \cap Cycle /\ "cycleOn" \notin Begin
  BY DEF NodeJobs, Cycle, Begin
<1>6. /\ PlaceInv' /\ ((\E q : Moves("mgr", q)) \/ UNCHANGED place)
      /\ enable' \in [Nodes -> BOOLEAN] /\ halted' \in {halted, TRUE}
      /\ \/ /\ mgr'.at \notin Begin \cup {"pause"} /\ mgr'.job = "cycleOn"
            /\ mgr'.card = n
         \/ mgr' = mgr /\ halted' = TRUE
  BY <1>1, <1>4, <1>5, ManagerEnable
<1>7. PowerType' /\ PowerInv'
  BY <1>1, <1>3, <1>6, ManagerPower
<1>8. TableType'
  BY <1>3, <1>6 DEF IInv, TableType
<1>9. EventType'
  <2>1. halted' \in BOOLEAN
    BY <1>6 DEF IInv, EventType
  <2> QED  BY <1>3, <2>1 DEF IInv, EventType, events
<1>10. \A m \in Nodes : InCycle(m)' <=> InCycle(m)
  BY <1>1, <1>2, <1>5, <1>6 DEF InCycle
<1>11. mgr'.at \in Begin \/ mgr'.job \in Begin => mgr.at \in Begin \/ mgr.job \in Begin
  BY <1>5, <1>6
<1>12. CountInv'
  BY <1>1, <1>3, <1>10, <1>11 DEF IInv, CountInv, CyclesBounded
<1> QED  BY <1>6, <1>7, <1>8, <1>9, <1>12 DEF IInv

(* The nodes are disabled at the end of the thread. *)
LEMMA MgrExitIInv == ASSUME IInv, MgrExit PROVE IInv'
<1>1. mgr.at = "exit" /\ "exit" \notin Transfers \cup Begin \cup Cycle \cup {"pause", "ret"}
  BY DEF MgrExit, Manager, Transfers, Begin, Cycle
<1>2. mgr.job \notin Cycle
  BY <1>1, ManagerMoves
<1>3. PICK n \in Nodes : n = mgr.card
  BY <1>1, ManagerMoves
<1>4. UNCHANGED <<power, known, attempts, state, cycled, heard, term>>
      /\ pending' = FALSE /\ flags' = 0
  BY DEF MgrExit
<1>5. NodeEnable("mgr", n, "exit", FALSE)
  BY <1>3 DEF MgrExit, NodeEnable, OpdEnable, Assert, Acquire, Leave, Set
<1>6. "exit" \in NodeJobs
  BY DEF NodeJobs
<1>7. /\ PlaceInv' /\ ((\E q : Moves("mgr", q)) \/ UNCHANGED place)
      /\ enable' \in [Nodes -> BOOLEAN] /\ halted' \in {halted, TRUE}
      /\ mgr' = mgr \/ (mgr'.at \notin Begin \cup {"pause"} /\ mgr'.job = "exit")
  BY <1>1, <1>5, <1>6, ManagerEnable
<1>8. PowerType' /\ PowerInv'
  BY <1>1, <1>4, <1>7, ManagerPower
<1>9. TableType'
  BY <1>4, <1>7 DEF IInv, TableType
<1>10. EventType'
  <2>1. halted' \in BOOLEAN
    BY <1>7 DEF IInv, EventType
  <2>2. flags' \in 0 .. 15
    BY <1>4
  <2> QED  BY <1>4, <2>1, <2>2 DEF IInv, EventType
<1>11. CountInv'
  <2>1. PICK a : a = attempts
    OBVIOUS
  <2>2. attempts' = a /\ a \in [Nodes -> 0 .. Limit]
        /\ \A m \in Nodes : a[m] = attempts[m] \/ cycled[m] = 0
    BY <1>4, <2>1 DEF IInv, TableType
  <2>3. mgr'.at # "pause" /\ mgr'.job \notin Cycle
        /\ (mgr'.at \in Begin \/ mgr'.job \in Begin
              => mgr.at \in Begin \/ mgr.job \in Begin)
    BY <1>1, <1>2, <1>7
  <2>4. ~ halted' => ~ halted
    BY <1>7, HaltedStays
  <2> QED  BY <1>1, <1>2, <1>4, <2>2, <2>3, <2>4, CountOutside
<1> QED  BY <1>7, <1>8, <1>9, <1>10, <1>11 DEF IInv

(* ... and the subsystem is stopped. *)
LEMMA MgrCloseIInv == ASSUME IInv, MgrClose PROVE IInv'
<1>1. mgr.at = "close" /\ "close" \notin Transfers \cup {"pause", "ret"}
  BY DEF MgrClose, Manager, Transfers
<1>2. "mgr" \in Threads /\ thread["mgr"].at # "start" /\ mgr.job \notin Cycle
  BY <1>1, ManagerMoves
<1>3. UNCHANGED <<dev, byNode, missed, table, events, term>>
  BY DEF MgrClose
<1>4. StopFrom("mgr", Place("stop", "ret", 0, FALSE, 0), Cards, chip, dev)
  BY DEF MgrClose
<1>5. PICK p : p = Place("stop", "ret", 0, FALSE, 0)
  OBVIOUS
<1>6. PowerType' /\ PowerInv' /\ halted' \in {halted, TRUE}
      /\ (Result("mgr", p) \/ UNCHANGED place)
  BY <1>2, <1>3, <1>4, <1>5, OpdStopPower
<1>7. p.job = "stop" /\ "stop" \notin Cycle \cup Begin
  BY <1>5 DEF Place, Cycle, Begin
<1>8. /\ PlaceInv'
      /\ mgr' = mgr \/ (mgr'.at \notin Begin \cup {"pause"} /\ mgr'.job = "stop")
  <2>1. CASE Result("mgr", p)
    BY <1>1, <1>7, <2>1, ManagerResult
  <2>2. CASE UNCHANGED place
    BY <2>2, StayKeepsPlaces DEF IInv, place, mgr
  <2> QED  BY <1>6, <2>1, <2>2
<1>9. TableType'
  BY <1>3 DEF IInv, TableType, table
<1>10. EventType'
  <2>1. halted' \in BOOLEAN
    BY <1>6 DEF IInv, EventType
  <2> QED  BY <1>3, <2>1 DEF IInv, EventType, events
<1>11. CountInv'
  <2>1. PICK a : a = attempts
    OBVIOUS
  <2>2. attempts' = a /\ a \in [Nodes -> 0 .. Limit] /\ UNCHANGED <<cycled, state>>
        /\ \A m \in Nodes : a[m] = attempts[m] \/ cycled[m] = 0
    BY <1>3, <2>1 DEF IInv, TableType, table
  <2>3. mgr'.at # "pause" /\ mgr'.job \notin Cycle
        /\ (mgr'.at \in Begin \/ mgr'.job \in Begin
              => mgr.at \in Begin \/ mgr.job \in Begin)
    BY <1>1, <1>2, <1>7, <1>8
  <2>4. ~ halted' => ~ halted
    BY <1>6, HaltedStays
  <2> QED  BY <1>1, <1>2, <2>2, <2>3, <2>4, CountOutside
<1> QED  BY <1>6, <1>8, <1>9, <1>10, <1>11 DEF IInv

----------------------------------------------------------------------------
(* The environment. *)

(* The union of two sets of flags is one. *)
LEMMA OrType == \A a, b : Or(a, b) \in 0 .. 15
BY DEF Or

(* A heartbeat that reports a node alive forgets its power cycles. *)
LEMMA HeartbeatIInv ==
  ASSUME IInv, NEW n \in Nodes, NEW s \in Reports, Heartbeat(n, s)
  PROVE  IInv'
<1>1. s \in {"unknown", "alive", "idle"}
  BY NodeMgrAssumption
<1>2. UNCHANGED <<power, place, known, enable, attempts, term, halted>>
  BY DEF Heartbeat
<1>3. PlaceInv' /\ mgr' = mgr
  BY <1>2, StayKeepsPlaces DEF IInv, place, mgr
<1>4. PowerType' /\ PowerInv'
  BY <1>2 DEF IInv, power, place, PowerType, PowerInv, AssertWindow
<1>5. \/ /\ state' = [state EXCEPT ![n] = s]
         /\ cycled' = [cycled EXCEPT ![n] = IF s = "alive" THEN 0 ELSE cycled[n]]
      \/ UNCHANGED <<state, cycled>>
  BY DEF Heartbeat, Set
<1>6. TableType'
  BY <1>1, <1>2, <1>5 DEF IInv, TableType
<1>7. EventType'
  <2>1. heard' \in [Nodes -> {"unknown", "alive", "idle"}]
    BY <1>1 DEF Heartbeat, Set, IInv, EventType
  <2>2. pending' \in BOOLEAN
    BY DEF Heartbeat, IInv, EventType
  <2>3. flags' \in 0 .. 15
    BY OrType DEF Heartbeat, IInv, EventType
  <2> QED  BY <1>2, <2>1, <2>2, <2>3 DEF IInv, EventType
<1>8. CountInv'
  <2>1. \A m \in Nodes : InCycle(m)' <=> InCycle(m)
    BY <1>3 DEF InCycle
  <2>2. \A m \in Nodes : (state'[m] = "alive" => cycled'[m] = 0) /\ cycled'[m] <= cycled[m]
                         /\ cycled'[m] \in Nat /\ cycled[m] \in Nat /\ attempts[m] \in Nat
    BY <1>5, <1>6, NodeMgrAssumption DEF IInv, TableType, CountInv
  <2>3. \A m \in Nodes : cycled[m] = 0 => cycled'[m] = 0
    BY <2>2
  <2>4. CyclesBounded'
    BY <2>2, NodeMgrAssumption DEF IInv, CountInv, CyclesBounded
  <2>5. ASSUME NEW m \in Nodes, ~ halted'
        PROVE  cycled'[m] <= attempts'[m] + (IF InCycle(m)' THEN 1 ELSE 0)
    <3>1. cycled[m] <= attempts[m] + (IF InCycle(m) THEN 1 ELSE 0)
      BY <1>2, <2>5 DEF IInv, CountInv
    <3>2. CASE InCycle(m)
      BY <1>2, <2>1, <2>2, <3>1, <3>2
    <3>3. CASE ~ InCycle(m)
      BY <1>2, <2>1, <2>2, <3>1, <3>3
    <3> QED  BY <3>2, <3>3
  <2> QED  BY <1>2, <1>3, <2>1, <2>2, <2>3, <2>4, <2>5 DEF IInv, CountInv
<1> QED  BY <1>3, <1>4, <1>6, <1>7, <1>8 DEF IInv

LEMMA TerminateIInv == ASSUME IInv, Terminate PROVE IInv'
<1>1. UNCHANGED <<power, place, table, events, halted>> /\ term' = TRUE
  BY DEF Terminate
<1>2. PlaceInv' /\ PowerType' /\ PowerInv'
  BY <1>1, StayKeepsPlaces DEF IInv, power, place, PowerType, PowerInv, AssertWindow
<1>3. TableType' /\ EventType'
  BY <1>1 DEF IInv, table, events, TableType, EventType
<1>4. CountInv'
  BY <1>1 DEF IInv, place, table, CountInv, CyclesBounded, InCycle, mgr
<1> QED  BY <1>2, <1>3, <1>4 DEF IInv

(* It holds before anything has run. *)
LEMMA InitIInv == Init => IInv
<1> SUFFICES ASSUME Init PROVE IInv
  OBVIOUS
<1>1. PowerType /\ PowerInv
  BY DEF Init, PowerType, PowerInv, AssertWindow
<1>2. TableType /\ EventType
  <2>1. TableType
    BY NodeMgrAssumption DEF Init, TableType
  <2>2. heard \in [Nodes -> {"unknown", "alive", "idle"}] /\ flags \in 0 .. 15
    BY DEF Init
  <2>3. pending \in BOOLEAN /\ term \in BOOLEAN /\ halted \in BOOLEAN
    BY DEF Init
  <2> QED  BY <2>1, <2>2, <2>3 DEF EventType
<1>3. Booting \in PlaceType /\ Idle \in PlaceType /\ Booting.at = "boot" /\ Idle.at = "idle"
      /\ Booting.job = "none" /\ Idle.job = "none"
  BY CardsAreNaturals DEF Booting, Idle, Place, PlaceType, Jobs, Steps
<1>4. /\ {"boot", "idle"} \cap (Transfers \cup {"nap", "read", "woken"}) = {}
      /\ "none" \notin Cycle
  BY DEF Transfers, Cycle
<1>5. thread = [t \in Threads |-> IF t = "mgr" THEN Booting ELSE Idle] /\ bus = <<>>
  BY DEF Init
<1>6. \A t \in Threads : OKPlace(thread[t]) /\ thread[t].at \notin Transfers
  BY <1>3, <1>4, <1>5 DEF OKPlace
<1>7. PlaceInv
  BY <1>3, <1>5, <1>6 DEF PlaceInv, BusDiscipline
<1>8. mgr = Booting
  BY <1>5 DEF mgr, Threads
<1>9. CountInv
  BY <1>3, <1>4, <1>8, NodeMgrAssumption DEF Init, CountInv, CyclesBounded, InCycle
<1> QED  BY <1>1, <1>2, <1>7, <1>9 DEF IInv

(* A reset brings the same state. *)
LEMMA ResetIInv == ASSUME Reset PROVE IInv'
<1>1. PowerType' /\ PowerInv'
  BY DEF Reset, PowerType, PowerInv, AssertWindow
<1>2. TableType' /\ EventType'
  <2>1. TableType'
    BY NodeMgrAssumption DEF Reset, TableType
  <2>2. heard' \in [Nodes -> {"unknown", "alive", "idle"}] /\ flags' \in 0 .. 15
    BY DEF Reset
  <2>3. pending' \in BOOLEAN /\ term' \in BOOLEAN /\ halted' \in BOOLEAN
    BY DEF Reset
  <2> QED  BY <2>1, <2>2, <2>3 DEF EventType
<1>3. Booting \in PlaceType /\ Idle \in PlaceType /\ Booting.at = "boot" /\ Idle.at = "idle"
      /\ Booting.job = "none" /\ Idle.job = "none"
  BY CardsAreNaturals DEF Booting, Idle, Place, PlaceType, Jobs, Steps
<1>4. /\ {"boot", "idle"} \cap (Transfers \cup {"nap", "read", "woken"}) = {}
      /\ "none" \notin Cycle
  BY DEF Transfers, Cycle
<1>5. thread' = [t \in Threads |-> IF t = "mgr" THEN Booting ELSE Idle] /\ bus' = <<>>
  BY DEF Reset
<1>6. \A t \in Threads : OKPlace(thread'[t]) /\ thread'[t].at \notin Transfers
  BY <1>3, <1>4, <1>5 DEF OKPlace
<1>7. PlaceInv'
  BY <1>3, <1>5, <1>6 DEF PlaceInv, BusDiscipline
<1>8. mgr' = Booting
  BY <1>5 DEF mgr, Threads
<1>9. CountInv'
  BY <1>3, <1>4, <1>8, NodeMgrAssumption DEF Reset, CountInv, CyclesBounded, InCycle
<1> QED  BY <1>1, <1>2, <1>7, <1>9 DEF IInv

LEMMA StutterIInv == ASSUME IInv, UNCHANGED vars PROVE IInv'
<1>1. UNCHANGED <<power, place, table, events, term, halted>>
  BY DEF vars
<1>2. PlaceInv' /\ PowerType' /\ PowerInv'
  BY <1>1, StayKeepsPlaces DEF IInv, power, place, PowerType, PowerInv, AssertWindow
<1>3. TableType' /\ EventType'
  BY <1>1 DEF IInv, table, events, TableType, EventType
<1>4. CountInv'
  BY <1>1 DEF IInv, place, table, CountInv, CyclesBounded, InCycle, mgr
<1> QED  BY <1>2, <1>3, <1>4 DEF IInv

(* Every step keeps the invariant. *)
LEMMA NextIInv == IInv /\ [Next]_vars => IInv'
<1> SUFFICES ASSUME IInv, [Next]_vars PROVE IInv'
  OBVIOUS
<1>1. ASSUME NEW t \in Ground, Command(t) PROVE IInv'
  BY <1>1, NodeCommandIInv, EnableCommandIInv, StartCommandIInv, StopCommandIInv,
     ScanCommandIInv, ReadCommandIInv DEF Command
<1>2. ASSUME NEW t \in Threads, Transfer(t) PROVE IInv'
  BY <1>2, ProbeIInv, StopIInv, StopOffIInv, StartIInv, PinIInv, ReadIInv, NapIInv,
     WarmIInv DEF Transfer
<1>3. CASE MgrStep
  BY <1>3, MgrBootIInv, MgrSetupIInv, MgrReturnIInv, MgrWakeIInv, MgrHandleIInv,
     MgrPauseIInv, MgrExitIInv, MgrCloseIInv DEF MgrStep
<1>4. ASSUME NEW n \in Nodes, NEW s \in Reports, Heartbeat(n, s) PROVE IInv'
  BY <1>4, HeartbeatIInv
<1>5. CASE Terminate
  BY <1>5, TerminateIInv
<1>6. CASE Reset
  BY <1>6, ResetIInv
<1>7. CASE UNCHANGED vars
  BY <1>7, StutterIInv
<1> QED  BY <1>1, <1>2, <1>3, <1>4, <1>5, <1>6, <1>7 DEF Next

----------------------------------------------------------------------------
(* The invariant holds in every reachable state. *)
THEOREM NodeMgrInvariant == Spec => []IInv
BY InitIInv, NextIInv, PTL DEF Spec

(* Every variable of the node manager keeps its type. *)
THEOREM NodeMgrTypes == Spec => []TypeOK
<1>1. IInv => TypeOK
  BY DEF IInv, PowerType, TableType, EventType, PlaceInv, PlaceType, TypeOK
<1> QED  BY <1>1, NodeMgrInvariant, PTL

(* A thread waits for the bus or owns it exactly while it is at a transfer,*)
(* and once.                                                               *)
THEOREM NodeMgrBus == Spec => []BusDiscipline
<1>1. IInv => BusDiscipline
  BY DEF IInv, PlaceInv
<1> QED  BY <1>1, NodeMgrInvariant, PTL

(* A chip that drives the pins of its card is one opd_enable can switch    *)
(* off, unless it missed its stop.                                         *)
THEOREM NodeMgrDriven == Spec => []DrivenIsControlled
<1>1. IInv => DrivenIsControlled
  BY DEF IInv, PowerInv, DrivenIsControlled
<1> QED  BY <1>1, NodeMgrInvariant, PTL

(* A valid device is not ready only while a restart is about to start it.  *)
THEOREM NodeMgrAssert == Spec => []AssertWindow
<1>1. IInv => AssertWindow
  BY DEF IInv, PowerInv
<1> QED  BY <1>1, NodeMgrInvariant, PTL

(* No card is power cycled more than Limit times without a sign of life.   *)
THEOREM NodeMgrCycles == Spec => []CyclesBounded
<1>1. IInv => CyclesBounded
  BY DEF IInv, CountInv
<1> QED  BY <1>1, NodeMgrInvariant, PTL
==============================================================================
