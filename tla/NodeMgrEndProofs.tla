-------------------------- MODULE NodeMgrEndProofs --------------------------
(***************************************************************************)
(* Why no thread spends for ever in opd.c: the safety part of the property *)
(* CommandsReturn, for every table of nodes and any number of threads.     *)
(*                                                                         *)
(* A thread in a function of opd.c has less of it left after each of its   *)
(* own steps, and the steps of others leave it where it is.  In the queue  *)
(* for the bus nobody is overtaken: a step leaves the queue as it is, but  *)
(* for new arrivals, or moves all behind its head one place up, and every  *)
(* transfer of the head does the latter.  That the head makes its transfer *)
(* is the fairness of the model, and left to TLC.                          *)
(***************************************************************************)
EXTENDS NodeMgrProofs

(* A thread in a function of opd.c, at a transfer or asleep between two.   *)
InFlight(t) == thread[t].at \in Transfers \cup {"warm", "nap"}

(* What is left to do with one card, by the transfer that is next. *)
Stage(x) ==
  CASE x = "probe" -> 3
    [] x = "stop" -> 2
    [] x \in {"start", "fail", "nap"} -> 1
    [] OTHER -> 0

(* The place q is nearer to the function's end than p: outside, or out of  *)
(* the sleep that begins it, or at a later card, or there with fewer       *)
(* registers left to read, or nearer to the end with this one.             *)
Nearer(p, q) ==
  \/ q.at \in {"ret", "idle"}
  \/ /\ q.job = p.job /\ q.at \in Transfers \cup {"nap"}
     /\ \/ p.at = "warm"
        \/ q.card > p.card
        \/ q.card = p.card /\ q.left < p.left
        \/ q.card = p.card /\ q.left = p.left /\ Stage(q.at) < Stage(p.at)

(* Who waits in the queue keeps the place ... *)
Waits == Len(bus') >= Len(bus) /\ \A i \in 1 .. Len(bus) : bus'[i] = bus[i]

(* ... or gets the one before, as the head has gone. *)
Advances ==
  /\ bus # <<>> /\ Len(bus') >= Len(bus) - 1
  /\ \A i \in 2 .. Len(bus) : bus'[i - 1] = bus[i]

----------------------------------------------------------------------------
(* Every step is one of a single thread, and what it does to the queue is  *)
(* to release the bus, to join the queue, or both.                         *)
Turn(t) ==
  \/ UNCHANGED place
  \/ /\ \A u \in DOMAIN thread \ {t} : thread'[u] = thread[u]
     /\ bus' \in {bus, Released(t), Append(bus, t), Append(Released(t), t)}

(* Joining the queue, perhaps after a release. *)
LEMMA AcquireTurn ==
  ASSUME NEW t, NEW p, NEW x, NEW c, Acquire(t, p, x, c) PROVE Turn(t)
BY DEF Acquire, Set, Turn

(* Leaving opd.c. *)
LEMMA LeaveTurn == ASSUME NEW t, NEW p, Leave(t, p) PROVE Turn(t)
BY DEF Leave, Set, Turn

(* An assertion that fails moves nothing. *)
LEMMA AssertTurn ==
  ASSUME NEW t, NEW p, NEW x, NEW c, Assert(t, p, x, c) PROVE Turn(t)
BY AcquireTurn DEF Assert, Turn, place

(* The next probe of opd_scan. *)
LEMMA NextProbeTurn == ASSUME NEW t, NextProbe(t) PROVE Turn(t)
BY DEF NextProbe, Acquire, Leave, Set, Turn

(* The way of opd_stop. *)
LEMMA StopFromTurn ==
  ASSUME NEW t, NEW p, NEW todo, NEW ch, NEW dv, StopFrom(t, p, todo, ch, dv)
  PROVE  Turn(t)
<1>1. (\E c : Acquire(t, p, "off", c)) \/ Leave(t, p) \/ UNCHANGED place
  BY DEF StopFrom, place
<1> QED  BY <1>1, AcquireTurn, LeaveTurn DEF Turn

(* opd_start sleeps before it needs the bus. *)
LEMMA OpdStartTurn == ASSUME NEW t, NEW j, OpdStart(t, j) PROVE Turn(t)
BY DEF OpdStart, Set, Turn

(* opd_enable. *)
LEMMA OpdEnableTurn ==
  ASSUME NEW t, NEW c, NEW j, NEW b, OpdEnable(t, c, j, b) PROVE Turn(t)
<1> DEFINE p == Place(j, "ret", c, b, 0)
<1>1. Assert(t, p, "pin", c) \/ Leave(t, p)
  BY DEF OpdEnable, Assert, Acquire, Leave, Set
<1> HIDE DEF p
<1> QED  BY <1>1, AssertTurn, LeaveTurn

(* node_enable. *)
LEMMA NodeEnableTurn ==
  ASSUME NEW t, NEW n, NEW j, NEW b, NodeEnable(t, n, j, b) PROVE Turn(t)
<1> DEFINE p == Place(j, "ret", n, b, 0)
<1>1. OpdEnable(t, n, j, b) \/ Leave(t, p)
  BY DEF NodeEnable, Leave, Set
<1> HIDE DEF p
<1> QED  BY <1>1, OpdEnableTurn, LeaveTurn

(* Transfers and sleeps. *)
LEMMA TransferTurn == ASSUME NEW t, Transfer(t) PROVE Turn(t)
<1>1. CASE Probe(t)
  BY <1>1, NextProbeTurn DEF Probe, Acquire, Set, Turn
<1>2. CASE Stop(t)
  BY <1>2, NextProbeTurn DEF Stop, Acquire, Set, Turn
<1>3. CASE StopOff(t)
  BY <1>3 DEF StopOff, StopFrom, Acquire, Leave, Set, Turn, place
<1>4. CASE Start(t)
  BY <1>4, NextProbeTurn DEF Start
<1>5. CASE Pin(t)
  BY <1>5 DEF Pin, Leave, Set, Turn
<1>6. CASE Read(t)
  BY <1>6 DEF Read, Leave, Assert, Acquire, Set, Turn, place
<1>7. CASE Nap(t)
  BY <1>7 DEF Nap, Assert, Acquire, Set, Turn, place
<1>8. CASE Warm(t)
  BY <1>8 DEF Warm, Acquire, Set, Turn, place
<1> QED  BY <1>1, <1>2, <1>3, <1>4, <1>5, <1>6, <1>7, <1>8 DEF Transfer

(* A command begins on a thread that is idle. *)
LEMMA CommandTurn == ASSUME NEW t, Command(t) PROVE Turn(t) /\ ~ InFlight(t)
<1>1. Free(t)
  BY DEF Command, NodeCommand, EnableCommand, StartCommand, StopCommand, ScanCommand,
     ReadCommand
<1>2. ~ InFlight(t)
  BY <1>1 DEF Free, InFlight, Transfers
<1>3. Turn(t)
  <2>1. CASE NodeCommand(t)
    <3>1. PICK n \in Commanded, b \in BOOLEAN : NodeEnable(t, n, "node", b)
      BY <2>1 DEF NodeCommand
    <3> QED  BY <3>1, NodeEnableTurn
  <2>2. CASE EnableCommand(t)
    <3>1. PICK c \in Cards, b \in BOOLEAN : OpdEnable(t, c, "opd", b)
      BY <2>2 DEF EnableCommand
    <3> QED  BY <3>1, OpdEnableTurn
  <2>3. CASE StartCommand(t)
    BY <2>3, OpdStartTurn DEF StartCommand
  <2>4. CASE StopCommand(t)
    BY <2>4, StopFromTurn DEF StopCommand
  <2>5. CASE ScanCommand(t)
    <3>1. PICK p, c : Acquire(t, p, "probe", c)
      BY <2>5 DEF ScanCommand
    <3> QED  BY <3>1, AcquireTurn
  <2>6. CASE ReadCommand(t)
    <3>1. PICK p, c : Assert(t, p, "read", c)
      BY <2>6 DEF ReadCommand
    <3> QED  BY <3>1, AssertTurn
  <2> QED  BY <2>1, <2>2, <2>3, <2>4, <2>5, <2>6 DEF Command
<1> QED  BY <1>2, <1>3

(* The manager's own steps are made outside opd.c. *)
LEMMA MgrTurn == ASSUME MgrStep PROVE Turn("mgr") /\ ~ InFlight("mgr")
<1>1. \E x \in {"boot", "setup", "ret", "wait", "woken", "pause", "exit", "close"} :
        thread["mgr"].at = x
  BY DEF MgrStep, MgrBoot, MgrSetup, MgrReturn, MgrWake, MgrHandle, MgrPause, MgrExit,
     MgrClose, Manager, mgr
<1>2. ~ InFlight("mgr")
  BY <1>1 DEF InFlight, Transfers
<1>3. ASSUME NEW x, NEW n, Go(x, n) PROVE Turn("mgr")
  BY <1>3 DEF Go, Set, Turn
<1>4. ASSUME Loop PROVE Turn("mgr")
  BY <1>3, <1>4 DEF Loop
<1>5. Turn("mgr")
  <2>1. CASE MgrBoot
    BY <2>1, OpdStartTurn DEF MgrBoot
  <2>2. CASE MgrSetup
    <3>1. PICK n : n = mgr.card
      OBVIOUS
    <3>2. PICK p : p = Place("setup", "ret", n, FALSE, 0)
      OBVIOUS
    <3>3. CASE n \notin Cards \/ n \in Autostart
      <4>1. NodeEnable("mgr", n, "setup", TRUE)
        BY <2>2, <3>1, <3>3 DEF MgrSetup
      <4> QED  BY <4>1, NodeEnableTurn
    <3>4. CASE ~ (n \notin Cards \/ n \in Autostart)
      <4>1. Leave("mgr", p)
        BY <2>2, <3>1, <3>2, <3>4 DEF MgrSetup, Leave, Set
      <4> QED  BY <4>1, LeaveTurn
    <3> QED  BY <3>3, <3>4
  <2>3. CASE MgrReturn
    <3>1. (\E x, n : Go(x, n)) \/ Loop
      BY <2>3 DEF MgrReturn, Manager, mgr
    <3> QED  BY <3>1, <1>3, <1>4
  <2>4. CASE MgrWake
    BY <2>4, <1>3 DEF MgrWake
  <2>5. CASE MgrHandle
    <3>1. (\E n, j, b : NodeEnable("mgr", n, j, b)) \/ Loop
      BY <2>5 DEF MgrHandle
    <3> QED  BY <3>1, <1>4, NodeEnableTurn
  <2>6. CASE MgrPause
    BY <2>6, NodeEnableTurn DEF MgrPause
  <2>7. CASE MgrExit
    BY <2>7, NodeEnableTurn DEF MgrExit
  <2>8. CASE MgrClose
    BY <2>8, StopFromTurn DEF MgrClose
  <2> QED  BY <2>1, <2>2, <2>3, <2>4, <2>5, <2>6, <2>7, <2>8 DEF MgrStep
<1> QED  BY <1>2, <1>5

(* Nobody in the queue is overtaken by such a step. *)
LEMMA TurnQueue ==
  ASSUME bus \in Seq(Threads), NEW t \in Threads, Turn(t) PROVE Waits \/ Advances
<1>1. bus' \in {bus, Released(t), Append(bus, t), Append(Released(t), t)}
  BY DEF Turn, place
<1>2. CASE bus' = bus \/ bus' = Append(bus, t)
  BY <1>2 DEF Waits
<1>3. CASE Released(t) = bus
  BY <1>1, <1>2, <1>3
<1>4. CASE Released(t) # bus
  <2>1. bus # <<>> /\ Released(t) = Tail(bus)
    BY <1>4 DEF Released
  <2>2. /\ Tail(bus) \in Seq(Threads) /\ Len(Tail(bus)) = Len(bus) - 1
        /\ \A i \in 1 .. Len(bus) - 1 : Tail(bus)[i] = bus[i + 1]
    BY <2>1
  <2>3. CASE bus' = Tail(bus)
    BY <2>1, <2>2, <2>3 DEF Advances
  <2>4. CASE bus' = Append(Tail(bus), t)
    <3>1. \A i \in 1 .. Len(bus) - 1 : bus'[i] = Tail(bus)[i]
      BY <2>2, <2>4
    <3>2. Len(bus') = Len(bus)
      BY <2>2, <2>4
    <3> QED  BY <2>1, <2>2, <3>1, <3>2 DEF Advances
  <2> QED  BY <1>1, <1>2, <2>1, <2>3, <2>4
<1> QED  BY <1>3, <1>4

----------------------------------------------------------------------------
(* Where a thread is that joins the queue ... *)
LEMMA AcquirePlace ==
  ASSUME PlaceInv, NEW t \in Threads, NEW p \in PlaceType, NEW x, NEW c,
         Acquire(t, p, x, c)
  PROVE  /\ thread'[t].at = x /\ thread'[t].card = c
         /\ thread'[t].job = p.job /\ thread'[t].left = p.left
BY DEF Acquire, Set, PlaceInv, PlaceType

(* ... or leaves opd.c. *)
LEMMA LeavePlace ==
  ASSUME PlaceInv, NEW t \in Threads, NEW p \in PlaceType, Leave(t, p), NEW q
  PROVE  Nearer(q, thread'[t])
<1>1. thread'[t].at \in {"ret", "idle"}
  BY DEF Leave, Set, PlaceInv, PlaceType, Idle, Place
<1> QED  BY <1>1 DEF Nearer

(* The next card of opd_scan and opd_stop is a later one. *)
LEMMA BehindIsLater ==
  ASSUME NEW c \in Cards, NEW S \in SUBSET Behind(c), S # {}
  PROVE  First(S) \in Cards /\ First(S) > c
BY FirstIsLeast, CardsAreNaturals DEF Behind

(* opd_scan goes to a later card, or ends. *)
LEMMA NextProbeNearer ==
  ASSUME PlaceInv, NEW t \in Threads, thread[t].card \in Cards, NextProbe(t)
  PROVE  Nearer(thread[t], thread'[t])
<1>1. PICK p \in PlaceType : p = thread[t]
  BY DEF PlaceInv
<1>2. CASE Behind(p.card) = {}
  <2>1. Leave(t, p)
    BY <1>1, <1>2 DEF NextProbe, Leave, Set
  <2> QED  BY <2>1, LeavePlace
<1>3. CASE Behind(p.card) # {}
  <2>1. PICK d : d = First(Behind(p.card))
    OBVIOUS
  <2>2. d > p.card
    BY <1>1, <1>3, <2>1, BehindIsLater
  <2>3. Acquire(t, p, "probe", d)
    BY <1>1, <1>3, <2>1 DEF NextProbe, Acquire, Set
  <2>4. /\ thread'[t].at = "probe" /\ thread'[t].card = d
        /\ thread'[t].job = p.job
    BY <2>3, AcquirePlace
  <2> QED  BY <1>1, <2>2, <2>4 DEF Nearer, Transfers
<1> QED  BY <1>2, <1>3

(* With the same card, a later stage is nearer. *)
LEMMA StageNearer ==
  ASSUME PlaceInv, NEW t \in Threads, NEW x \in Transfers, Stage(x) < Stage(thread[t].at),
         Acquire(t, thread[t], x, thread[t].card)
  PROVE  Nearer(thread[t], thread'[t])
<1>1. PICK p \in PlaceType : p = thread[t]
  BY DEF PlaceInv
<1>2. Acquire(t, p, x, p.card)
  BY <1>1 DEF Acquire, Set
<1>3. /\ thread'[t].at = x /\ thread'[t].card = p.card
      /\ thread'[t].job = p.job /\ thread'[t].left = p.left
  BY <1>2, AcquirePlace
<1> QED  BY <1>1, <1>3 DEF Nearer

(* A transfer or the end of a sleep brings its thread nearer to the end of *)
(* the function, or an assertion stops all.                                *)
LEMMA TransferNearer ==
  ASSUME IInv, NEW t \in Threads, Transfer(t)
  PROVE  UNCHANGED place \/ Nearer(thread[t], thread'[t])
<1>0. PlaceInv
  BY DEF IInv
<1>1. PICK p \in PlaceType : p = thread[t]
  BY <1>0 DEF PlaceInv
<1>2. \A x \in Transfers : At(t, x) => p.card \in Cards /\ p.at = x
  BY <1>1, TransferPlace
<1>3. {"probe", "stop", "fail", "start", "off", "pin", "read"} = Transfers
  BY DEF Transfers
<1>4. CASE Probe(t)
  <2>1. p.card \in Cards /\ p.at = "probe"
    BY <1>2, <1>3, <1>4 DEF Probe
  <2>2. \/ NextProbe(t)
        \/ \E x \in {"stop", "fail", "start"} : Acquire(t, thread[t], x, p.card)
    BY <1>1, <1>4 DEF Probe, Acquire, Set
  <2>3. \A x \in {"stop", "fail", "start"} : x \in Transfers /\ Stage(x) < Stage("probe")
    BY <1>3 DEF Stage
  <2>4. ASSUME NEW x \in {"stop", "fail", "start"}, Acquire(t, thread[t], x, p.card)
        PROVE  Nearer(thread[t], thread'[t])
    <3>1. Acquire(t, thread[t], x, thread[t].card)
      BY <1>1, <2>4 DEF Acquire, Set
    <3>2. x \in Transfers /\ Stage(x) < Stage(thread[t].at)
      BY <1>1, <2>1, <2>3
    <3> QED  BY <1>0, <3>1, <3>2, StageNearer
  <2> QED  BY <1>0, <1>1, <2>1, <2>2, <2>4, NextProbeNearer
<1>5. CASE Stop(t)
  <2>1. p.card \in Cards /\ p.at \in {"stop", "fail"}
    BY <1>2, <1>3, <1>5 DEF Stop
  <2>2. CASE p.at = "stop"
    <3>1. Acquire(t, thread[t], "start", thread[t].card)
      BY <1>1, <1>5, <2>2 DEF Stop, Acquire, Set
    <3>2. "start" \in Transfers /\ Stage("start") < Stage(thread[t].at)
      BY <1>1, <1>3, <2>2 DEF Stage
    <3> QED  BY <1>0, <3>1, <3>2, StageNearer
  <2>3. CASE p.at # "stop"
    <3>1. NextProbe(t)
      BY <1>1, <1>5, <2>3 DEF Stop
    <3> QED  BY <1>0, <1>1, <2>1, <3>1, NextProbeNearer
  <2> QED  BY <2>2, <2>3
<1>6. CASE StopOff(t)
  <2>1. p.card \in Cards /\ p.at = "off"
    BY <1>2, <1>3, <1>6 DEF StopOff
  <2>2. PICK c \in Cards : c = p.card
    BY <2>1
  <2>3. PICK x : StopFrom(t, p, {c} \cup Behind(c), [chip EXCEPT ![c] = x], dev')
    <3>1. PICK x \in Stopped(c) :
            StopFrom(t, thread[t], {c} \cup Behind(c), [chip EXCEPT ![c] = x], dev')
      BY <1>1, <1>6, <2>2 DEF StopOff
    <3> QED  BY <1>1, <3>1 DEF StopFrom, Acquire, Leave, Set
  <2>4. dev'[c] = "stop"
    BY <1>1, <1>6, <2>2 DEF StopOff, Set, IInv, PowerType
  <2> DEFINE ready == {d \in {c} \cup Behind(c) : dev'[d] = "ready"}
  <2>5. ready \in SUBSET Behind(c)
    BY <2>4
  <2>6. CASE ready # {}
    <3>1. PICK d : d = First(ready)
      OBVIOUS
    <3>2. Acquire(t, p, "off", d)
      BY <2>3, <2>6, <3>1 DEF StopFrom, Acquire, Set
    <3>3. d > p.card
      BY <2>2, <2>5, <2>6, <3>1, BehindIsLater
    <3>4. thread'[t].at = "off" /\ thread'[t].card = d /\ thread'[t].job = p.job
      BY <1>0, <3>2, AcquirePlace
    <3> QED  BY <1>1, <1>3, <3>3, <3>4 DEF Nearer
  <2>7. CASE ready = {}
    <3>1. Leave(t, p) \/ UNCHANGED place
      BY <2>3, <2>7 DEF StopFrom, place
    <3> QED  BY <1>0, <3>1, LeavePlace
  <2> QED  BY <2>6, <2>7
<1>7. CASE Start(t)
  BY <1>0, <1>1, <1>2, <1>3, <1>7, NextProbeNearer DEF Start
<1>8. CASE Pin(t)
  <2>1. Leave(t, p)
    BY <1>1, <1>8 DEF Pin, Leave, Set
  <2> QED  BY <1>0, <2>1, LeavePlace
<1>9. CASE Read(t)
  <2>1. p.at = "read" /\ p.left \in Nat /\ p.left > 0
    BY <1>0, <1>1, <1>9 DEF Read, At, PlaceInv, OKPlace, PlaceType
  <2>2. PICK k \in Nat : k = p.left - 1
    BY <2>1
  <2>3. PICK q \in PlaceType : q = [p EXCEPT !.left = k]
    BY DEF PlaceType
  <2>4. q.left < p.left /\ q.card = p.card /\ q.job = p.job
    BY <2>1, <2>2, <2>3 DEF PlaceType
  <2>5. \/ Leave(t, q)
        \/ Acquire(t, q, "read", q.card)
        \/ UNCHANGED place
        \/ thread' = [thread EXCEPT ![t] = [q EXCEPT !.at = "nap"]]
    BY <1>1, <1>9, <2>2, <2>3 DEF Read, Assert, Leave, Acquire, Set, place
  <2>6. CASE Leave(t, q)
    BY <1>0, <2>6, LeavePlace
  <2>7. CASE Acquire(t, q, "read", q.card)
    <3>1. /\ thread'[t].at = "read" /\ thread'[t].card = q.card
          /\ thread'[t].job = q.job /\ thread'[t].left = q.left
      BY <1>0, <2>7, AcquirePlace
    <3> QED  BY <1>1, <1>3, <2>4, <3>1 DEF Nearer
  <2>8. CASE thread' = [thread EXCEPT ![t] = [q EXCEPT !.at = "nap"]]
    <3>1. /\ thread'[t].at = "nap" /\ thread'[t].card = q.card
          /\ thread'[t].job = q.job /\ thread'[t].left = q.left
      BY <1>0, <2>8 DEF PlaceInv, PlaceType
    <3> QED  BY <1>1, <2>4, <3>1 DEF Nearer
  <2> QED  BY <2>5, <2>6, <2>7, <2>8
<1>10. CASE Nap(t)
  <2>1. p.at = "nap"
    BY <1>1, <1>10 DEF Nap
  <2>2. Acquire(t, thread[t], "read", thread[t].card) \/ UNCHANGED place
    BY <1>10 DEF Nap, Assert, Acquire, Set, place
  <2>3. "read" \in Transfers /\ Stage("read") < Stage(thread[t].at)
    BY <1>1, <1>3, <2>1 DEF Stage
  <2> QED  BY <1>0, <2>2, <2>3, StageNearer
<1>11. CASE Warm(t)
  <2>1. p.at = "warm"
    BY <1>1, <1>11 DEF Warm
  <2>2. PICK d : d = First(Cards)
    OBVIOUS
  <2>3. Acquire(t, p, "probe", d) \/ UNCHANGED place
    BY <1>1, <1>11, <2>2 DEF Warm, Acquire, Set, place
  <2>4. ASSUME Acquire(t, p, "probe", d)
        PROVE  thread'[t].at = "probe" /\ thread'[t].job = p.job
    BY <1>0, <2>4, AcquirePlace
  <2> QED  BY <1>1, <1>3, <2>1, <2>3, <2>4 DEF Nearer
<1> QED
  BY <1>4, <1>5, <1>6, <1>7, <1>8, <1>9, <1>10, <1>11 DEF Transfer

(* The transfer of the bus's owner hands the bus on, unless it ends all. *)
LEMMA TransferHandsOn ==
  ASSUME NEW t, Transfer(t)
  PROVE  halted' \/ bus' \in {Released(t), Append(Released(t), t)}
<1>1. CASE Probe(t)
  BY <1>1 DEF Probe, NextProbe, Leave, Acquire
<1>2. CASE Stop(t)
  BY <1>2 DEF Stop, NextProbe, Leave, Acquire
<1>3. CASE StopOff(t)
  BY <1>3 DEF StopOff, StopFrom, Leave, Acquire
<1>4. CASE Start(t)
  BY <1>4 DEF Start, NextProbe, Leave, Acquire
<1>5. CASE Pin(t)
  BY <1>5 DEF Pin, Leave
<1>6. CASE Read(t)
  BY <1>6 DEF Read, Assert, Leave, Acquire
<1>7. CASE Nap(t)
  BY <1>7 DEF Nap, Assert, Acquire
<1>8. CASE Warm(t)
  BY <1>8 DEF Warm, Acquire
<1> QED  BY <1>1, <1>2, <1>3, <1>4, <1>5, <1>6, <1>7, <1>8 DEF Transfer

(* The bus handed on is a place gained for all who wait. *)
LEMMA HandedOn ==
  ASSUME bus \in Seq(Threads), NEW t \in Threads, bus # <<>>, Head(bus) = t,
         bus' \in {Released(t), Append(Released(t), t)}
  PROVE  Advances
<1>1. Released(t) = Tail(bus)
  BY DEF Released
<1>2. /\ Tail(bus) \in Seq(Threads) /\ Len(Tail(bus)) = Len(bus) - 1
      /\ \A i \in 1 .. Len(bus) - 1 : Tail(bus)[i] = bus[i + 1]
  OBVIOUS
<1>3. \A i \in 1 .. Len(bus) - 1 : bus'[i] = Tail(bus)[i]
  BY <1>1, <1>2
<1>4. Len(bus') >= Len(bus) - 1
  BY <1>1, <1>2
<1> QED  BY <1>2, <1>3, <1>4 DEF Advances

----------------------------------------------------------------------------
(* A thread in a function of opd.c only ever comes nearer to its end, and  *)
(* no step of another thread throws it back: the scans, status reads,      *)
(* resets and stops of opd.c are made of finitely many transfers, whatever *)
(* the other threads do to the same cards between two of them.             *)
JobShrinks ==
  \A t \in Threads :
    InFlight(t) => Reset \/ thread'[t] = thread[t] \/ Nearer(thread[t], thread'[t])

THEOREM NodeMgrJobsShrink == Spec => [][JobShrinks]_vars
<1>1. ASSUME IInv, Next PROVE JobShrinks
  <2>1. SUFFICES ASSUME NEW t \in Threads, InFlight(t), ~ Reset
                 PROVE  thread'[t] = thread[t] \/ Nearer(thread[t], thread'[t])
    BY DEF JobShrinks
  <2>2. ASSUME NEW u, Turn(u), u # t PROVE thread'[t] = thread[t]
    BY <1>1, <2>2 DEF Turn, place, IInv, PlaceInv
  <2>3. ASSUME NEW u \in Ground, Command(u) PROVE thread'[t] = thread[t]
    BY <2>1, <2>2, <2>3, CommandTurn
  <2>4. ASSUME NEW u \in Threads, Transfer(u)
        PROVE  thread'[t] = thread[t] \/ Nearer(thread[t], thread'[t])
    <3>1. CASE u = t
      BY <1>1, <2>4, <3>1, TransferNearer DEF place
    <3>2. CASE u # t
      BY <2>2, <2>4, <3>2, TransferTurn
    <3> QED  BY <3>1, <3>2
  <2>5. CASE MgrStep
    BY <2>1, <2>2, <2>5, MgrTurn
  <2>6. CASE (\E n \in Nodes, s \in Reports : Heartbeat(n, s)) \/ Terminate
    BY <2>6 DEF Heartbeat, Terminate, place
  <2> QED  BY <1>1, <2>1, <2>3, <2>4, <2>5, <2>6 DEF Next
<1>2. IInv /\ [Next]_vars => [JobShrinks]_vars
  BY <1>1
<1> QED  BY <1>2, NodeMgrInvariant, PTL DEF Spec

(* Nobody is overtaken in the queue of the bus, and with every transfer of *)
(* the owner all who wait come one place nearer to it.                     *)
QueueMoves ==
  /\ Reset \/ Waits \/ Advances
  /\ \A t \in Threads :
       Transfer(t) /\ thread[t].at \in Transfers => halted' \/ Advances

THEOREM NodeMgrNoOvertaking == Spec => [][QueueMoves]_vars
<1>1. ASSUME IInv, Next PROVE QueueMoves
  <2>0. bus \in Seq(Threads) /\ "mgr" \in Threads /\ Ground \subseteq Threads
    BY <1>1 DEF IInv, PlaceInv, Threads
  <2>1. Reset \/ Waits \/ Advances
    <3>1. ASSUME NEW t \in Ground, Command(t) PROVE Waits \/ Advances
      BY <2>0, <3>1, CommandTurn, TurnQueue
    <3>2. ASSUME NEW t \in Threads, Transfer(t) PROVE Waits \/ Advances
      BY <2>0, <3>2, TransferTurn, TurnQueue
    <3>3. CASE MgrStep
      BY <2>0, <3>3, MgrTurn, TurnQueue
    <3>4. CASE (\E n \in Nodes, s \in Reports : Heartbeat(n, s)) \/ Terminate
      BY <2>0, <3>4 DEF Heartbeat, Terminate, place, Waits
    <3> QED  BY <1>1, <3>1, <3>2, <3>3, <3>4 DEF Next
  <2>2. ASSUME NEW t \in Threads, Transfer(t), thread[t].at \in Transfers
        PROVE  halted' \/ Advances
    <3>1. Owns(t)
      BY <2>2 DEF Transfer, Probe, Stop, StopOff, Start, Pin, Read, Nap, Warm, At, Transfers
    <3> QED  BY <2>0, <2>2, <3>1, TransferHandsOn, HandedOn DEF Owns
  <2> QED  BY <2>1, <2>2 DEF QueueMoves
<1>2. IInv /\ [Next]_vars => [QueueMoves]_vars
  BY <1>1
<1> QED  BY <1>2, NodeMgrInvariant, PTL DEF Spec
=============================================================================
