-------------------------- MODULE NodeMgrPinProofs --------------------------
(***************************************************************************)
(* The flag enable and the pin of a card agree: a proof for the manager    *)
(* and any number of threads that carry out ground commands.               *)
(*                                                                         *)
(* The flag is set before the wait for the bus and the pin written after   *)
(* it, so a thread that waits for the pin may carry an argument that is no *)
(* longer the flag.  It does no harm: the queue of the bus is first in,    *)
(* first out, and the thread that has set the flag since is behind it.     *)
(* Unless that thread has found the device not valid and joined no queue:  *)
(* then the device is not valid when the pin is written either.  To become *)
(* valid it has to be started, and the thread that does so was behind all  *)
(* that waited for the pin when the device was stopped.                    *)
(***************************************************************************)
EXTENDS NodeMgrProofs

OwnsBus(t) == bus # <<>> /\ Head(bus) = t

(* Thread u gets the bus after thread t. *)
Before(t, u) == \E i, j \in 1 .. Len(bus) : i < j /\ bus[i] = t /\ bus[j] = u

(* Thread t waits for, or makes, a transfer that it asked for when device  *)
(* c was ready; or the one that makes it ready, asked for when it was not. *)
ReadyPlaces == {"stop", "fail", "off", "pin"}
NeedsReady(t, c) == thread[t].at \in ReadyPlaces /\ thread[t].card = c
Starts(t, c) == thread[t].at = "start" /\ thread[t].card = c

(* A device has changed since the first of two such threads joined the     *)
(* queue, and not since the second did.                                    *)
Ordered ==
  \A c \in Cards, t, u \in Threads :
    /\ dev[c] = "ready" /\ NeedsReady(t, c) /\ Starts(u, c) => ~ Before(t, u)
    /\ dev[c] = "stop" /\ Starts(t, c) /\ NeedsReady(u, c) => ~ Before(t, u)

(* The argument of a thread that is about to write the pin of a valid      *)
(* device is the flag, or one that has the flag as its argument is behind  *)
(* it.                                                                     *)
LatestWins ==
  \A t \in Threads, c \in Cards :
    Pins(t, c) /\ valid[c] /\ thread[t].arg # enable[c] =>
      \E u \in Threads : Pins(u, c) /\ thread[u].arg = enable[c] /\ Before(t, u)

(* A pin node_enable has written, with no write of it on the way. *)
Settled ==
  \A c \in Cards :
    byNode[c] /\ valid[c] /\ chip[c] # "input" /\ (\A t \in Threads : ~ Pins(t, c))
      => (chip[c] = "high" <=> enable[c])

PinInv == ~ halted => Ordered /\ LatestWins /\ Settled

----------------------------------------------------------------------------
(* The queue of the bus. *)

(* The queue of the bus loses its owner or gets a last thread; the others  *)
(* keep their order.                                                       *)
LEMMA BeforeKept ==
  ASSUME bus \in Seq(Threads), NEW t \in Threads,
         bus' = Released(t) \/ bus' = Append(Released(t), t),
         NEW u \in Threads \ {t}, NEW v \in Threads \ {t}, Before(u, v)
  PROVE  Before(u, v)'
<1>1. PICK i, j \in 1 .. Len(bus) : i < j /\ bus[i] = u /\ bus[j] = v
  BY DEF Before
<1>2. PICK r : r = Released(t)
  OBVIOUS
<1>3. r \in Seq(Threads) /\ \E k, l \in 1 .. Len(r) : k < l /\ r[k] = u /\ r[l] = v
  <2>1. CASE bus # <<>> /\ Head(bus) = t
    <3>1. r = Tail(bus) /\ bus[1] = t
      BY <1>2, <2>1 DEF Released
    <3>2. /\ r \in Seq(Threads) /\ Len(r) = Len(bus) - 1
          /\ \A k \in 1 .. Len(bus) - 1 : r[k] = bus[k + 1]
      BY <2>1, <3>1
    <3>3. i # 1 /\ j # 1
      BY <1>1, <3>1
    <3>4. /\ i - 1 \in 1 .. Len(r) /\ j - 1 \in 1 .. Len(r) /\ i - 1 < j - 1
          /\ r[i - 1] = u /\ r[j - 1] = v
      BY <1>1, <3>2, <3>3
    <3> QED  BY <3>2, <3>4
  <2>2. CASE ~ (bus # <<>> /\ Head(bus) = t)
    <3>1. r = bus
      BY <1>2, <2>2 DEF Released
    <3> QED  BY <1>1, <3>1
  <2> QED  BY <2>1, <2>2
<1>4. PICK k, l \in 1 .. Len(r) : k < l /\ r[k] = u /\ r[l] = v
  BY <1>3
<1>5. CASE bus' = r
  BY <1>4, <1>5 DEF Before
<1>6. CASE bus' = Append(r, t)
  <2>1. /\ k \in 1 .. Len(bus') /\ l \in 1 .. Len(bus')
        /\ bus'[k] = u /\ bus'[l] = v
    BY <1>3, <1>4, <1>6
  <2> QED  BY <1>4, <2>1 DEF Before
<1> QED  BY <1>2, <1>5, <1>6

(* A thread that joins the queue is behind all that are in it. *)
LEMMA LastIsBehind ==
  ASSUME bus \in Seq(Threads), NEW t \in Threads, bus' = Append(bus, t),
         NEW u \in Threads, \E i \in 1 .. Len(bus) : bus[i] = u
  PROVE  Before(u, t)'
<1>1. PICK i \in 1 .. Len(bus) : bus[i] = u
  OBVIOUS
<1>2. Len(bus) \in Nat /\ Len(bus') = Len(bus) + 1 /\ bus'[Len(bus) + 1] = t /\ bus'[i] = u
  BY <1>1
<1>3. i \in 1 .. Len(bus') /\ Len(bus) + 1 \in 1 .. Len(bus') /\ i < Len(bus) + 1
  BY <1>1, <1>2
<1> QED  BY <1>2, <1>3 DEF Before

(* The owner of the bus is behind nobody. *)
LEMMA OwnerIsFirst ==
  ASSUME PlaceInv, NEW t \in Threads, OwnsBus(t), NEW u
  PROVE  ~ Before(u, t)
<1>1. SUFFICES ASSUME NEW i \in 1 .. Len(bus), NEW j \in 1 .. Len(bus),
                      i < j, bus[j] = t
               PROVE  FALSE
  BY DEF Before
<1>2. 1 \in 1 .. Len(bus) /\ bus[1] = t
  BY <1>1 DEF OwnsBus, PlaceInv
<1>3. j = 1
  BY <1>1, <1>2 DEF PlaceInv, BusDiscipline
<1> QED  BY <1>1, <1>3

(* ... and the order they have then is the one they had before. *)
LEMMA BeforeWas ==
  ASSUME bus \in Seq(Threads), NEW t \in Threads,
         bus' = Released(t) \/ bus' = Append(Released(t), t),
         NEW u \in Threads \ {t}, NEW v \in Threads \ {t}, Before(u, v)'
  PROVE  Before(u, v)
<1>1. PICK r : r = Released(t)
  OBVIOUS
<1>2. /\ r \in Seq(Threads)
      /\ \A k, l \in 1 .. Len(r) : k < l /\ r[k] = u /\ r[l] = v => Before(u, v)
  <2>1. CASE bus # <<>> /\ Head(bus) = t
    <3>1. r = Tail(bus)
      BY <1>1, <2>1 DEF Released
    <3>2. /\ r \in Seq(Threads) /\ Len(r) = Len(bus) - 1 /\ Len(bus) \in Nat
          /\ \A k \in 1 .. Len(r) : r[k] = bus[k + 1]
      BY <2>1, <3>1
    <3>3. ASSUME NEW k \in 1 .. Len(r), NEW l \in 1 .. Len(r), k < l, r[k] = u, r[l] = v
          PROVE  Before(u, v)
      <4>1. /\ k + 1 \in 1 .. Len(bus) /\ l + 1 \in 1 .. Len(bus) /\ k + 1 < l + 1
            /\ bus[k + 1] = u /\ bus[l + 1] = v
        BY <3>2, <3>3
      <4> QED  BY <4>1 DEF Before
    <3> QED  BY <3>2, <3>3
  <2>2. CASE ~ (bus # <<>> /\ Head(bus) = t)
    <3>1. r = bus
      BY <1>1, <2>2 DEF Released
    <3> QED  BY <3>1 DEF Before
  <2> QED  BY <2>1, <2>2
<1>3. PICK i, j \in 1 .. Len(bus') : i < j /\ bus'[i] = u /\ bus'[j] = v
  BY DEF Before
<1>4. CASE bus' = r
  BY <1>2, <1>3, <1>4
<1>5. CASE bus' = Append(r, t)
  <2>1. /\ Len(r) \in Nat /\ Len(bus') = Len(r) + 1 /\ bus'[Len(r) + 1] = t
        /\ \A k \in 1 .. Len(r) : bus'[k] = r[k]
    BY <1>2, <1>5
  <2>2. i # Len(r) + 1 /\ j # Len(r) + 1
    BY <1>3, <2>1
  <2>3. i \in 1 .. Len(r) /\ j \in 1 .. Len(r)
    BY <1>3, <2>1, <2>2
  <2> QED  BY <1>2, <1>3, <2>1, <2>3
<1> QED  BY <1>1, <1>4, <1>5

(* A thread that has moved is before nobody. *)
LEMMA MovedIsLast ==
  ASSUME PlaceInv, NEW t \in Threads, MayMove(t), NEW q, Moves(t, q), NEW u
  PROVE  ~ Before(t, u)'
<1>1. PICK r : r = Released(t)
  OBVIOUS
<1>2. r \in Seq(Threads) /\ \A i \in 1 .. Len(r) : r[i] # t
  BY <1>1, ReleasedBus
<1>3. SUFFICES ASSUME NEW i \in 1 .. Len(bus'), NEW j \in 1 .. Len(bus'),
                      i < j, bus'[i] = t
               PROVE  FALSE
  BY DEF Before
<1>4. CASE bus' = r
  BY <1>2, <1>3, <1>4
<1>5. CASE bus' = Append(r, t)
  <2>1. Len(r) \in Nat /\ Len(bus') = Len(r) + 1 /\ \A k \in 1 .. Len(r) : bus'[k] = r[k]
    BY <1>2, <1>5
  <2>2. i \in 1 .. Len(r)
    BY <1>3, <2>1
  <2> QED  BY <1>2, <1>3, <2>1, <2>2
<1> QED  BY <1>1, <1>4, <1>5 DEF Moves

(* ... and the owner of the bus is before all others in the queue. *)
LEMMA OwnerIsBefore ==
  ASSUME PlaceInv, NEW t \in Threads, OwnsBus(t), NEW u \in Threads \ {t},
         thread[u].at \in Transfers
  PROVE  Before(t, u)
<1>1. PICK i \in 1 .. Len(bus) : bus[i] = u
  BY DEF PlaceInv, BusDiscipline
<1>2. 1 \in 1 .. Len(bus) /\ bus[1] = t
  BY <1>1 DEF OwnsBus, PlaceInv
<1>3. i # 1
  BY <1>1, <1>2
<1> QED  BY <1>1, <1>2, <1>3 DEF Before

----------------------------------------------------------------------------
(* The order of the queue. *)

(* A thread waits for a transfer of a device that is as the transfer needs it. *)
Fits(q) ==
  /\ q.at \in ReadyPlaces => dev'[q.card] = "ready"
  /\ q.at = "start" => dev'[q.card] = "stop"

(* A device changes by the transfer of the bus's owner. *)
DevMoves(t) ==
  \A c \in Cards :
    \/ dev'[c] = dev[c]
    \/ OwnsBus(t) /\ NeedsReady(t, c) /\ dev'[c] = "stop"
    \/ OwnsBus(t) /\ Starts(t, c) /\ dev'[c] = "ready"

LEMMA OrderKept ==
  ASSUME IInv, Ordered, NEW t \in Threads, MayMove(t), NEW q, Moves(t, q), Fits(q),
         DevMoves(t)
  PROVE  Ordered'
<1>1. thread'[t] = q /\ \A u \in Threads \ {t} : thread'[u] = thread[u]
  BY DEF Moves, IInv, PlaceInv
<1>2. bus \in Seq(Threads) /\ (bus' = Released(t) \/ bus' = Append(Released(t), t))
  BY DEF Moves, IInv, PlaceInv
<1>3. ReadyPlaces \cup {"start"} \subseteq Transfers
  BY DEF ReadyPlaces, Transfers
<1>4. \A u : ~ Before(t, u)'
  BY MovedIsLast DEF IInv
<1>5. ASSUME NEW u \in Threads \ {t}, OwnsBus(t), thread[u].at \in Transfers
      PROVE  Before(t, u)
  BY <1>5, OwnerIsBefore DEF IInv
<1>6. ASSUME NEW u \in Threads \ {t}, NEW v \in Threads \ {t}, Before(u, v)'
      PROVE  Before(u, v)
  BY <1>2, <1>6, BeforeWas
<1>7. \A c \in Cards : dev[c] \in {"stop", "ready"}
  BY DEF IInv, PowerType
<1>8. ASSUME NEW c \in Cards, NEW u \in Threads, NEW v \in Threads, Before(u, v)',
             dev'[c] = "ready", NeedsReady(u, c)', Starts(v, c)'
      PROVE  FALSE
  <2>1. u # t /\ v # t
    BY <1>1, <1>4, <1>8 DEF Starts, Fits
  <2>2. NeedsReady(u, c) /\ Starts(v, c) /\ Before(u, v)
    BY <1>1, <1>6, <1>8, <2>1 DEF NeedsReady, Starts
  <2>3. dev[c] = "stop" /\ OwnsBus(t) /\ Starts(t, c)
    BY <1>7, <1>8, <2>2 DEF Ordered, DevMoves
  <2>4. Before(t, u)
    BY <1>3, <1>5, <2>1, <2>2, <2>3 DEF NeedsReady
  <2> QED  BY <2>2, <2>3, <2>4 DEF Ordered
<1>9. ASSUME NEW c \in Cards, NEW u \in Threads, NEW v \in Threads, Before(u, v)',
             dev'[c] = "stop", Starts(u, c)', NeedsReady(v, c)'
      PROVE  FALSE
  <2>1. u # t /\ v # t
    BY <1>1, <1>4, <1>9 DEF NeedsReady, Fits
  <2>2. Starts(u, c) /\ NeedsReady(v, c) /\ Before(u, v)
    BY <1>1, <1>6, <1>9, <2>1 DEF NeedsReady, Starts
  <2>3. dev[c] = "ready" /\ OwnsBus(t) /\ NeedsReady(t, c)
    BY <1>7, <1>9, <2>2 DEF Ordered, DevMoves
  <2>4. Before(t, u)
    BY <1>3, <1>5, <2>1, <2>2, <2>3 DEF Starts
  <2> QED  BY <2>2, <2>3, <2>4 DEF Ordered
<1> QED  BY <1>8, <1>9 DEF Ordered

----------------------------------------------------------------------------
(* Moves that neither begin nor end a write of a pin for node_enable. *)

QuietMove(t) ==
  \/ halted'
  \/ \E q : Moves(t, q) /\ Fits(q) /\ ~ (q.at = "pin" /\ q.job \in NodeJobs)

(* A wait for another transfer, or for a pin opd_enable writes. *)
LEMMA AcquireQuiet ==
  ASSUME NEW t \in Threads, NEW p \in PlaceType, NEW x \in Transfers, NEW c,
         Acquire(t, p, x, c), x # "pin" \/ p.job \notin NodeJobs,
         x \in ReadyPlaces => dev'[c] = "ready", x = "start" => dev'[c] = "stop"
  PROVE  QuietMove(t)
<1> DEFINE q == [p EXCEPT !.at = x, !.card = c]
<1>1. q.at = x /\ q.job = p.job /\ q.card = c
  BY DEF PlaceType
<1>2. thread' = [thread EXCEPT ![t] = q] /\ bus' = Append(Released(t), t)
  BY DEF Acquire, Set
<1> HIDE DEF q
<1>3. Moves(t, q) /\ Fits(q)
  BY <1>1, <1>2 DEF Moves, Fits
<1> QED  BY <1>1, <1>3 DEF QuietMove

LEMMA LeaveQuiet ==
  ASSUME NEW t \in Threads, NEW p \in PlaceType, Leave(t, p)
  PROVE  QuietMove(t)
<1> DEFINE q == IF t = "mgr" THEN [p EXCEPT !.at = "ret", !.arg = FALSE] ELSE Idle
<1>1. q.at \in {"ret", "idle"}
  BY DEF PlaceType, Idle, Place
<1>2. {"ret", "idle"} \cap (Transfers \cup ReadyPlaces) = {} /\ "pin" \in Transfers
  BY DEF Transfers, ReadyPlaces
<1>3. thread' = [thread EXCEPT ![t] = q] /\ bus' = Released(t)
  BY DEF Leave, Set
<1> HIDE DEF q
<1>4. Moves(t, q) /\ Fits(q) /\ q.at # "pin"
  BY <1>1, <1>2, <1>3 DEF Moves, Fits
<1> QED  BY <1>4 DEF QuietMove

LEMMA AssertQuiet ==
  ASSUME NEW t \in Threads, NEW p \in PlaceType, NEW x \in Transfers, NEW c,
         Assert(t, p, x, c), x # "pin" \/ p.job \notin NodeJobs, x # "start", dev' = dev
  PROVE  QuietMove(t) /\ halted' \in {halted, TRUE}
<1>1. CASE dev[c] = "ready"
  BY <1>1, AcquireQuiet DEF Assert
<1>2. CASE dev[c] # "ready"
  BY <1>2 DEF Assert, QuietMove
<1> QED  BY <1>1, <1>2

LEMMA NextProbeQuiet ==
  ASSUME NEW t \in Threads, thread[t] \in PlaceType, NextProbe(t)
  PROVE  QuietMove(t)
<1>1. PICK p : p = thread[t]
  OBVIOUS
<1>2. "probe" \in Transfers \ (ReadyPlaces \cup {"start"}) /\ "probe" # "pin"
  BY DEF Transfers, ReadyPlaces
<1>3. CASE Behind(p.card) = {}
  <2>1. Leave(t, p)
    BY <1>1, <1>3 DEF NextProbe, Leave, Set
  <2> QED  BY <1>1, <2>1, LeaveQuiet
<1>4. CASE Behind(p.card) # {}
  <2>1. Acquire(t, p, "probe", First(Behind(p.card)))
    BY <1>1, <1>4 DEF NextProbe, Acquire, Set
  <2> QED  BY <1>1, <1>2, <2>1, AcquireQuiet
<1> QED  BY <1>3, <1>4

LEMMA StopFromQuiet ==
  ASSUME NEW t \in Threads, NEW p \in PlaceType, NEW todo \in SUBSET Cards, NEW ch,
         StopFrom(t, p, todo, ch, dev')
  PROVE  QuietMove(t)
<1>1. "off" \in Transfers /\ "off" # "pin" /\ "off" # "start"
  BY DEF Transfers
<1> DEFINE ready == {c \in todo : dev'[c] = "ready"}
<1>2. \/ ready # {} /\ Acquire(t, p, "off", First(ready))
      \/ Leave(t, p)
      \/ halted'
  BY DEF StopFrom
<1>3. ready # {} => First(ready) \in ready
  BY FirstIsLeast, CardsAreNaturals
<1>4. ready # {} => dev'[First(ready)] = "ready"
  BY <1>3
<1> HIDE DEF ready
<1>5. CASE ready # {} /\ Acquire(t, p, "off", First(ready))
  <2>1. PICK c : c = First(ready)
    OBVIOUS
  <2>2. Acquire(t, p, "off", c)
    BY <1>5, <2>1 DEF Acquire, Set
  <2>3. dev'[c] = "ready"
    BY <1>4, <1>5, <2>1
  <2> QED  BY <1>1, <2>2, <2>3, AcquireQuiet
<1> QED  BY <1>2, <1>5, LeaveQuiet DEF QuietMove

(* A quiet move of one thread leaves the others' claims as they are, when  *)
(* it does not touch the flags and drives no pin node_enable is held to    *)
(* have written, nor makes a device valid whose pin is waited for.         *)
LEMMA QuietKeepsPins ==
  ASSUME IInv, PinInv, NEW t \in Threads,
         \A c \in Cards : ~ Pins(t, c), MayMove(t), QuietMove(t), DevMoves(t),
         \A c \in Cards : valid'[c] /\ (\E u \in Threads : Pins(u, c)) => valid[c],
         halted' \in {halted, TRUE}, \A c \in Cards : enable'[c] = enable[c],
         \A c \in Cards : valid'[c] /\ byNode'[c] /\ chip'[c] # "input" =>
                            valid[c] /\ byNode[c] /\ chip'[c] = chip[c]
  PROVE  PinInv'
<1> SUFFICES ASSUME ~ halted' PROVE Ordered' /\ LatestWins' /\ Settled'
  BY DEF PinInv
<1>1. Ordered /\ LatestWins /\ Settled
  BY DEF PinInv
<1>2. PICK q : Moves(t, q) /\ Fits(q) /\ ~ (q.at = "pin" /\ q.job \in NodeJobs)
  BY DEF QuietMove
<1>3. \A u \in Threads, c \in Cards :
        (Pins(u, c)' <=> Pins(u, c)) /\ (Pins(u, c) => thread'[u] = thread[u])
  <2>1. thread'[t] = q /\ \A u \in Threads \ {t} : thread'[u] = thread[u]
    BY <1>2 DEF Moves, IInv, PlaceInv
  <2> QED  BY <1>2, <2>1 DEF Pins
<1>4. ASSUME NEW u \in Threads \ {t}, NEW v \in Threads \ {t}, Before(u, v)
      PROVE  Before(u, v)'
  <2>1. bus \in Seq(Threads) /\ (bus' = Released(t) \/ bus' = Append(Released(t), t))
    BY <1>2 DEF Moves, IInv, PlaceInv
  <2> QED  BY <1>4, <2>1, BeforeKept
<1>5. ASSUME NEW u \in Threads, NEW c \in Cards, Pins(u, c)', valid'[c],
             thread'[u].arg # enable'[c]
      PROVE  \E v \in Threads :
               Pins(v, c)' /\ thread'[v].arg = enable'[c] /\ Before(u, v)'
  <2>1. Pins(u, c) /\ u # t /\ thread[u].arg # enable[c] /\ valid[c]
    BY <1>3, <1>5
  <2>2. PICK v \in Threads : Pins(v, c) /\ thread[v].arg = enable[c] /\ Before(u, v)
    BY <1>1, <2>1 DEF LatestWins
  <2>3. v # t /\ Pins(v, c)' /\ thread'[v].arg = enable'[c]
    BY <1>3, <2>2
  <2> QED  BY <1>4, <2>1, <2>2, <2>3
<1>6. LatestWins'
  BY <1>5 DEF LatestWins
<1>7. Settled'
  BY <1>1, <1>3 DEF Settled
<1>8. Ordered'
  BY <1>1, <1>2, OrderKept
<1> QED  BY <1>6, <1>7, <1>8

(* A step that changes neither places nor power nor flags. *)
LEMMA StillKeepsPins ==
  ASSUME PinInv, UNCHANGED <<place, power, enable, halted>>
  PROVE  PinInv'
BY DEF PinInv, Ordered, LatestWins, Settled, Pins, NeedsReady, Starts, Before, place, power

----------------------------------------------------------------------------
(* The transfers. *)

(* The thread that makes another transfer than a pin does not wait to      *)
(* write one.                                                              *)
LEMMA TransferPins ==
  ASSUME IInv, NEW t \in Threads, NEW x \in Transfers, At(t, x)
  PROVE  /\ thread[t] \in PlaceType /\ MayMove(t) /\ OwnsBus(t) /\ thread[t].card \in Cards
         /\ x # "pin" => \A c \in Cards : ~ Pins(t, c)
BY TransferPlace DEF At, Owns, OwnsBus, Pins

LEMMA ProbePins == ASSUME IInv, PinInv, NEW t \in Threads, Probe(t) PROVE PinInv'
<1>1. PICK p : p = thread[t]
  OBVIOUS
<1>2. PICK c : c = p.card
  OBVIOUS
<1>3. At(t, "probe") /\ {"probe", "stop", "start", "fail"} \subseteq Transfers
  BY DEF Probe, Transfers
<1>4. p \in PlaceType /\ MayMove(t) /\ c \in Cards /\ \A d \in Cards : ~ Pins(t, d)
  BY <1>1, <1>2, <1>3, TransferPins
<1>5. /\ valid' = valid \/ valid' = [valid EXCEPT ![c] = FALSE]
      /\ \/ NextProbe(t)
         \/ \E x \in {"stop", "fail"} : Acquire(t, p, x, c) /\ dev[c] = "ready"
         \/ Acquire(t, p, "start", c) /\ dev[c] # "ready"
      /\ dev' = dev
  BY <1>1, <1>2 DEF Probe, Acquire, Invalidate, NeedsStop, Set
<1>6. QuietMove(t)
  <2>1. dev'[c] \in {"stop", "ready"} /\ "start" \notin ReadyPlaces
    BY <1>4, <1>5 DEF IInv, PowerType, ReadyPlaces
  <2> QED  BY <1>1, <1>3, <1>4, <1>5, <2>1, NextProbeQuiet, AcquireQuiet
<1>7. \A d \in Cards : valid'[d] => valid[d]
  BY <1>4, <1>5 DEF IInv, PowerType
<1>8. UNCHANGED <<chip, byNode, enable, halted>>
  BY DEF Probe, table
<1>9. DevMoves(t)
  BY <1>5 DEF DevMoves
<1> QED  BY <1>4, <1>6, <1>7, <1>8, <1>9, QuietKeepsPins

(* A pin that is driven otherwise than before is not node_enable's. *)
LEMMA DriveKeeps ==
  ASSUME PowerType, NEW c \in Cards, NEW x, Drive(c, x)
  PROVE  \A d \in Cards : byNode'[d] => byNode[d] /\ chip'[d] = chip[d]
<1>1. PICK b \in BOOLEAN : b = (byNode[c] /\ x = chip[c])
  OBVIOUS
<1>2. byNode' = [byNode EXCEPT ![c] = b] /\ chip' = [chip EXCEPT ![c] = x]
  BY <1>1 DEF Drive, Set
<1> QED  BY <1>1, <1>2 DEF PowerType

(* A stopped chip drives no pin, or low, or goes on as it did. *)
LEMMA StopPins == ASSUME IInv, PinInv, NEW t \in Threads, Stop(t) PROVE PinInv'
<1>1. PICK p : p = thread[t]
  OBVIOUS
<1>2. PICK c : c = p.card
  OBVIOUS
<1>3. (At(t, "stop") \/ At(t, "fail")) /\ {"stop", "fail", "start"} \subseteq Transfers
  BY DEF Stop, Transfers
<1>4. p \in PlaceType /\ MayMove(t) /\ c \in Cards /\ \A d \in Cards : ~ Pins(t, d)
  BY <1>1, <1>2, <1>3, TransferPins
<1>5. PICK x : Drive(c, x)
  BY <1>1, <1>2 DEF Stop, Drive, Set
<1>6. \A d \in Cards : byNode'[d] => byNode[d] /\ chip'[d] = chip[d]
  BY <1>4, <1>5, DriveKeeps DEF IInv
<1>7. /\ valid' = valid \/ valid' = [valid EXCEPT ![c] = FALSE]
      /\ NextProbe(t) \/ Acquire(t, p, "start", c)
      /\ dev' = [dev EXCEPT ![c] = "stop"]
  BY <1>1, <1>2 DEF Stop, Acquire, Invalidate, Set
<1>8. QuietMove(t)
  <2>1. dev'[c] = "stop" /\ "start" \notin ReadyPlaces
    BY <1>4, <1>7 DEF IInv, PowerType, ReadyPlaces
  <2> QED  BY <1>1, <1>3, <1>4, <1>7, <2>1, NextProbeQuiet, AcquireQuiet
<1>9. \A d \in Cards : valid'[d] => valid[d]
  BY <1>4, <1>7 DEF IInv, PowerType
<1>10. UNCHANGED <<enable, halted>>
  BY DEF Stop, table
<1>11. DevMoves(t)
  <2>1. OwnsBus(t) /\ NeedsReady(t, c)
    BY <1>1, <1>2, <1>3, TransferPins DEF NeedsReady, ReadyPlaces, At
  <2> QED  BY <1>4, <1>7, <2>1 DEF DevMoves, IInv, PowerType
<1> QED  BY <1>4, <1>6, <1>8, <1>9, <1>10, <1>11, QuietKeepsPins

(* What the way of opd_stop does to the pins. *)
LEMMA StopFromPins ==
  ASSUME IInv, PinInv, NEW t \in Threads, \A c \in Cards : ~ Pins(t, c), MayMove(t),
         NEW p \in PlaceType, NEW todo \in SUBSET Cards, NEW ch,
         StopFrom(t, p, todo, ch, dev'), DevMoves(t),
         UNCHANGED <<enable>>,
         \A c \in Cards : byNode'[c] => byNode[c] /\ ch[c] = chip[c]
  PROVE  PinInv'
<1>1. QuietMove(t)
  BY StopFromQuiet
<1>2. \A c \in Cards : valid'[c] => valid[c]
  BY DEF StopFrom
<1>3. chip' = ch \/ chip' = [c \in Cards |-> "input"]
  BY DEF StopFrom
<1>4. halted' \in {halted, TRUE}
  BY DEF StopFrom
<1> QED  BY <1>1, <1>2, <1>3, <1>4, QuietKeepsPins

LEMMA StopOffPins == ASSUME IInv, PinInv, NEW t \in Threads, StopOff(t) PROVE PinInv'
<1>1. PICK p : p = thread[t]
  OBVIOUS
<1>2. PICK c : c = p.card
  OBVIOUS
<1>3. At(t, "off") /\ "off" \in Transfers
  BY DEF StopOff, Transfers
<1>4. p \in PlaceType /\ MayMove(t) /\ c \in Cards /\ \A d \in Cards : ~ Pins(t, d)
  BY <1>1, <1>2, <1>3, TransferPins
<1>5. PICK x \in Stopped(c) :
        /\ Set(byNode, c, byNode[c] /\ x = chip[c])
        /\ StopFrom(t, thread[t], {c} \cup Behind(c), [chip EXCEPT ![c] = x], dev')
  BY <1>1, <1>2 DEF StopOff, Set
<1>7. PICK ch : ch = [chip EXCEPT ![c] = x]
  OBVIOUS
<1>8. PICK todo : todo = {c} \cup Behind(c)
  OBVIOUS
<1>9. dev' = [dev EXCEPT ![c] = "stop"] /\ todo \in SUBSET Cards
  BY <1>1, <1>2, <1>4, <1>8 DEF StopOff, Set, Behind
<1>10. StopFrom(t, p, todo, ch, dev')
  BY <1>1, <1>5, <1>7, <1>8 DEF StopFrom, Acquire, Leave, Set
<1>11. \A d \in Cards : byNode'[d] => byNode[d] /\ ch[d] = chip[d]
  <2>1. PICK b \in BOOLEAN : b = (byNode[c] /\ x = chip[c])
    OBVIOUS
  <2>2. byNode' = [byNode EXCEPT ![c] = b]
    BY <1>5, <2>1 DEF Set
  <2> QED  BY <1>4, <1>7, <2>1, <2>2 DEF IInv, PowerType
<1>12. UNCHANGED <<enable>>
  BY DEF StopOff, table
<1>13. DevMoves(t)
  <2>1. OwnsBus(t) /\ NeedsReady(t, c)
    BY <1>1, <1>2, <1>3, TransferPins DEF NeedsReady, ReadyPlaces, At
  <2> QED  BY <1>4, <1>9, <2>1 DEF DevMoves, IInv, PowerType
<1> QED  BY <1>4, <1>9, <1>10, <1>11, <1>12, <1>13, StopFromPins

(* A started device is valid anew: node_enable has not written its pin,    *)
(* and no thread waits for the pin if the device was not valid before.     *)
LEMMA StartPins == ASSUME IInv, PinInv, NEW t \in Threads, Start(t) PROVE PinInv'
<1>1. PICK c : c = thread[t].card
  OBVIOUS
<1>2. At(t, "start") /\ "start" \in Transfers
  BY DEF Start, Transfers
<1>3. thread[t] \in PlaceType /\ MayMove(t) /\ OwnsBus(t) /\ c \in Cards
      /\ \A d \in Cards : ~ Pins(t, d)
  BY <1>1, <1>2, TransferPins
<1>4. PICK x \in Started(c) : chip' = [chip EXCEPT ![c] = x]
  BY <1>1 DEF Start, Set
<1>5. valid' = [valid EXCEPT ![c] = TRUE] /\ byNode' = [byNode EXCEPT ![c] = FALSE]
  BY <1>1 DEF Start, Set
<1>6. QuietMove(t)
  BY <1>3, NextProbeQuiet DEF Start
<1>7. \A d \in Cards : byNode'[d] => valid'[d] = valid[d] /\ byNode[d] /\ chip'[d] = chip[d]
  BY <1>3, <1>4, <1>5 DEF IInv, PowerType
<1>8. UNCHANGED <<enable, halted>>
  BY DEF Start, table
<1>9. Starts(t, c) /\ ~ halted
  BY <1>1, <1>2 DEF Starts, At, Owns
<1>10. DevMoves(t)
  <2>1. dev' = [dev EXCEPT ![c] = "ready"]
    BY <1>1 DEF Start, Set
  <2> QED  BY <1>3, <1>9, <2>1 DEF DevMoves, IInv, PowerType
<1>11. ASSUME NEW d \in Cards, valid'[d], NEW u \in Threads, Pins(u, d) PROVE valid[d]
  <2>1. SUFFICES ASSUME ~ valid[d] PROVE FALSE
    OBVIOUS
  <2>2. d = c
    BY <1>3, <1>5, <1>11, <2>1 DEF IInv, PowerType
  <2>3. dev[c] = "stop"
    BY <1>3, <2>1, <2>2 DEF IInv, PowerInv, PowerType
  <2>4. NeedsReady(u, c) /\ u # t /\ thread[u].at \in Transfers
    BY <1>3, <1>11, <2>2 DEF Pins, NeedsReady, ReadyPlaces, Transfers
  <2>5. Before(t, u)
    BY <1>3, <2>4, OwnerIsBefore DEF IInv
  <2> QED  BY <1>3, <1>9, <2>3, <2>4, <2>5 DEF PinInv, Ordered
<1> QED  BY <1>3, <1>6, <1>7, <1>8, <1>10, <1>11, QuietKeepsPins

(* The pin: its owner is ahead of the others, so it is the thread of no    *)
(* other's claim; and if it writes something else than the flag, the       *)
(* thread of its own claim is still to write.                              *)
LEMMA PinPins == ASSUME IInv, PinInv, NEW t \in Threads, Pin(t) PROVE PinInv'
<1>1. PICK p : p = thread[t]
  OBVIOUS
<1>2. PICK c : c = p.card
  OBVIOUS
<1>3. At(t, "pin") /\ "pin" \in Transfers
  BY DEF Pin, Transfers
<1>4. p \in PlaceType /\ OwnsBus(t) /\ c \in Cards /\ p.at = "pin"
  BY <1>1, <1>2, <1>3, TransferPins DEF At
<1>5. PICK new : new = IF p.arg THEN "high" ELSE "low"
  OBVIOUS
<1>6. PICK x : \E b \in BOOLEAN :
        /\ chip' = [chip EXCEPT ![c] = x] /\ byNode' = [byNode EXCEPT ![c] = b]
        /\ b => p.job \in NodeJobs /\ x = new
  <2>1. PICK x \in Written(c, new) :
          /\ chip' = [chip EXCEPT ![c] = x]
          /\ byNode' = [byNode EXCEPT ![c] = p.job \in NodeJobs /\ x = new]
    BY <1>1, <1>2, <1>5 DEF Pin, Set
  <2>2. PICK b \in BOOLEAN : b = (p.job \in NodeJobs /\ x = new)
    OBVIOUS
  <2> QED  BY <2>1, <2>2
<1>7. UNCHANGED <<dev, valid, enable, halted>>
  BY DEF Pin
<1> SUFFICES ASSUME ~ halted' PROVE Ordered' /\ LatestWins' /\ Settled'
  BY DEF PinInv
<1>8. Ordered /\ LatestWins /\ Settled
  BY <1>7 DEF PinInv
<1>9. thread'[t].at \in {"ret", "idle"} /\ \A u \in Threads \ {t} : thread'[u] = thread[u]
  BY <1>1, <1>4 DEF Pin, Leave, Set, IInv, PlaceInv, PlaceType, Idle, Place
<1>10. \A u \in Threads, d \in Cards : Pins(u, d)' <=> u # t /\ Pins(u, d)
  BY <1>9 DEF Pins
<1>11. \A u : ~ Before(u, t)
  BY <1>4, OwnerIsFirst DEF IInv
<1>12. ASSUME NEW u \in Threads, NEW d \in Cards, Pins(u, d)', valid'[d],
              thread'[u].arg # enable'[d]
       PROVE  \E v \in Threads :
                Pins(v, d)' /\ thread'[v].arg = enable'[d] /\ Before(u, v)'
  <2>1. u # t /\ Pins(u, d) /\ thread[u].arg # enable[d] /\ valid[d]
    BY <1>7, <1>9, <1>10, <1>12
  <2>2. PICK v \in Threads : Pins(v, d) /\ thread[v].arg = enable[d] /\ Before(u, v)
    BY <1>8, <2>1 DEF LatestWins
  <2>3. v # t
    BY <1>11, <2>2
  <2>4. bus \in Seq(Threads) /\ bus' = Released(t)
    BY DEF Pin, Leave, IInv, PlaceInv
  <2>5. Before(u, v)'
    BY <2>1, <2>2, <2>3, <2>4, BeforeKept
  <2> QED  BY <1>7, <1>9, <1>10, <2>2, <2>3, <2>5
<1>13. LatestWins'
  BY <1>12 DEF LatestWins
<1>14. ASSUME NEW d \in Cards, byNode'[d], valid'[d], chip'[d] # "input",
              \A u \in Threads : ~ Pins(u, d)'
       PROVE  chip'[d] = "high" <=> enable'[d]
  <2>1. \A u \in Threads \ {t} : ~ Pins(u, d)
    BY <1>10, <1>14
  <2>2. CASE d = c
    <3>1. PICK b \in BOOLEAN :
            /\ chip' = [chip EXCEPT ![c] = x] /\ byNode' = [byNode EXCEPT ![c] = b]
            /\ b => p.job \in NodeJobs /\ x = new
      BY <1>6
    <3>2. p.job \in NodeJobs /\ chip'[c] = new
      BY <1>4, <1>14, <2>2, <3>1 DEF IInv, PowerType
    <3>3. Pins(t, c)
      BY <1>1, <1>2, <1>4, <3>2 DEF Pins
    <3>4. p.arg = enable[c]
      <4>1. SUFFICES ASSUME p.arg # enable[c] PROVE FALSE
        OBVIOUS
      <4>2. PICK u \in Threads : Pins(u, c) /\ Before(t, u)
        BY <1>1, <1>4, <1>7, <1>8, <1>14, <2>2, <3>3, <4>1 DEF LatestWins
      <4>3. u # t
        BY <1>11, <4>2
      <4> QED  BY <2>1, <2>2, <4>2, <4>3
    <3>5. p.arg \in BOOLEAN
      BY <1>4 DEF PlaceType
    <3> QED  BY <1>5, <1>7, <2>2, <3>2, <3>4, <3>5
  <2>3. CASE d # c
    <3>1. byNode[d] /\ valid[d] /\ chip[d] # "input" /\ chip'[d] = chip[d]
      BY <1>4, <1>6, <1>7, <1>14, <2>3 DEF IInv, PowerType
    <3>2. ~ Pins(t, d)
      BY <1>1, <1>2, <2>3 DEF Pins
    <3> QED  BY <1>7, <1>8, <2>1, <3>1, <3>2 DEF Settled
  <2> QED  BY <2>2, <2>3
<1>15. Settled'
  BY <1>14 DEF Settled
<1>16. Ordered'
  <2>1. Leave(t, p)
    BY <1>1 DEF Pin, Leave, Set
  <2>2. PICK q : Moves(t, q) /\ Fits(q)
    BY <1>4, <1>7, <2>1, LeaveQuiet DEF QuietMove
  <2>3. MayMove(t) /\ DevMoves(t)
    BY <1>3, <1>7, TransferPins DEF DevMoves
  <2> QED  BY <1>8, <2>2, <2>3, OrderKept
<1> QED  BY <1>13, <1>15, <1>16

(* The registers, sleeps and the scan of opd_start. *)
LEMMA ReadPins == ASSUME IInv, PinInv, NEW t \in Threads, Read(t) PROVE PinInv'
<1>1. PICK p : p = [thread[t] EXCEPT !.left = @ - 1]
  OBVIOUS
<1>2. At(t, "read") /\ {"read", "pin"} \subseteq Transfers
      /\ "read" \notin ReadyPlaces /\ "nap" \notin Transfers \cup ReadyPlaces
  BY DEF Read, Transfers, ReadyPlaces
<1>3. thread[t] \in PlaceType /\ MayMove(t) /\ thread[t].card \in Cards
      /\ \A d \in Cards : ~ Pins(t, d)
  BY <1>2, TransferPins
<1>4. UNCHANGED <<dev, valid, enable>>
  BY DEF Read, table
<1>5. p \in PlaceType /\ p.card = thread[t].card
  <2>1. thread[t].left > 0
    BY <1>2 DEF IInv, PlaceInv, OKPlace, At
  <2> QED  BY <1>1, <1>3, <2>1 DEF PlaceType
<1>6. PICK c \in Cards : c = p.card
  BY <1>3, <1>5
<1>7. PICK x : Drive(c, x)
  BY <1>1, <1>6 DEF Read, Drive, Set
<1>8. \A d \in Cards : byNode'[d] => byNode[d] /\ chip'[d] = chip[d]
  BY <1>7, DriveKeeps DEF IInv
<1>9. QuietMove(t) /\ halted' \in {halted, TRUE}
  <2>1. CASE Leave(t, p) /\ UNCHANGED halted
    BY <1>5, <2>1, LeaveQuiet
  <2>2. CASE Assert(t, p, "read", c)
    BY <1>2, <1>4, <1>5, <2>2, AssertQuiet
  <2>3. CASE /\ bus' = Released(t) /\ Set(thread, t, [p EXCEPT !.at = "nap"])
             /\ UNCHANGED halted
    <3>1. PICK q : q = [p EXCEPT !.at = "nap"]
      OBVIOUS
    <3>2. q.at = "nap"
      BY <1>5, <3>1 DEF PlaceType
    <3>3. Moves(t, q) /\ Fits(q)
      BY <1>2, <2>3, <3>1, <3>2 DEF Moves, Fits, Set
    <3> QED  BY <2>3, <3>2, <3>3 DEF QuietMove
  <2> QED  BY <1>1, <1>6, <2>1, <2>2, <2>3 DEF Read, Assert, Acquire, Leave, Set
<1> QED  BY <1>3, <1>4, <1>8, <1>9, QuietKeepsPins DEF DevMoves

LEMMA NapPins == ASSUME IInv, PinInv, NEW t \in Threads, Nap(t) PROVE PinInv'
<1>1. PICK p : p = thread[t]
  OBVIOUS
<1>2. p.at = "nap" /\ "nap" \notin Transfers /\ "read" \in Transfers
  BY <1>1 DEF Nap, Transfers
<1>3. p \in PlaceType /\ MayMove(t) /\ \A d \in Cards : ~ Pins(t, d)
  BY <1>1, <1>2 DEF IInv, PlaceInv, MayMove, Pins
<1>4. Assert(t, p, "read", p.card)
  BY <1>1 DEF Nap, Assert, Acquire, Set
<1>5. UNCHANGED <<power, enable>>
  BY DEF Nap, table
<1>6. QuietMove(t) /\ halted' \in {halted, TRUE}
  BY <1>2, <1>3, <1>4, <1>5, AssertQuiet DEF power, ReadyPlaces
<1> QED  BY <1>3, <1>5, <1>6, QuietKeepsPins DEF power, DevMoves

LEMMA WarmPins == ASSUME IInv, PinInv, NEW t \in Threads, Warm(t) PROVE PinInv'
<1>1. PICK p : p = thread[t]
  OBVIOUS
<1>2. p.at = "warm" /\ "warm" \notin Transfers /\ "probe" \in Transfers \ ReadyPlaces
  BY <1>1 DEF Warm, Transfers, ReadyPlaces
<1>3. p \in PlaceType /\ MayMove(t) /\ \A d \in Cards : ~ Pins(t, d)
  BY <1>1, <1>2 DEF IInv, PlaceInv, MayMove, Pins
<1>4. QuietMove(t) /\ halted' \in {halted, TRUE}
  <2>1. CASE Acquire(t, p, "probe", First(Cards)) /\ UNCHANGED halted
    BY <1>2, <1>3, <2>1, AcquireQuiet
  <2>2. CASE halted' = TRUE /\ UNCHANGED <<bus, thread>>
    BY <2>2 DEF QuietMove
  <2> QED  BY <1>1, <2>1, <2>2 DEF Warm, Acquire, Set
<1>5. UNCHANGED <<power, enable>>
  BY DEF Warm, table
<1> QED  BY <1>3, <1>4, <1>5, QuietKeepsPins DEF power, DevMoves

----------------------------------------------------------------------------
(* The functions of opd.c and node_mgr.c, called outside of them. *)

(* node_enable: the flag, then the pin of a valid device, for which the    *)
(* thread queues behind all others.                                        *)
LEMMA NodeEnablePins ==
  ASSUME IInv, PinInv, NEW t \in Threads, thread[t].at \notin Transfers,
         NEW n \in Nodes, NEW j \in NodeJobs, NEW b \in BOOLEAN,
         NodeEnable(t, n, j, b), UNCHANGED power
  PROVE  PinInv'
<1>1. PICK p : p = Place(j, "ret", n, b, 0)
  OBVIOUS
<1>2. j \in Jobs /\ "pin" \in Transfers
  BY DEF Jobs, Transfers
<1>3. p \in PlaceType /\ p.job = j /\ p.arg = b
  BY <1>1, <1>2 DEF Place, PlaceType, Steps
<1>4. MayMove(t) /\ \A c \in Cards : ~ Pins(t, c)
  BY <1>2 DEF MayMove, Pins
<1>5. UNCHANGED <<dev, valid, chip, byNode>> /\ DevMoves(t)
  BY DEF power, DevMoves
<1>6. enable' = [enable EXCEPT ![n] = b] /\ enable \in [Nodes -> BOOLEAN]
  BY DEF NodeEnable, Set, IInv, TableType
<1>8. bus \in Seq(Threads) /\ Released(t) = bus
  <2>1. bus \in Seq(Threads) /\ \A i \in 1 .. Len(bus) : bus[i] # t
    BY DEF IInv, PlaceInv, BusDiscipline
  <2>2. ~ (bus # <<>> /\ Head(bus) = t)
    BY <2>1
  <2> QED  BY <2>1, <2>2 DEF Released
<1>9. \A c \in Cards : c # n => enable'[c] = enable[c]
  BY <1>6, CardsAreNaturals
<1>10. CASE n \notin Cards
  <2>1. Leave(t, p) /\ halted' = halted
    BY <1>1, <1>10 DEF NodeEnable
  <2>2. QuietMove(t)
    BY <1>3, <2>1, LeaveQuiet
  <2>3. \A c \in Cards : enable'[c] = enable[c]
    BY <1>9, <1>10
  <2> QED  BY <1>4, <1>5, <2>1, <2>2, <2>3, QuietKeepsPins
<1>11. CASE n \in Cards /\ valid[n] /\ dev[n] # "ready"
  <2>1. halted' = TRUE
    BY <1>11 DEF NodeEnable, OpdEnable, Assert
  <2> QED  BY <2>1 DEF PinInv
<1>12. CASE n \in Cards /\ valid[n] /\ dev[n] = "ready"
  <2>1. Acquire(t, p, "pin", n) /\ halted' = halted
    BY <1>1, <1>12 DEF NodeEnable, OpdEnable, Assert
  <2>2. /\ thread'[t].at = "pin" /\ thread'[t].card = n /\ thread'[t].job = j
        /\ thread'[t].arg = b
        /\ \A u \in Threads \ {t} : thread'[u] = thread[u]
    BY <1>3, <2>1 DEF Acquire, Set, IInv, PlaceInv, PlaceType
  <2>3. bus' = Append(bus, t)
    BY <1>8, <2>1 DEF Acquire
  <2> SUFFICES ASSUME ~ halted' PROVE Ordered' /\ LatestWins' /\ Settled'
    BY DEF PinInv
  <2>4. Ordered /\ LatestWins /\ Settled
    BY <2>1 DEF PinInv
  <2>5. Pins(t, n)' /\ thread'[t].arg = enable'[n]
    BY <1>6, <2>2 DEF Pins
  <2>6. \A c \in Cards :
          c # n => ~ Pins(t, c)' /\ \A u \in Threads : Pins(u, c)' <=> Pins(u, c)
    BY <1>4, <2>2 DEF Pins
  <2>7. ASSUME NEW u \in Threads, NEW c \in Cards, Pins(u, c)', valid'[c],
               thread'[u].arg # enable'[c]
        PROVE  \E v \in Threads :
                 Pins(v, c)' /\ thread'[v].arg = enable'[c] /\ Before(u, v)'
    <3>1. u # t
      BY <2>2, <2>5, <2>7 DEF Pins
    <3>2. Pins(u, c) /\ thread'[u] = thread[u] /\ valid[c]
      BY <1>5, <2>2, <2>7, <3>1 DEF Pins
    <3>3. CASE c = n
      <4>1. \E i \in 1 .. Len(bus) : bus[i] = u
        BY <1>2, <3>2 DEF Pins, IInv, PlaceInv, BusDiscipline
      <4>2. Before(u, t)'
        BY <1>8, <2>3, <4>1, LastIsBehind
      <4> QED  BY <2>5, <3>3, <4>2
    <3>4. CASE c # n
      <4>1. PICK v \in Threads : Pins(v, c) /\ thread[v].arg = enable[c] /\ Before(u, v)
        BY <1>9, <2>4, <2>7, <3>2, <3>4 DEF LatestWins
      <4>2. v # t
        BY <1>4, <4>1
      <4>3. Before(u, v)'
        BY <1>8, <2>3, <3>1, <4>1, <4>2, BeforeKept
      <4> QED  BY <1>9, <2>2, <2>6, <3>4, <4>1, <4>2, <4>3
    <3> QED  BY <3>3, <3>4
  <2>8. LatestWins'
    BY <2>7 DEF LatestWins
  <2>9. Settled'
    BY <1>5, <1>9, <2>4, <2>5, <2>6 DEF Settled
  <2>10. Ordered'
    <3>1. PICK q : q = [p EXCEPT !.at = "pin", !.card = n]
      OBVIOUS
    <3>2. q.at = "pin" /\ q.card = n
      BY <1>3, <3>1 DEF PlaceType
    <3>3. Moves(t, q)
      BY <1>2, <2>1, <3>1, <3>2 DEF Acquire, Set, Moves
    <3>4. Fits(q)
      BY <1>5, <1>12, <3>2 DEF Fits
    <3> QED  BY <1>4, <1>5, <2>4, <3>3, <3>4, OrderKept
  <2> QED  BY <2>8, <2>9, <2>10
<1>13. CASE n \in Cards /\ ~ valid[n]
  <2>1. Leave(t, p) /\ halted' = halted
    BY <1>1, <1>13 DEF NodeEnable, OpdEnable
  <2>2. thread'[t].at # "pin" /\ \A u \in Threads \ {t} : thread'[u] = thread[u]
    BY <1>3, <2>1 DEF Leave, Set, IInv, PlaceInv, PlaceType, Idle, Place
  <2>3. bus' = bus
    BY <1>8, <2>1 DEF Leave
  <2> SUFFICES ASSUME ~ halted' PROVE Ordered' /\ LatestWins' /\ Settled'
    BY DEF PinInv
  <2>4. Ordered /\ LatestWins /\ Settled
    BY <2>1 DEF PinInv
  <2>5. \A u \in Threads, c \in Cards :
          (Pins(u, c)' <=> Pins(u, c)) /\ (Pins(u, c) => u # t /\ thread'[u] = thread[u])
    BY <1>4, <2>2 DEF Pins
  <2>6. ASSUME NEW u \in Threads, NEW c \in Cards, Pins(u, c)', valid'[c],
               thread'[u].arg # enable'[c]
        PROVE  \E v \in Threads :
                 Pins(v, c)' /\ thread'[v].arg = enable'[c] /\ Before(u, v)'
    <3>1. Pins(u, c) /\ u # t /\ thread'[u] = thread[u]
      BY <2>5, <2>6
    <3>2. c # n /\ valid[c]
      BY <1>5, <1>13, <2>6
    <3>3. PICK v \in Threads : Pins(v, c) /\ thread[v].arg = enable[c] /\ Before(u, v)
      BY <1>9, <2>4, <2>6, <3>1, <3>2 DEF LatestWins
    <3>4. Before(u, v)'
      BY <2>3, <3>3 DEF Before
    <3> QED  BY <1>9, <2>5, <3>2, <3>3, <3>4
  <2>7. LatestWins'
    BY <2>6 DEF LatestWins
  <2>8. Settled'
    BY <1>5, <1>9, <1>13, <2>4, <2>5 DEF Settled
  <2>9. Ordered'
    <3>1. PICK q : Moves(t, q) /\ Fits(q)
      BY <1>3, <2>1, LeaveQuiet DEF QuietMove
    <3> QED  BY <1>4, <1>5, <2>4, <3>1, OrderKept
  <2> QED  BY <2>7, <2>8, <2>9
<1> QED  BY <1>10, <1>11, <1>12, <1>13

(* A thread that is at no transfer goes on without a word on the pins. *)
LEMMA OutsidePins ==
  ASSUME IInv, PinInv, NEW t \in Threads, thread[t].at \notin Transfers, QuietMove(t),
         UNCHANGED <<chip, dev, valid, byNode, enable>>, halted' \in {halted, TRUE}
  PROVE  PinInv'
<1>1. "pin" \in Transfers
  BY DEF Transfers
<1>2. MayMove(t) /\ \A c \in Cards : ~ Pins(t, c)
  BY <1>1 DEF MayMove, Pins
<1> QED  BY <1>2, QuietKeepsPins DEF DevMoves

LEMMA OpdStartQuiet ==
  ASSUME NEW t \in Threads, NEW j, Released(t) = bus, OpdStart(t, j)
  PROVE  QuietMove(t)
<1>1. PICK q : q = Place(j, "warm", 0, TRUE, 0)
  OBVIOUS
<1>2. q.at = "warm" /\ "warm" \notin Transfers \cup ReadyPlaces
  BY <1>1 DEF Place, Transfers, ReadyPlaces
<1>3. Moves(t, q) /\ Fits(q)
  BY <1>1, <1>2 DEF OpdStart, Set, Moves, Fits
<1> QED  BY <1>2, <1>3 DEF QuietMove

LEMMA OpdEnableQuiet ==
  ASSUME NEW t \in Threads, NEW c \in Cards, NEW j \in Jobs \ NodeJobs, NEW b \in BOOLEAN,
         OpdEnable(t, c, j, b), dev' = dev
  PROVE  QuietMove(t) /\ halted' \in {halted, TRUE}
<1>1. PICK p : p = Place(j, "ret", c, b, 0)
  OBVIOUS
<1>2. p \in PlaceType /\ p.job \notin NodeJobs /\ "pin" \in Transfers
  BY <1>1, CardsAreNaturals DEF Place, PlaceType, Steps, Transfers
<1>3. CASE Assert(t, p, "pin", c)
  BY <1>2, <1>3, AssertQuiet
<1>4. CASE Leave(t, p) /\ UNCHANGED halted
  BY <1>2, <1>4, LeaveQuiet
<1> QED  BY <1>1, <1>3, <1>4 DEF OpdEnable

(* A thread that is at no transfer has released the bus. *)
LEMMA OutsideReleased ==
  ASSUME IInv, NEW t \in Threads, thread[t].at \notin Transfers
  PROVE  Released(t) = bus
<1>1. SUFFICES ASSUME bus # <<>>, Head(bus) = t PROVE FALSE
  BY DEF Released
<1>2. 1 \in 1 .. Len(bus) /\ bus[1] = t
  BY <1>1 DEF IInv, PlaceInv
<1> QED  BY <1>2 DEF IInv, PlaceInv, BusDiscipline

(* opd_stop, called by a thread at no transfer. *)
LEMMA OpdStopPins ==
  ASSUME IInv, PinInv, NEW t \in Threads, thread[t].at \notin Transfers,
         StopFrom(t, Place("stop", "ret", 0, FALSE, 0), Cards, chip, dev),
         UNCHANGED <<dev, byNode, enable>>
  PROVE  PinInv'
<1>1. PICK p : p = Place("stop", "ret", 0, FALSE, 0)
  OBVIOUS
<1>2. p \in PlaceType /\ "pin" \in Transfers
  BY <1>1, CardsAreNaturals DEF Place, PlaceType, Jobs, Steps, Transfers
<1>3. MayMove(t) /\ \A c \in Cards : ~ Pins(t, c)
  BY <1>2 DEF MayMove, Pins
<1>4. PICK ch : ch = chip
  OBVIOUS
<1>5. StopFrom(t, p, Cards, ch, dev')
  BY <1>1, <1>4
<1> QED  BY <1>2, <1>3, <1>4, <1>5, StopFromPins DEF DevMoves

----------------------------------------------------------------------------
(* Ground commands and the manager. *)

LEMMA CommandPins ==
  ASSUME IInv, PinInv, NEW t \in Ground, Command(t)
  PROVE  PinInv'
<1>1. Free(t)
  BY DEF Command, NodeCommand, EnableCommand, StartCommand, StopCommand, ScanCommand,
         ReadCommand
<1>2. t \in Threads /\ thread[t].at \notin Transfers
  BY <1>1, FreeThread DEF Transfers
<1>3. CASE NodeCommand(t)
  <2>1. PICK n \in Nodes, b \in BOOLEAN : NodeEnable(t, n, "node", b)
    BY <1>3, NodeMgrAssumption DEF NodeCommand
  <2>2. "node" \in NodeJobs /\ UNCHANGED power
    BY <1>3 DEF NodeJobs, NodeCommand
  <2> QED  BY <1>2, <2>1, <2>2, NodeEnablePins
<1>4. CASE EnableCommand(t)
  <2>1. PICK c \in Cards, b \in BOOLEAN : OpdEnable(t, c, "opd", b)
    BY <1>4 DEF EnableCommand
  <2>2. "opd" \in Jobs \ NodeJobs
    BY DEF Jobs, NodeJobs
  <2>3. UNCHANGED <<chip, dev, valid, byNode, enable>>
    BY <1>4 DEF EnableCommand, power, table
  <2> QED  BY <1>2, <2>1, <2>2, <2>3, OpdEnableQuiet, OutsidePins
<1>5. CASE StartCommand(t)
  <2>1. OpdStart(t, "start") /\ UNCHANGED <<chip, dev, valid, byNode, enable, halted>>
    BY <1>5 DEF StartCommand, table
  <2> QED  BY <1>2, <2>1, OutsideReleased, OpdStartQuiet, OutsidePins
<1>6. CASE StopCommand(t)
  <2>1. StopFrom(t, Place("stop", "ret", 0, FALSE, 0), Cards, chip, dev)
    BY <1>6 DEF StopCommand
  <2>2. UNCHANGED <<dev, byNode, enable>>
    BY <1>6 DEF StopCommand, table
  <2> QED  BY <1>2, <2>1, <2>2, OpdStopPins
<1>7. CASE ScanCommand(t)
  <2>1. PICK b \in BOOLEAN :
          Acquire(t, Place("scan", "ret", 0, b, 0), "probe", First(Cards))
    BY <1>7 DEF ScanCommand
  <2>2. PICK p : p = Place("scan", "ret", 0, b, 0)
    OBVIOUS
  <2>3. p \in PlaceType /\ "probe" \in Transfers \ ReadyPlaces
    BY <2>2, CardsAreNaturals DEF Place, PlaceType, Jobs, Steps, Transfers, ReadyPlaces
  <2>4. QuietMove(t)
    BY <1>2, <2>1, <2>2, <2>3, AcquireQuiet
  <2>5. UNCHANGED <<chip, dev, valid, byNode, enable, halted>>
    BY <1>7 DEF ScanCommand, power, table
  <2> QED  BY <1>2, <2>4, <2>5, OutsidePins
<1>8. CASE ReadCommand(t)
  <2>1. PICK c \in Cards, j \in {"status", "reset"}, k \in {Reads, 2} :
          Assert(t, Place(j, "ret", c, FALSE, k), "read", c)
    BY <1>8 DEF ReadCommand
  <2>2. PICK p : p = Place(j, "ret", c, FALSE, k)
    OBVIOUS
  <2>3. k \in Nat /\ "read" \in Transfers \ ReadyPlaces
    BY NodeMgrAssumption DEF Transfers, ReadyPlaces
  <2>4. p \in PlaceType
    BY <2>2, <2>3, CardsAreNaturals DEF Place, PlaceType, Jobs, Steps
  <2>5. Assert(t, p, "read", c)
    BY <2>1, <2>2
  <2>6. UNCHANGED <<chip, dev, valid, byNode, enable>>
    BY <1>8 DEF ReadCommand, power, table
  <2>7. QuietMove(t) /\ halted' \in {halted, TRUE}
    BY <1>2, <2>3, <2>4, <2>5, <2>6, AssertQuiet
  <2> QED  BY <1>2, <2>6, <2>7, OutsidePins
<1> QED  BY <1>3, <1>4, <1>5, <1>6, <1>7, <1>8 DEF Command

(* Going on to another place of the manager. *)
LEMMA GoPins ==
  ASSUME IInv, PinInv, mgr.at \notin Transfers, NEW n,
         NEW x \in {"setup", "exit", "close", "pause", "gone", "wait", "woken"}, Go(x, n),
         UNCHANGED <<power, enable, halted>>
  PROVE  PinInv'
<1>1. "mgr" \in Threads /\ thread["mgr"].at \notin Transfers
  BY DEF Threads, mgr
<1>2. PICK q : q = Place("none", x, n, FALSE, 0)
  OBVIOUS
<1>3. q.at = x /\ x \notin Transfers \cup ReadyPlaces /\ x \notin {"pin", "start"}
  BY <1>2 DEF Place, Transfers, ReadyPlaces
<1>4. Moves("mgr", q) /\ Fits(q)
  BY <1>1, <1>2, <1>3, OutsideReleased DEF Go, Set, Moves, Fits
<1>5. QuietMove("mgr")
  BY <1>3, <1>4 DEF QuietMove
<1> QED  BY <1>1, <1>5, OutsidePins DEF power

LEMMA MgrStepPins ==
  ASSUME IInv, PinInv, MgrStep
  PROVE  PinInv'
<1>1. "mgr" \in Threads
  BY DEF Threads
<1>2. mgr.at \in {"boot", "setup", "ret", "wait", "woken", "pause", "exit", "close"}
  BY DEF MgrStep, MgrBoot, MgrSetup, MgrReturn, MgrWake, MgrHandle, MgrPause, MgrExit,
         MgrClose, Manager
<1>3. mgr.at \notin Transfers /\ thread["mgr"].at \notin Transfers
  BY <1>2 DEF Transfers, mgr
<1>4. /\ mgr.card \in Nodes /\ 0 \in Nodes
      /\ {"setup", "cycleOff", "cycleOn", "giveUp", "exit"} \subseteq NodeJobs
  BY <1>3, ManagerMoves, CardsAreNaturals DEF NodeJobs
<1>5. ASSUME Loop, UNCHANGED <<power, enable, halted>> PROVE PinInv'
  BY <1>3, <1>5, GoPins DEF Loop
<1>6. ASSUME NEW n \in Nodes, NEW j \in NodeJobs, NEW b \in BOOLEAN,
             NodeEnable("mgr", n, j, b), UNCHANGED power
      PROVE  PinInv'
  BY <1>1, <1>3, <1>6, NodeEnablePins
<1>7. CASE MgrBoot
  <2>1. OpdStart("mgr", "boot") /\ UNCHANGED <<chip, dev, valid, byNode, enable, halted>>
    BY <1>7 DEF MgrBoot, table
  <2> QED  BY <1>1, <1>3, <2>1, OutsideReleased, OpdStartQuiet, OutsidePins
<1>8. CASE MgrSetup
  <2>1. PICK n \in Nodes : n = mgr.card
    BY <1>4
  <2>2. UNCHANGED power
    BY <1>8 DEF MgrSetup
  <2>3. CASE n \notin Cards \/ n \in Autostart
    <3>1. NodeEnable("mgr", n, "setup", TRUE)
      BY <1>8, <2>1, <2>3 DEF MgrSetup, NodeEnable, OpdEnable, Leave, Assert, Acquire, Set
    <3> QED  BY <1>4, <1>6, <2>2, <3>1
  <2>4. CASE ~ (n \notin Cards \/ n \in Autostart)
    <3>1. PICK p : p = Place("setup", "ret", n, FALSE, 0)
      OBVIOUS
    <3>2. p \in PlaceType
      BY <3>1 DEF Place, PlaceType, Jobs, NodeJobs, Steps
    <3>3. Leave("mgr", p) /\ UNCHANGED <<enable, halted>>
      BY <1>8, <2>1, <2>4, <3>1 DEF MgrSetup, Leave, Set
    <3> QED  BY <1>1, <1>3, <2>2, <3>2, <3>3, LeaveQuiet, OutsidePins DEF power
  <2> QED  BY <2>3, <2>4
<1>9. CASE MgrReturn
  <2>1. UNCHANGED <<power, enable, halted>>
    BY <1>9 DEF MgrReturn
  <2>2. Loop \/ \E n, x : x \in {"setup", "exit", "close", "pause", "gone"} /\ Go(x, n)
    BY <1>9 DEF MgrReturn, Go
  <2> QED  BY <1>3, <1>5, <2>1, <2>2, GoPins
<1>10. CASE MgrWake
  <2>1. Go("woken", 0) /\ UNCHANGED <<power, enable, halted>>
    BY <1>10 DEF MgrWake, table
  <2> QED  BY <1>3, <2>1, GoPins
<1>11. CASE MgrHandle
  <2>1. UNCHANGED power
    BY <1>11 DEF MgrHandle
  <2>2. \/ \E n \in Nodes, j \in {"cycleOff", "giveUp"} : NodeEnable("mgr", n, j, FALSE)
        \/ Loop /\ UNCHANGED <<enable, halted>>
    <3>1. PICK n : n = flags
      OBVIOUS
    <3>2. CASE n \in Cards /\ state[n] = "unknown" /\ enable[n]
      <4>1. n \in Nodes
        BY <3>2, CardsAreNaturals
      <4>2. NodeEnable("mgr", n, "cycleOff", FALSE) \/ NodeEnable("mgr", n, "giveUp", FALSE)
        BY <1>11, <3>1, <3>2
           DEF MgrHandle, NodeEnable, OpdEnable, Assert, Acquire, Leave, Set
      <4> QED  BY <4>1, <4>2
    <3>3. CASE ~ (n \in Cards /\ state[n] = "unknown" /\ enable[n])
      BY <1>11, <3>1, <3>3 DEF MgrHandle
    <3> QED  BY <3>2, <3>3
  <2> QED  BY <1>4, <1>5, <1>6, <2>1, <2>2
<1>12. CASE MgrPause
  <2>1. PICK n \in Nodes : n = mgr.card
    BY <1>4
  <2>2. NodeEnable("mgr", n, "cycleOn", TRUE) /\ UNCHANGED power
    BY <1>12, <2>1 DEF MgrPause, NodeEnable, OpdEnable, Assert, Acquire, Leave, Set
  <2> QED  BY <1>4, <1>6, <2>2
<1>13. CASE MgrExit
  <2>1. PICK n \in Nodes : n = mgr.card
    BY <1>4
  <2>2. NodeEnable("mgr", n, "exit", FALSE) /\ UNCHANGED power
    BY <1>13, <2>1 DEF MgrExit, NodeEnable, OpdEnable, Assert, Acquire, Leave, Set
  <2> QED  BY <1>4, <1>6, <2>2
<1>14. CASE MgrClose
  <2>1. StopFrom("mgr", Place("stop", "ret", 0, FALSE, 0), Cards, chip, dev)
    BY <1>14 DEF MgrClose
  <2>2. UNCHANGED <<dev, byNode, enable>>
    BY <1>14 DEF MgrClose, table
  <2> QED  BY <1>1, <1>3, <2>1, <2>2, OpdStopPins
<1> QED  BY <1>7, <1>8, <1>9, <1>10, <1>11, <1>12, <1>13, <1>14 DEF MgrStep

----------------------------------------------------------------------------
(* Before anything has run, and after a reset, node_enable has written no  *)
(* pin and no thread waits for one.                                        *)
LEMMA InitPins == ASSUME Init PROVE PinInv
<1>1. Booting.at = "boot" /\ Idle.at = "idle"
  BY DEF Booting, Idle, Place
<1>2. thread = [t \in Threads |-> IF t = "mgr" THEN Booting ELSE Idle]
      /\ byNode = [c \in Cards |-> FALSE]
  BY DEF Init
<1>3. \A t \in Threads : thread[t].at # "pin"
  BY <1>1, <1>2
<1>4. LatestWins /\ Ordered
  BY <1>1, <1>2, <1>3 DEF LatestWins, Ordered, Pins, Starts
<1>5. Settled
  BY <1>2 DEF Settled
<1> QED  BY <1>4, <1>5 DEF PinInv

LEMMA ResetPins == ASSUME Reset PROVE PinInv'
<1>1. Booting.at = "boot" /\ Idle.at = "idle"
  BY DEF Booting, Idle, Place
<1>2. thread' = [t \in Threads |-> IF t = "mgr" THEN Booting ELSE Idle]
      /\ byNode' = [c \in Cards |-> FALSE]
  BY DEF Reset
<1>3. \A t \in Threads : thread'[t].at # "pin"
  BY <1>1, <1>2
<1>4. LatestWins' /\ Ordered'
  BY <1>1, <1>2, <1>3 DEF LatestWins, Ordered, Pins, Starts
<1>5. Settled'
  BY <1>2 DEF Settled
<1> QED  BY <1>4, <1>5 DEF PinInv

(* Every step keeps the agreement of flags and pins. *)
LEMMA NextPins == IInv /\ PinInv /\ [Next]_vars => PinInv'
<1> SUFFICES ASSUME IInv, PinInv, [Next]_vars PROVE PinInv'
  OBVIOUS
<1>1. ASSUME NEW t \in Threads, Transfer(t) PROVE PinInv'
  BY <1>1, ProbePins, StopPins, StopOffPins, StartPins, PinPins, ReadPins, NapPins,
     WarmPins DEF Transfer
<1>2. CASE (\E n \in Nodes, s \in Reports : Heartbeat(n, s)) \/ Terminate
  <2>1. UNCHANGED <<place, power, enable, halted>>
    BY <1>2 DEF Heartbeat, Terminate, table
  <2> QED  BY <2>1, StillKeepsPins
<1>3. CASE UNCHANGED vars
  BY <1>3, StillKeepsPins DEF vars, table
<1> QED  BY <1>1, <1>2, <1>3, CommandPins, MgrStepPins, ResetPins DEF Next

(* The pin of a card that node_enable has written agrees with the flag     *)
(* enable, however many threads carry out ground commands beside the       *)
(* manager, in whatever order they get the bus, whatever becomes of the    *)
(* devices in the meantime and whatever transfers the chips miss.          *)
THEOREM NodeMgrPins == Spec => []PinFollowsEnable
<1>1. Init => PinInv
  BY InitPins
<1>2. IInv /\ PinInv /\ [Next]_vars => PinInv'
  BY NextPins
<1>3. PinInv => PinFollowsEnable
  BY DEF PinInv, Settled, Pins, PinFollowsEnable
<1>4. Spec => []IInv
  BY NodeMgrInvariant
<1> QED  BY <1>1, <1>2, <1>3, <1>4, PTL DEF Spec
=============================================================================
