------------------------------- MODULE NodeMgr -------------------------------
(***************************************************************************)
(* The node manager and the power domain of the flight computer            *)
(* (common/node_mgr.c, opd.c, max7310.c): the heartbeats of the cards, the *)
(* manager's thread that power cycles a lost card, and the threads of      *)
(* ground commands that switch cards at the same time, over one I2C bus.   *)
(*                                                                         *)
(* Threads have one priority and no time slices: they change only where    *)
(* one blocks, on the mutex of the bus, in a transfer or in a sleep.  A    *)
(* step goes from one such point to the next; the transfers made in one    *)
(* possession of the bus are one step, at its release.  The card of node n *)
(* has the number n, and the power of a card is its pin OPD_EN.            *)
(*                                                                         *)
(* External: the control line powers the MAX7310 chips, which come up with *)
(* their pins as inputs and do not answer without it.  The array           *)
(* node_state, declared with OD_CNT_HB_CONS = 1 entries, is taken to be as *)
(* long as the table of nodes.  The bit-banged I2C of opd_boot is left out.*)
(***************************************************************************)
EXTENDS Integers, Sequences

CONSTANTS
  NodeCount,   \* entries of the table of nodes
  Cards,       \* the nodes with an OPD address
  Autostart,   \* the cards that are switched on at start
  Ground,      \* the threads that carry out ground commands
  Limit,       \* power cycles of a lost card, 3 in the code
  Reads,       \* registers opd_status reads, 5 in the code
  Lossy,       \* the chips that may miss a transfer
  Commanded,   \* BOUND: the nodes for which ground sends node_enable
  Reports      \* BOUND: the states nodes go to

Nodes == 0 .. NodeCount - 1
Threads == Ground \cup {"mgr"}

ASSUME NodeMgrAssumption ==
  /\ NodeCount \in Nat \ {0}
  /\ Cards \subseteq Nodes /\ Cards # {} /\ Autostart \subseteq Cards
  /\ "mgr" \notin Ground
  /\ Limit \in Nat /\ Reads \in Nat \ {0} /\ Lossy \subseteq Cards
  /\ Commanded \subseteq Nodes
  /\ Reports \subseteq {"unknown", "alive", "idle"}

VARIABLES
  line,      \* the subsystem is enabled by its control line
  chip,      \* pin OPD_EN of each chip: "input", or driven "low" or "high"
  dev,       \* state of each MAX7310Driver, "stop" or "ready"
  valid,     \* opd_dev[].valid
  bus,       \* owner of the bus, then the threads waiting for it
  thread,    \* of each thread: the job it does, where it is at (a transfer, a sleep,
             \* a place of the manager), the card or node, the argument (enable or
             \* restart), and the transfers left of opd_status and opd_reset
  known,     \* the node is in the heartbeat consumer's table
  enable,    \* node_state[].enable; the callback is registered as well
  attempts,  \* node_state[].attempts
  state,     \* node_state[].state: "unknown", "alive" or "idle" (any other)
  heard,     \* the state of the node in the heartbeat consumer
  pending,   \* MGR_EVENT_CHANGE waits for the manager
  flags,     \* the flags of its listener
  term,      \* the manager is asked to terminate
  halted,    \* an assertion failed; the watchdog will reset the computer
  byNode,    \* history: node_enable was the last to write the pin
  missed,    \* history: the chip missed the mode register of max7310Stop
  cycled     \* history: power cycles since the node was last reported alive

power == <<line, chip, dev, valid, byNode, missed>>
place == <<bus, thread>>
table == <<known, enable, attempts, state, cycled>>
events == <<heard, pending, flags>>
vars == <<power, place, table, events, term, halted>>

BehindToo(c) == {d \in Cards : d >= c}                            \* variant
Behind(c) == {d \in Cards : d > c}

First(S) == CHOOSE c \in S : \A d \in S : c <= d

Place(j, x, c, b, k) == [job |-> j, at |-> x, card |-> c, arg |-> b, left |-> k]
Idle == Place("none", "idle", 0, FALSE, 0)
Booting == Place("none", "boot", 0, FALSE, 0)

Init ==
  /\ line = FALSE /\ chip = [c \in Cards |-> "input"]
  /\ dev = [c \in Cards |-> "stop"] /\ valid = [c \in Cards |-> FALSE]
  /\ bus = <<>>
  /\ thread = [t \in Threads |-> IF t = "mgr" THEN Booting ELSE Idle]
  /\ known = [n \in Nodes |-> FALSE] /\ enable = [n \in Nodes |-> FALSE]
  /\ attempts = [n \in Nodes |-> 0] /\ state = [n \in Nodes |-> "idle"]
  /\ heard = [n \in Nodes |-> "unknown"]
  /\ pending = FALSE /\ flags = 0 /\ term = FALSE /\ halted = FALSE
  /\ byNode = [c \in Cards |-> FALSE] /\ missed = [c \in Cards |-> FALSE]
  /\ cycled = [n \in Nodes |-> 0]

----------------------------------------------------------------------------
(* Threads on the bus. *)

Set(f, t, x) == f' = [f EXCEPT ![t] = x]

(* The pin of chip c is x after a transfer that is none of node_enable's. *)
Drive(c, x) == Set(chip, c, x) /\ Set(byNode, c, byNode[c] /\ x = chip[c])

Owns(t) == ~halted /\ bus # <<>> /\ Head(bus) = t

ReleasedKept(t) == bus                                           \* variant

(* The bus after t has released it, if it owned it; the mutex goes to the  *)
(* first thread in its queue.                                              *)
Released(t) == IF bus # <<>> /\ Head(bus) = t THEN Tail(bus) ELSE bus

(* Thread t, in the job p, waits for the bus to make transfer x with card c. *)
Acquire(t, p, x, c) ==
  /\ bus' = Append(Released(t), t)
  /\ Set(thread, t, [p EXCEPT !.at = x, !.card = c])

(* Thread t leaves the functions of opd.c. *)
Leave(t, p) ==
  /\ bus' = Released(t)
  /\ Set(thread, t, IF t = "mgr" THEN [p EXCEPT !.at = "ret", !.arg = FALSE] ELSE Idle)

(* osalDbgAssert(devp->state == MAX7310_READY), then the bus. *)
Assert(t, p, x, c) ==
  IF dev[c] = "ready"
  THEN Acquire(t, p, x, c) /\ UNCHANGED halted
  ELSE halted' = TRUE /\ UNCHANGED <<bus, thread>>

(* opd_probe goes on to the next address of opd_scan. *)
NextProbe(t) ==
  LET p == thread[t] IN
  IF Behind(p.card) = {} THEN Leave(t, p) ELSE Acquire(t, p, "probe", First(Behind(p.card)))

(* opd_stop goes on with the addresses todo, after a transfer that has     *)
(* left the chips ch and the drivers dv; a driver that is not ready needs  *)
(* no transfer.  In the end i2cStop, which asserts that nobody is in a     *)
(* transfer, and the control line.                                         *)
StopFrom(t, p, todo, ch, dv) ==
  LET ready == {c \in todo : dv[c] = "ready"}
  IN IF ready # {}
     THEN /\ Acquire(t, p, "off", First(ready))
          /\ valid' = [c \in Cards |-> valid[c] /\ (c \notin todo \/ c >= First(ready))]
          /\ chip' = ch /\ UNCHANGED <<line, halted>>
     ELSE /\ valid' = [c \in Cards |-> valid[c] /\ c \notin todo]
          /\ \/ /\ line' = FALSE /\ chip' = [c \in Cards |-> "input"]
                /\ Leave(t, p) /\ UNCHANGED halted
             \/ /\ bus # <<>> /\ Head(bus) # t
                /\ halted' = TRUE /\ chip' = ch
                /\ UNCHANGED <<line, bus, thread>>

(* What a write of level x to the pin leaves: an input stays one, and a    *)
(* lossy chip may miss the write.                                          *)
Written(c, x) ==
  IF line /\ chip[c] # "input" THEN {x} \cup (IF c \in Lossy THEN {chip[c]} ELSE {})
  ELSE {chip[c]}

(* ... and max7310Stop, the mode register before the output register: one  *)
(* that misses the mode only is driven low.                                *)
Stopped(c) ==
  IF line /\ chip[c] # "input" /\ c \in Lossy THEN {"input", "low", chip[c]} ELSE {"input"}

(* ... and max7310Start, the output register before the mode.  The output  *)
(* register of an input is not kept here: in a lossy chip, which may have  *)
(* missed its reset too, it may be anything.                               *)
Started(c) ==
  CASE ~line -> {chip[c]}
    [] line /\ c \notin Lossy -> {"low"}
    [] line /\ c \in Lossy /\ chip[c] = "input" -> {"input", "low", "high"}
    [] line /\ c \in Lossy /\ chip[c] # "input" -> {"low", chip[c]}

(* ... and a pin of the same chip being set or cleared: the outputs are    *)
(* read, changed and written back, and if the read fails, what is written  *)
(* back is an uninitialised byte.                                          *)
Garbled(c) ==
  IF line /\ chip[c] # "input" /\ c \in Lossy THEN {"low", "high"} ELSE {chip[c]}

----------------------------------------------------------------------------
(* The transfers. *)

At(t, x) == Owns(t) /\ thread[t].at = x

InvalidateNot(c) == UNCHANGED valid                              \* variant
Invalidate(c) == Set(valid, c, FALSE)

StopNever(c) == FALSE                                            \* variant
NeedsStop(c) == dev[c] = "ready"

(* opd_probe. *)
Probe(t) ==
  LET p == thread[t] c == p.card IN
  /\ At(t, "probe")
  /\ \/ /\ line
        /\ IF valid[c] /\ ~p.arg THEN NextProbe(t)
           ELSE Acquire(t, p, IF NeedsStop(c) THEN "stop" ELSE "start", c)
        /\ UNCHANGED valid
     \/ /\ ~line \/ c \in Lossy
        /\ IF NeedsStop(c)
           THEN Acquire(t, p, "fail", c) /\ UNCHANGED valid
           ELSE Invalidate(c) /\ NextProbe(t)
  /\ UNCHANGED <<line, chip, dev, byNode, missed, table, events, term, halted>>

(* max7310Stop, in opd_probe before a restart ("stop") or because there    *)
(* was no response ("fail").                                               *)
Stop(t) ==
  LET p == thread[t] c == p.card IN
  /\ At(t, "stop") \/ At(t, "fail")
  /\ \E x \in Stopped(c) : Drive(c, x) /\ Set(missed, c, x # "input")
  /\ Set(dev, c, "stop")
  /\ IF p.at = "stop"
     THEN Acquire(t, p, "start", c) /\ UNCHANGED valid
     ELSE NextProbe(t) /\ Invalidate(c)
  /\ UNCHANGED <<line, table, events, term, halted>>

(* ... and in opd_stop. *)
StopOff(t) ==
  LET p == thread[t] c == p.card IN
  /\ At(t, "off")
  /\ Set(dev, c, "stop")
  /\ \E x \in Stopped(c) :
       /\ Set(missed, c, x # "input") /\ Set(byNode, c, byNode[c] /\ x = chip[c])
       /\ StopFrom(t, p, {c} \cup Behind(c), [chip EXCEPT ![c] = x], dev')
  /\ UNCHANGED <<table, events, term>>

(* max7310Start, in opd_probe. *)
Start(t) ==
  LET c == thread[t].card IN
  /\ At(t, "start")
  /\ \E x \in Started(c) : Set(chip, c, x)
  /\ Set(dev, c, "ready") /\ Set(valid, c, TRUE)
  /\ Set(byNode, c, FALSE) /\ Set(missed, c, FALSE)
  /\ NextProbe(t)
  /\ UNCHANGED <<line, table, events, term, halted>>

NodeJobs == {"node", "setup", "cycleOff", "cycleOn", "giveUp", "exit"}

(* max7310SetPin and max7310ClearPin of OPD_EN. *)
Pin(t) ==
  LET p == thread[t] c == p.card new == IF p.arg THEN "high" ELSE "low" IN
  /\ At(t, "pin")
  /\ \E x \in Written(c, new) :
       Set(chip, c, x) /\ Set(byNode, c, p.job \in NodeJobs /\ x = new)
  /\ Leave(t, p)
  /\ UNCHANGED <<line, dev, valid, missed, known, enable, attempts, state, cycled>>
  /\ UNCHANGED <<events, term, halted>>

(* A transfer of opd_status, or one of the two of opd_reset, which set and *)
(* clear the reset pin; between these it sleeps.                           *)
Read(t) ==
  LET p == [thread[t] EXCEPT !.left = @ - 1] c == p.card IN
  /\ At(t, "read")
  /\ \E x \in IF p.job = "reset" THEN Garbled(c) ELSE {chip[c]} :
       Drive(c, x)
  /\ IF p.left = 0 THEN Leave(t, p) /\ UNCHANGED halted
     ELSE IF p.job = "status" THEN Assert(t, p, "read", p.card)
     ELSE bus' = Released(t) /\ Set(thread, t, [p EXCEPT !.at = "nap"]) /\ UNCHANGED halted
  /\ UNCHANGED <<line, dev, valid, missed, table, events, term>>

Nap(t) ==
  LET p == thread[t] IN
  /\ ~halted /\ p.at = "nap"
  /\ Assert(t, p, "read", p.card)
  /\ UNCHANGED <<power, table, events, term>>

(* opd_start after the 600 ms: i2cStart, then the scan.                    *)
Warm(t) ==
  LET p == thread[t] IN
  /\ ~halted /\ p.at = "warm"
  /\ \/ Acquire(t, p, "probe", First(Cards)) /\ UNCHANGED halted
     \/ bus # <<>> /\ halted' = TRUE /\ UNCHANGED <<bus, thread>>
  /\ UNCHANGED <<power, table, events, term>>

----------------------------------------------------------------------------
(* The functions of the two modules, called by thread t for its job j.     *)

OpdStart(t, j) ==
  /\ line' = TRUE
  /\ Set(thread, t, Place(j, "warm", 0, TRUE, 0)) /\ UNCHANGED bus

OpdEnable(t, c, j, b) ==
  LET p == Place(j, "ret", c, b, 0)
  IN IF valid[c] THEN Assert(t, p, "pin", c) ELSE Leave(t, p) /\ UNCHANGED halted

NodeEnableSticky(t, n, j, b) ==                                  \* variant
  /\ Set(enable, n, b \/ enable[n])
  /\ IF n \in Cards THEN OpdEnable(t, n, j, b)
     ELSE Leave(t, Place(j, "ret", n, b, 0)) /\ UNCHANGED halted
(* node_enable; what opd_enable returns is ignored. *)
NodeEnable(t, n, j, b) ==
  /\ Set(enable, n, b)
  /\ IF n \in Cards THEN OpdEnable(t, n, j, b)
     ELSE Leave(t, Place(j, "ret", n, b, 0)) /\ UNCHANGED halted

----------------------------------------------------------------------------
(* Ground commands (cmd.c); none is received before the manager has begun. *)

Free(t) == ~halted /\ thread[t].at = "idle" /\ thread["mgr"].at # "boot"

NodeCommand(t) ==
  /\ Free(t)
  /\ \E n \in Commanded, b \in BOOLEAN : known[n] /\ NodeEnable(t, n, "node", b)
  /\ UNCHANGED <<power, known, attempts, state, cycled, events, term>>

EnableCommand(t) ==
  /\ Free(t)
  /\ \E c \in Cards, b \in BOOLEAN : OpdEnable(t, c, "opd", b)
  /\ UNCHANGED <<power, table, events, term>>

StartCommand(t) ==
  /\ Free(t)
  /\ OpdStart(t, "start")
  /\ UNCHANGED <<chip, dev, valid, byNode, missed, table, events, term, halted>>

StopCommand(t) ==
  /\ Free(t)
  /\ StopFrom(t, Place("stop", "ret", 0, FALSE, 0), Cards, chip, dev)
  /\ UNCHANGED <<dev, byNode, missed, table, events, term>>

ScanCommand(t) ==
  /\ Free(t)
  /\ \E b \in BOOLEAN : Acquire(t, Place("scan", "ret", 0, b, 0), "probe", First(Cards))
  /\ UNCHANGED <<power, table, events, term, halted>>

ReadCommand(t) ==
  /\ Free(t)
  /\ \E c \in Cards :
       /\ valid[c]
       /\ \/ Assert(t, Place("status", "ret", c, FALSE, Reads), "read", c)
          \/ Assert(t, Place("reset", "ret", c, FALSE, 2), "read", c)
  /\ UNCHANGED <<power, table, events, term>>

----------------------------------------------------------------------------
(* The manager's thread. *)

mgr == thread["mgr"]
Manager(x) == ~halted /\ mgr.at = x

Go(x, n) == Set(thread, "mgr", Place("none", x, n, FALSE, 0)) /\ UNCHANGED bus

(* The loop's condition, then the wait for an event or the end.            *)
Loop == IF term THEN Go("exit", 0) ELSE Go("wait", 0)

MgrBoot ==
  /\ Manager("boot")
  /\ OpdStart("mgr", "boot")
  /\ UNCHANGED <<chip, dev, valid, byNode, missed, table, events, term, halted>>

(* One entry of the table of nodes. *)
MgrSetup ==
  LET n == mgr.card IN
  /\ Manager("setup")
  /\ Set(known, n, TRUE) /\ Set(attempts, n, 0)
  /\ IF n \notin Cards \/ n \in Autostart
     THEN NodeEnable("mgr", n, "setup", TRUE)
     ELSE /\ Leave("mgr", Place("setup", "ret", n, FALSE, 0))
          /\ UNCHANGED <<enable, halted>>
  /\ UNCHANGED <<power, state, cycled, events, term>>

(* Back from opd.c; attempts is incremented after the cycle.               *)
AttemptUncounted(n) == attempts[n]                               \* variant
Attempt(n) == attempts[n] + 1

MgrReturn ==
  LET n == mgr.card j == mgr.job IN
  /\ Manager("ret")
  /\ CASE j = "boot" -> Go("setup", 0)
       [] j \in {"setup", "exit"} /\ n + 1 \in Nodes -> Go(j, n + 1)
       [] j = "exit" /\ n + 1 \notin Nodes -> Go("close", 0)
       [] j = "cycleOff" -> Go("pause", n)
       [] j = "stop" -> Go("gone", 0)
       [] OTHER -> Loop
  /\ IF j = "cycleOn" THEN Set(attempts, n, Attempt(n)) ELSE UNCHANGED attempts
  /\ IF j = "exit"
     THEN Set(known, n, FALSE) /\ Set(heard, n, "unknown")
     ELSE UNCHANGED <<known, heard>>
  /\ UNCHANGED <<power, enable, state, cycled, pending, flags, term, halted>>

(* chEvtWaitAnyTimeout returns ... *)
MgrWake ==
  /\ Manager("wait") /\ pending
  /\ pending' = FALSE
  /\ Go("woken", 0)
  /\ UNCHANGED <<power, table, heard, flags, term, halted>>

MayCycleOnce(n) == attempts[n] <= Limit                          \* variant
MayCycle(n) == attempts[n] < Limit

(* ... and the flags are read as an index; an entry behind the table is    *)
(* zero and nothing happens.                                               *)
MgrHandle ==
  LET n == flags IN
  /\ Manager("woken")
  /\ flags' = 0
  /\ IF n \in Cards /\ state[n] = "unknown" /\ enable[n]
     THEN /\ IF MayCycle(n)
             THEN NodeEnable("mgr", n, "cycleOff", FALSE) /\ Set(cycled, n, cycled[n] + 1)
             ELSE NodeEnable("mgr", n, "giveUp", FALSE) /\ UNCHANGED cycled
          /\ UNCHANGED attempts
     ELSE /\ Loop
          /\ attempts' = [k \in Nodes |->
                            IF k = n /\ state[k] = "alive" THEN 0 ELSE attempts[k]]
          /\ UNCHANGED <<enable, cycled, halted>>
  /\ UNCHANGED <<power, known, state, heard, pending, term>>

(* The half second of a power cycle is over. *)
MgrPause ==
  /\ Manager("pause")
  /\ NodeEnable("mgr", mgr.card, "cycleOn", TRUE)
  /\ UNCHANGED <<power, known, attempts, state, cycled, events, term>>

(* After the loop the listener is gone and every node is disabled and      *)
(* taken out of the heartbeat consumer, then opd_stop.                     *)
MgrExit ==
  /\ Manager("exit")
  /\ pending' = FALSE /\ flags' = 0
  /\ NodeEnable("mgr", mgr.card, "exit", FALSE)
  /\ UNCHANGED <<power, known, attempts, state, cycled, heard, term>>

MgrClose ==
  /\ Manager("close")
  /\ StopFrom("mgr", Place("stop", "ret", 0, FALSE, 0), Cards, chip, dev)
  /\ UNCHANGED <<dev, byNode, missed, table, events, term>>

----------------------------------------------------------------------------
(* Heartbeats and resets. *)

Powered(n) == n \in Cards => line /\ chip[n] = "high"

(* The manager has registered on the event. *)
Listening ==
  mgr.at \in {"wait", "woken", "pause"} \/ mgr.job \in {"cycleOff", "cycleOn", "giveUp"}

(* The union of the bits of two indices, which are less than 16.           *)
Or(a, b) ==
  LET bit(k) == IF (a \div k) % 2 = 1 \/ (b \div k) % 2 = 1 THEN k ELSE 0
  IN bit(1) + bit(2) + bit(4) + bit(8)

(* The consumer hears node n, or no longer, and calls node_change_cb if it *)
(* is registered.                                                          *)
Heartbeat(n, s) ==
  /\ ~halted /\ known[n] /\ heard[n] # s
  /\ s # "unknown" => Powered(n)
  /\ Set(heard, n, s)
  /\ IF enable[n]
     THEN /\ Set(state, n, s)
          /\ Set(cycled, n, IF s = "alive" THEN 0 ELSE cycled[n])
          /\ IF Listening
             THEN pending' = TRUE /\ flags' = Or(flags, n)
             ELSE UNCHANGED <<pending, flags>>
     ELSE UNCHANGED <<state, cycled, pending, flags>>
  /\ UNCHANGED <<power, place, known, enable, attempts, term, halted>>

(* stop_workers, called by the daily reset, asks without sending an event. *)
Terminate ==
  /\ ~halted /\ ~term
  /\ term' = TRUE
  /\ UNCHANGED <<power, place, table, events, halted>>

(* The watchdog after an assertion, or the reset the manager ends for.     *)
(* The control line goes back to off.                                      *)
Reset ==
  /\ halted \/ mgr.at = "gone"
  /\ line' = FALSE /\ chip' = [c \in Cards |-> "input"]
  /\ dev' = [c \in Cards |-> "stop"] /\ valid' = [c \in Cards |-> FALSE]
  /\ bus' = <<>>
  /\ thread' = [t \in Threads |-> IF t = "mgr" THEN Booting ELSE Idle]
  /\ known' = [n \in Nodes |-> FALSE] /\ enable' = [n \in Nodes |-> FALSE]
  /\ attempts' = [n \in Nodes |-> 0] /\ state' = [n \in Nodes |-> "idle"]
  /\ heard' = [n \in Nodes |-> "unknown"]
  /\ pending' = FALSE /\ flags' = 0 /\ term' = FALSE /\ halted' = FALSE
  /\ byNode' = [c \in Cards |-> FALSE] /\ missed' = [c \in Cards |-> FALSE]
  /\ cycled' = [n \in Nodes |-> 0]

----------------------------------------------------------------------------
Command(t) == NodeCommand(t) \/ EnableCommand(t) \/ StartCommand(t) \/ StopCommand(t)
              \/ ScanCommand(t) \/ ReadCommand(t)

Transfer(t) == Probe(t) \/ Stop(t) \/ StopOff(t) \/ Start(t) \/ Pin(t) \/ Read(t)
               \/ Nap(t) \/ Warm(t)

MgrStep == MgrBoot \/ MgrSetup \/ MgrReturn \/ MgrWake \/ MgrHandle \/ MgrPause
           \/ MgrExit \/ MgrClose

Next ==
  \/ \E t \in Ground : Command(t)
  \/ \E t \in Threads : Transfer(t)
  \/ MgrStep
  \/ \E n \in Nodes, s \in Reports : Heartbeat(n, s)
  \/ Terminate
  \/ Reset

(* Threads run on, transfers and sleeps end, the watchdog bites; nobody    *)
(* has to send a command or a heartbeat.                                   *)
Fairness ==
  /\ \A t \in Threads : WF_vars(Transfer(t))
  /\ WF_vars(MgrStep) /\ WF_vars(halted /\ Reset)

Spec == Init /\ [][Next]_vars /\ Fairness

----------------------------------------------------------------------------
(* Every variable keeps its type. *)
Transfers == {"probe", "stop", "fail", "start", "off", "pin", "read"}
Steps == Transfers \cup {"boot", "warm", "nap", "idle", "ret", "setup", "wait", "woken",
                         "pause", "exit", "close", "gone"}
Jobs == NodeJobs \cup {"none", "boot", "start", "scan", "stop", "opd", "status", "reset"}

TypeOK ==
  /\ line \in BOOLEAN /\ chip \in [Cards -> {"input", "low", "high"}]
  /\ dev \in [Cards -> {"stop", "ready"}] /\ valid \in [Cards -> BOOLEAN]
  /\ bus \in Seq(Threads)
  /\ thread \in [Threads ->
                   [job : Jobs, at : Steps, card : Nodes, arg : BOOLEAN, left : Nat]]
  /\ known \in [Nodes -> BOOLEAN] /\ enable \in [Nodes -> BOOLEAN]
  /\ attempts \in [Nodes -> 0 .. Limit]
  /\ state \in [Nodes -> {"unknown", "alive", "idle"}]
  /\ heard \in [Nodes -> {"unknown", "alive", "idle"}]
  /\ pending \in BOOLEAN /\ flags \in 0 .. 15 /\ term \in BOOLEAN /\ halted \in BOOLEAN
  /\ byNode \in [Cards -> BOOLEAN] /\ missed \in [Cards -> BOOLEAN]
  /\ cycled \in [Nodes -> Nat]

(* A thread is in the bus's queue, once, exactly while it is at a transfer:*)
(* nobody transfers without the mutex, and nobody keeps it.                *)
BusDiscipline ==
  \A t \in Threads :
    /\ (\E i \in 1 .. Len(bus) : bus[i] = t) <=> thread[t].at \in Transfers
    /\ \A i, j \in 1 .. Len(bus) : bus[i] = t /\ bus[j] = t => i = j

(* A chip that drives its card's pins is one the driver can switch off:    *)
(* whatever scans, stops and commands of two threads do to each other, no  *)
(* card stays powered behind the back of opd_enable, which refuses a       *)
(* device that is not valid; unless the chip missed max7310Stop.           *)
DrivenIsControlled ==
  \A c \in Cards : chip[c] # "input" => (valid[c] /\ dev[c] = "ready") \/ missed[c]

(* max7310SetPin asserts that a device found valid is ready: the one time  *)
(* it is not is while a restart by another thread is on its way.           *)
AssertWindow ==
  \A c \in Cards :
    valid[c] /\ dev[c] = "stop" =>
      \E t \in Threads : thread[t].at = "start" /\ thread[t].card = c

(* Thread t is about to write the pin of card c for node_enable. *)
Pins(t, c) == thread[t].at = "pin" /\ thread[t].card = c /\ thread[t].job \in NodeJobs

(* The flag enable, which node_status reports and the callback follows, is *)
(* set before the wait for the bus, and the pin written after it; and a    *)
(* command that finds the device not valid sets the flag alone, while an   *)
(* earlier one may still wait to write the pin.  Commands for one node on  *)
(* several threads, and the manager, still leave the two in agreement.     *)
PinFollowsEnable ==
  \A c \in Cards :
    byNode[c] /\ valid[c] /\ chip[c] # "input" /\ ~halted
    /\ (\A t \in Threads : ~Pins(t, c))
      => (chip[c] = "high" <=> enable[c])

(* A card is not power cycled more than Limit times without having been    *)
(* reported alive, although flags of different nodes are merged.           *)
CyclesBounded == \A n \in Nodes : cycled[n] <= Limit

(* A command comes to an end, or the watchdog ends it. *)
CommandsReturn == \A t \in Ground : thread[t] # Idle ~> thread[t] = Idle
==============================================================================
