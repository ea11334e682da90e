--------------------------------- MODULE Link ---------------------------------
(***************************************************************************)
(* The ground link of the flight computer: the frame buffers of radio.c,   *)
(* which wander between the receive workers of the two AX5043 radios       *)
(* (common/ax5043.c), the EDL thread and the TX worker (comms.c), the      *)
(* beacon thread (beacon.c) and the two FIFOs; the transmit lock of the    *)
(* UHF radio; and the sequence count of authenticated commands (hmac.c),   *)
(* which reaches FRAM with c3's saves.                                     *)
(*                                                                         *)
(* A pool is the number of its free buffers.  The receive workers have the *)
(* highest priority; the other threads change where one blocks: in a FIFO, *)
(* on the lock, in a join, in a transfer of a transmission, in a command.  *)
(* Of c3, which module C3 is about, the module has how far it is past a    *)
(* reset, its saves, and what it does to the beacon thread.                *)
(*                                                                         *)
(* External: the uslp library checks a frame, calls hmac_recv for those of *)
(* virtual channel 0 ("cmd") and then the handler of the frame's channel.  *)
(* Left out: wake-on-radio and channel B, which nobody asks for,           *)
(* ax5043TXRaw and the shell's radio tests, and comms_stop, which nobody   *)
(* calls.                                                                  *)
(***************************************************************************)
EXTENDS Integers, Sequences

CONSTANTS
  RxBufs, TxBufs,  \* RADIO_FIFO_COUNT, 8 in the code
  Last,            \* BOUND: the highest sequence number the ground sends
  Kinds,           \* BOUND: the frames the ground sends
  MayFail          \* whether a PLL may fail to lock

Radios == {"lband", "uhf"}
Threads == {"edl", "tx", "beacon"}
AllKinds == {"cmd", "file", "beacon", "bad"}

ASSUME LinkAssumption ==
  /\ RxBufs \in Nat \ {0} /\ TxBufs \in Nat \ {0}
  /\ Last \in Nat /\ Kinds \subseteq AllKinds /\ MayFail \in BOOLEAN

Frames == {f \in [kind : Kinds, seq : 0 .. Last] : f.kind # "cmd" => f.seq = 0}

VARIABLES
  rxFree,    \* free buffers of rx_fifo
  rxMail,    \* the frames sent to rx_fifo and not received yet
  txFree,    \* free buffers of tx_fifo
  txMail,    \* frames sent to tx_fifo and not received yet
  worker,    \* the receive worker of each radio: "none", "wait" for a chunk, "have" a
             \* part of a frame, "stray" (the rest of an aborted frame may come) or
             \* "alloc" (waiting for a buffer)
  asked,     \* ax5043Idle has asked the worker of the UHF radio to end
  radio,     \* state of the UHF driver: "ready", "rx" or "tx"
  prev,      \* prev_state of the transmission, "ready" outside one
  lock,      \* owner of the UHF radio's tx_lock, "none" if there is none
  at,        \* where each thread is: "off", "idle" (at the top of its loop), "alloc",
             \* "work" (in a command), "lock", "join" or "send" (in ax5043TX)
  job,       \* what the EDL thread handles: a "beacon", or a "reply" as otherwise
  stop,      \* c3 has asked the beacon thread to end and joins it
  told,      \* the EDL event is pending at c3
  mode,      \* c3's mode, "orbit" for STANDBY, BEACON and EDL
  count,     \* EDL_SequenceCount
  saved,     \* ... in FRAM
  accepted,  \* history: how often each number was accepted
  kept       \* history: ... before the last save

rx == <<rxFree, rxMail, worker>>
tx == <<txFree, txMail>>
uhf == <<asked, radio, prev, lock>>
edl == <<count, job, told, accepted>>
c3 == <<mode, stop, saved, kept>>
vars == <<rx, tx, uhf, edl, c3, at>>

(* What ax5043RX leaves of a worker: none if the PLL does not lock. *)
Receiving == IF MayFail THEN {"wait", "none"} ELSE {"wait"}

Init ==
  /\ rxFree = RxBufs /\ rxMail = <<>> /\ txFree = TxBufs /\ txMail = 0
  /\ worker \in [Radios -> Receiving]
  /\ asked = FALSE /\ lock = "none" /\ prev = "ready"
  /\ radio = IF worker["uhf"] = "none" THEN "ready" ELSE "rx"
  /\ at = [t \in Threads |-> IF t = "beacon" THEN "off" ELSE "idle"]
  /\ job = "reply" /\ stop = FALSE /\ told = FALSE /\ mode = "predeploy"
  /\ count = 0 /\ saved = 0
  /\ accepted = [s \in 0 .. Last |-> 0] /\ kept = [s \in 0 .. Last |-> 0]

(* A reset, which may come at any time.  A save that it cuts off leaves an *)
(* image that is ignored, a factory reset leaves none, and the count       *)
(* begins at zero again.                                                   *)
Reset ==
  /\ \/ saved' = saved /\ kept' = kept
     \/ saved' = 0 /\ kept' = [s \in 0 .. Last |-> 0]
  /\ count' = saved' /\ accepted' = kept'
  /\ rxFree' = RxBufs /\ rxMail' = <<>> /\ txFree' = TxBufs /\ txMail' = 0
  /\ worker' \in [Radios -> Receiving]
  /\ asked' = FALSE /\ lock' = "none" /\ prev' = "ready"
  /\ radio' = IF worker'["uhf"] = "none" THEN "ready" ELSE "rx"
  /\ at' = [t \in Threads |-> IF t = "beacon" THEN "off" ELSE "idle"]
  /\ job' = "reply" /\ stop' = FALSE /\ told' = FALSE
  /\ mode' = "predeploy"

----------------------------------------------------------------------------
(* The receive workers: rx_worker of ax5043.c, one chunk from the chip's   *)
(* FIFO at a time.  A definition called a variant is a plausible mistake   *)
(* in the one after it; nothing uses it but the mutants in PROJECT.json.   *)

Work(r, w) == worker' = [worker EXCEPT ![r] = w]

(* Worker r waits for chunks; an event that asks it to end comes first.    *)
Listens(r) == worker[r] \in {"wait", "have", "stray"} /\ ~(r = "uhf" /\ asked)

HeldAlways(r) == 1                                              \* variant
(* The buffers worker r frees when it drops its part of a frame. *)
Held(r) == IF worker[r] = "have" THEN 1 ELSE 0

(* A chunk that begins a packet: a part left of another is dropped.        *)
PacketStart(r) ==
  /\ Listens(r)
  /\ rxFree' = rxFree + Held(r)
  /\ Work(r, "alloc")
  /\ UNCHANGED <<rxMail, tx, uhf, edl, c3, at>>

Deliver(r, f) == rxMail' = Append(rxMail, f) /\ Work(r, "wait")

(* fb_alloc returns; the chunk may be the whole packet. *)
TakeBuffer(r) ==
  /\ worker[r] = "alloc" /\ rxFree > 0
  /\ rxFree' = rxFree - 1
  /\ \/ Work(r, "have") /\ UNCHANGED rxMail
     \/ \E f \in Frames : Deliver(r, f)
  /\ UNCHANGED <<tx, uhf, edl, c3, at>>

PacketEnd(r) ==
  /\ Listens(r) /\ worker[r] = "have"
  /\ \E f \in Frames : Deliver(r, f)
  /\ UNCHANGED <<rxFree, tx, uhf, edl, c3, at>>

AbortedKept == {"have"}                                         \* variant
(* Without a buffer; a chunk of the packet may be in the chip's FIFO yet.  *)
Aborted == {"wait", "stray"}

(* The packet is longer than a frame buffer. *)
Overflow(r) ==
  /\ Listens(r) /\ worker[r] = "have"
  /\ rxFree' = rxFree + 1
  /\ \E w \in Aborted : Work(r, w)
  /\ UNCHANGED <<rxMail, tx, uhf, edl, c3, at>>

(* Another chunk of that packet meets osalDbgAssert(fb != NULL): nothing   *)
(* runs any more until the watchdog resets the computer.                   *)
StrayChunk(r) ==
  /\ Listens(r) /\ worker[r] = "stray"
  /\ Reset

ExitKeeps == 0                                                  \* variant
ExitFrees == Held("uhf")

BetweenPackets == {"wait", "stray"}                             \* variant
(* Where the event reaches it. *)
Interruptible == {"wait", "have", "stray"}

(* The worker of the UHF radio ends and frees its part of a frame.         *)
WorkerExit ==
  /\ asked /\ worker["uhf"] \in Interruptible
  /\ rxFree' = rxFree + ExitFrees
  /\ Work("uhf", "none")
  /\ UNCHANGED <<rxMail, tx, uhf, edl, c3, at>>

----------------------------------------------------------------------------
(* ax5043TX, called by thread t. *)

Place(t, x) == at' = [at EXCEPT ![t] = x]

(* chMtxLock, then ax5043Idle asks the receive worker to end.              *)
Lock(t) ==
  /\ at[t] = "lock" /\ lock = "none"
  /\ lock' = t /\ prev' = radio
  /\ asked' = (radio = "rx")
  /\ Place(t, "join")
  /\ UNCHANGED <<rx, tx, radio, edl, c3>>

JoinedAtOnce == TRUE                                            \* variant
(* chThdWait returns. *)
Joined == worker["uhf"] = "none"

ToldNever == told                                               \* variant
(* edl_enable(true) signals c3, but not in PREDEPLOY. *)
ToldC3 == told \/ mode # "predeploy"

(* The thread has returned from ax5043TX; it frees its buffer.  The EDL    *)
(* thread goes on as it does after every frame uslp_recv accepts.          *)
Return(t) ==
  /\ txFree' = txFree + 1 /\ UNCHANGED txMail
  /\ IF t = "edl" THEN rxFree' = rxFree + 1 /\ told' = ToldC3
     ELSE UNCHANGED <<rxFree, told>>
  /\ Place(t, "idle")
  /\ prev' = "ready" /\ job' = IF t = "edl" THEN "reply" ELSE job
  /\ UNCHANGED <<rxMail, count, accepted, c3>>

(* The receiver is off and the PLL locks: the transmission begins. *)
Transmit(t) ==
  /\ at[t] = "join" /\ Joined
  /\ asked' = FALSE /\ radio' = "tx"
  /\ Place(t, "send")
  /\ UNCHANGED <<rx, tx, prev, lock, edl, c3>>

(* ... or it does not: ax5043TX returns, and nothing but the power mode is *)
(* put back.                                                               *)
TransmitFails(t) ==
  /\ at[t] = "join" /\ Joined /\ MayFail
  /\ asked' = FALSE /\ radio' = "ready"
  /\ Return(t)
  /\ UNCHANGED <<worker, lock>>

(* The transmission is over, and the radio receives again if it did        *)
(* before and the PLL locks.                                               *)
Sent(t) ==
  /\ at[t] = "send"
  /\ IF prev = "rx"
     THEN \E w \in Receiving :
            Work("uhf", w) /\ radio' = IF w = "none" THEN "ready" ELSE "rx"
     ELSE radio' = "ready" /\ UNCHANGED worker
  /\ lock' = "none"
  /\ Return(t)
  /\ UNCHANGED asked

----------------------------------------------------------------------------
(* The threads that call it. *)

(* tx_worker. *)
TxReceive ==
  /\ at["tx"] = "idle" /\ txMail > 0
  /\ txMail' = txMail - 1
  /\ Place("tx", "lock")
  /\ UNCHANGED <<rx, txFree, uhf, edl, c3>>

(* beacon_enable, called by c3, which joins the thread to turn it off.     *)
BeaconOn ==
  /\ at["beacon"] = "off" /\ mode = "orbit"
  /\ Place("beacon", "idle")
  /\ UNCHANGED <<rx, tx, uhf, edl, c3>>

BeaconOff ==
  /\ at["beacon"] # "off" /\ ~stop
  /\ stop' = TRUE
  /\ UNCHANGED <<rx, tx, uhf, edl, mode, saved, kept, at>>

EndsNever == FALSE                                              \* variant
Ends == stop

(* The loop of beacon, at its start and when an interval is over. *)
BeaconWake ==
  /\ at["beacon"] = "idle"
  /\ Place("beacon", IF Ends THEN "off" ELSE "alloc")
  /\ stop' = (stop /\ ~Ends)
  /\ UNCHANGED <<rx, tx, uhf, edl, mode, saved, kept>>

(* beacon_send after fb_alloc, called by the beacon thread or for a frame. *)
BeaconAlloc ==
  /\ at["beacon"] = "alloc" /\ txFree > 0
  /\ txFree' = txFree - 1
  /\ Place("beacon", "lock")
  /\ UNCHANGED <<rx, txMail, uhf, edl, c3>>

NextSeqSame(s) == s                                             \* variant
(* hmac_recv. *)
NextSeq(s) == s + 1
Fresh(f) == f.kind = "cmd" => f.seq >= count

(* edl_thd receives a frame that uslp_recv refuses ... *)
EdlReject ==
  /\ at["edl"] = "idle" /\ rxMail # <<>>
  /\ Head(rxMail).kind = "bad" \/ ~Fresh(Head(rxMail))
  /\ rxMail' = Tail(rxMail) /\ rxFree' = rxFree + 1
  /\ UNCHANGED <<worker, tx, uhf, edl, c3, at>>

(* ... or hands to comms_cmd, comms_file or comms_beacon. *)
EdlAccept ==
  LET f == Head(rxMail) IN
  /\ at["edl"] = "idle" /\ rxMail # <<>>
  /\ f.kind # "bad" /\ Fresh(f)
  /\ rxMail' = Tail(rxMail)
  /\ IF f.kind = "cmd"
     THEN count' = NextSeq(f.seq) /\ accepted' = [accepted EXCEPT ![f.seq] = @ + 1]
     ELSE UNCHANGED <<count, accepted>>
  /\ job' = IF f.kind = "beacon" THEN "beacon" ELSE "reply"
  /\ Place("edl", "alloc")
  /\ UNCHANGED <<rxFree, worker, tx, uhf, told, c3>>

EdlAlloc ==
  /\ at["edl"] = "alloc" /\ txFree > 0
  /\ txFree' = txFree - 1
  /\ Place("edl", IF job = "beacon" THEN "lock" ELSE "work")
  /\ UNCHANGED <<rx, txMail, uhf, edl, c3>>

(* The command is carried out: uslp_map_send, edl_enable(true), fb_free.   *)
EdlReply ==
  /\ at["edl"] = "work"
  /\ txMail' = txMail + 1
  /\ told' = ToldC3
  /\ rxFree' = rxFree + 1
  /\ Place("edl", "idle")
  /\ UNCHANGED <<rxMail, worker, txFree, uhf, count, job, accepted, c3>>

----------------------------------------------------------------------------
(* c3's saves: c3StateSave, which saves nothing in PREDEPLOY.              *)
Store == saved' = count /\ kept' = accepted

(* c3 ends an iteration past PREDEPLOY, or the EDL thread is in a command  *)
(* that resets the computer.                                               *)
Save ==
  /\ mode # "predeploy"
  /\ ~stop \/ at["edl"] = "work"
  /\ Store
  /\ UNCHANGED <<rx, tx, uhf, edl, mode, stop, at>>

(* The wait of STANDBY, BEACON or EDL returns with the EDL event, and c3   *)
(* saves.  The waits of PREDEPLOY and DEPLOY leave it pending.             *)
EdlEvent ==
  /\ ~stop /\ mode = "orbit" /\ told
  /\ told' = FALSE
  /\ Store
  /\ UNCHANGED <<rx, tx, uhf, count, job, accepted, mode, stop, at>>

(* c3 goes from PREDEPLOY to DEPLOY or from there to STANDBY, and saves.   *)
NextMode ==
  /\ mode # "orbit"
  /\ mode' = IF mode = "predeploy" THEN "deploy" ELSE "orbit"
  /\ Store
  /\ UNCHANGED <<rx, tx, uhf, edl, stop, at>>

----------------------------------------------------------------------------
Receive(r) == PacketStart(r) \/ TakeBuffer(r) \/ PacketEnd(r) \/ Overflow(r) \/ StrayChunk(r)

Ax5043TX(t) == Lock(t) \/ Transmit(t) \/ TransmitFails(t) \/ Sent(t)

EdlThd == EdlReject \/ EdlAccept \/ EdlAlloc \/ EdlReply \/ Ax5043TX("edl")

TxWorker == TxReceive \/ Ax5043TX("tx")

Beacon == BeaconWake \/ BeaconAlloc \/ Ax5043TX("beacon")

Next ==
  \/ \E r \in Radios : Receive(r)
  \/ WorkerExit
  \/ EdlThd
  \/ TxWorker
  \/ BeaconOn \/ BeaconOff \/ Beacon
  \/ Save \/ EdlEvent \/ NextMode
  \/ Reset

(* Threads run on, and transmissions and commands end, but for hard_reset, *)
(* which may wait for the node manager and is left out.  A buffer and the  *)
(* lock are handed to those who wait for them in turn, and c3, between two *)
(* joins, comes to the wait for an event: hence SF.  Nobody has to send    *)
(* anything or to switch the beacon, nor c3 to leave a mode.               *)
Fairness ==
  /\ SF_vars(TakeBuffer("lband"))
  /\ SF_vars(TakeBuffer("uhf") \/ WorkerExit)
  /\ SF_vars(EdlThd) /\ SF_vars(TxWorker) /\ SF_vars(Beacon)
  /\ SF_vars(EdlEvent)

Spec == Init /\ [][Next]_vars /\ Fairness

----------------------------------------------------------------------------
(* Every variable keeps its type. *)
TypeOK ==
  /\ rxFree \in 0 .. RxBufs /\ rxMail \in Seq(Frames)
  /\ txFree \in 0 .. TxBufs /\ txMail \in 0 .. TxBufs
  /\ worker \in [Radios -> {"none", "wait", "have", "stray", "alloc"}]
  /\ asked \in BOOLEAN /\ radio \in {"ready", "rx", "tx"} /\ prev \in {"ready", "rx"}
  /\ lock \in Threads \cup {"none"}
  /\ at \in [Threads -> {"off", "idle", "alloc", "work", "lock", "join", "send"}]
  /\ job \in {"reply", "beacon"} /\ stop \in BOOLEAN /\ told \in BOOLEAN
  /\ mode \in {"predeploy", "deploy", "orbit"}
  /\ count \in 0 .. Last + 1 /\ saved \in 0 .. Last + 1
  /\ accepted \in [0 .. Last -> Nat] /\ kept \in [0 .. Last -> Nat]

One(b) == IF b THEN 1 ELSE 0

(* Every frame buffer has one owner: a pool, a FIFO or a thread.  None is  *)
(* lost and none is freed twice on any path of the workers, the EDL thread *)
(* and the senders, whatever is aborted, joined or refused.                *)
BuffersConserved ==
  /\ rxFree + Len(rxMail) + One(worker["lband"] = "have") + One(worker["uhf"] = "have")
       + One(at["edl"] # "idle") = RxBufs
  /\ txFree + txMail + One(at["edl"] \in {"work", "lock", "join", "send"})
       + One(at["tx"] # "idle") + One(at["beacon"] \in {"lock", "join", "send"}) = TxBufs

(* The UHF radio is used by one at a time: a transmission has the lock and *)
(* no receive worker reads the chip's FIFO during it, and the worker runs  *)
(* exactly while the driver's state says it receives.                      *)
HalfDuplex ==
  /\ \A t \in Threads : at[t] \in {"join", "send"} => lock = t
  /\ \A t \in Threads : at[t] = "send" => radio = "tx" /\ worker["uhf"] = "none"
  /\ radio = "rx" /\ ~asked => worker["uhf"] # "none"
  /\ radio # "rx" => worker["uhf"] = "none"

(* No sequence number is accepted twice, over resets and repeated frames,  *)
(* as long as the image of the count in FRAM holds; what was accepted      *)
(* after the last save before a reset may come again.                      *)
AcceptedOnce == \A s \in 0 .. Last : accepted[s] <= 1

(* What stops the link for good: a transmission whose PLL did not lock has *)
(* left with the lock (ax5043.c:681) ...                                   *)
Leaked == lock # "none" /\ at[lock] \notin {"join", "send"}

(* ... or the EDL thread waits for a transmission to end, that one for the *)
(* receive worker to end, and the worker for a buffer only the EDL thread  *)
(* can free.                                                               *)
Cycle ==
  /\ worker["uhf"] = "alloc" /\ asked /\ rxFree = 0
  /\ \/ at["edl"] \in {"lock", "join"}
     \/ at["edl"] = "alloc" /\ txFree = 0

Stuck == Leaked \/ Cycle

(* Somebody waits for a buffer, the lock, the end of the worker or of a    *)
(* transmission.                                                           *)
Waiting ==
  \/ at["edl"] # "idle" \/ at["tx"] # "idle" \/ at["beacon"] \notin {"off", "idle"}
  \/ \E r \in Radios : worker[r] = "alloc"

(* A thread has what it waits for, and goes on without a word from outside.*)
GoesOn ==
  \/ at["edl"] = "work"
  \/ at["edl"] = "idle" /\ rxMail # <<>>
  \/ at["tx"] = "idle" /\ txMail > 0
  \/ txFree > 0 /\ \E t \in Threads : at[t] = "alloc"
  \/ rxFree > 0 /\ \E r \in Radios : worker[r] = "alloc"
  \/ asked /\ worker["uhf"] \in Interruptible
  \/ \E t \in Threads :
       at[t] = "send" \/ (at[t] = "join" /\ Joined) \/ (at[t] = "lock" /\ lock = "none")

(* Everyone waiting on everyone: whoever waits, for whatever, someone of   *)
(* the threads and workers can go on, unless the link is stuck in one of   *)
(* the two ways above.  It takes two frame buffers for reception, as one   *)
(* may be kept for the rest of a packet that never comes.                  *)
NoOtherDeadlock == ~Stuck /\ Waiting => GoesOn

(* A frame the EDL thread works on is finished, with its reply or beacon:  *)
(* there is no other way for the pools, the lock and the join to hold it   *)
(* up for ever than the two of Stuck.                                      *)
EdlReturns == at["edl"] # "idle" ~> at["edl"] = "idle" \/ Stuck

(* The L-Band radio, over which the ground commands the satellite, gets    *)
(* the frame buffer it waits for, although the UHF radio, restarted around *)
(* each transmission, takes buffers from the same pool.                    *)
ReceptionResumes == worker["lband"] = "alloc" ~> worker["lband"] # "alloc" \/ Stuck

(* c3 can join the beacon thread, which module C3 takes for granted.       *)
BeaconJoined == stop ~> ~stop \/ Stuck

(* In STANDBY, BEACON and EDL the count of an accepted command reaches     *)
(* FRAM, by c3's save after the EDL event or by an earlier one.  The count *)
(* of one accepted before, in PREDEPLOY and DEPLOY, reaches it too.        *)
CountSaved == saved # count /\ mode = "orbit" ~> saved = count \/ Stuck
==============================================================================
