------------------------------ MODULE LinkProofs ------------------------------
(***************************************************************************)
(* Proofs about the ground link: for every number of frame buffers and     *)
(* every sequence number, buffers are neither lost nor freed twice, the    *)
(* UHF radio is half duplex, and no command is accepted twice as long as   *)
(* its count is kept.                                                      *)
(***************************************************************************)
EXTENDS Link, TLAPS

(* Where each thread can be. *)
Places ==
  /\ at["edl"] \in {"idle", "alloc", "work", "lock", "join", "send"}
  /\ at["tx"] \in {"idle", "lock", "join", "send"}
  /\ at["beacon"] \in {"off", "idle", "alloc", "lock", "join", "send"}

(* Types without the bounds that follow from BuffersConserved.             *)
Types ==
  /\ rxFree \in Nat /\ rxMail \in Seq(Frames) /\ txFree \in Nat /\ txMail \in Nat
  /\ worker \in [Radios -> {"none", "wait", "have", "stray", "alloc"}]
  /\ asked \in BOOLEAN /\ radio \in {"ready", "rx", "tx"} /\ prev \in {"ready", "rx"}
  /\ lock \in Threads \cup {"none"}
  /\ at \in [Threads -> {"off", "idle", "alloc", "work", "lock", "join", "send"}]
  /\ job \in {"reply", "beacon"} /\ stop \in BOOLEAN /\ told \in BOOLEAN
  /\ count \in 0 .. Last + 1 /\ saved \in 0 .. Last + 1
  /\ mode \in {"predeploy", "deploy", "orbit"}
  /\ accepted \in [0 .. Last -> Nat] /\ kept \in [0 .. Last -> Nat]
  /\ Places

(* HalfDuplex, with what the lock's owner is doing in each state of the    *)
(* driver: the worker is asked to end by an owner that joins it, and only  *)
(* by one.                                                                 *)
Duplex ==
  /\ HalfDuplex
  /\ asked => lock # "none" /\ at[lock] = "join"
  /\ \A t \in Threads : at[t] = "join" /\ radio = "rx" => asked
  /\ radio = "tx" => lock # "none" /\ at[lock] = "send"

(* The count is above every number accepted, in RAM and in FRAM.           *)
Counted ==
  \A s \in 0 .. Last :
    /\ accepted[s] <= 1 /\ (s >= count => accepted[s] = 0)
    /\ kept[s] <= 1 /\ (s >= saved => kept[s] = 0)

(* BuffersConserved by the place of a buffer: a receive worker, the EDL    *)
(* thread for the frame it handles and for the one it sends, the others.   *)
HaveL == One(worker["lband"] = "have")
HaveU == One(worker["uhf"] = "have")
HasE == One(at["edl"] # "idle")
SendsE == One(at["edl"] \in {"work", "lock", "join", "send"})
SendsT == One(at["tx"] # "idle")
SendsB == One(at["beacon"] \in {"lock", "join", "send"})
RxSum == rxFree + Len(rxMail) + HaveL + HaveU + HasE
TxSum == txFree + txMail + SendsE + SendsT + SendsB

IInv == Types /\ BuffersConserved /\ Duplex /\ Counted

(* The frame at the head of the FIFO is one the ground sends. *)
LEMMA HeadIsFrame ==
  ASSUME rxMail \in Seq(Frames), rxMail # <<>>
  PROVE  /\ Head(rxMail) \in Frames
         /\ Tail(rxMail) \in Seq(Frames) /\ Len(Tail(rxMail)) = Len(rxMail) - 1
  OBVIOUS

(* BuffersConserved is about two sums of natural numbers. *)
LEMMA Sums ==
  ASSUME Types
  PROVE  /\ BuffersConserved <=> RxSum = RxBufs /\ TxSum = TxBufs
         /\ rxFree \in Nat /\ Len(rxMail) \in Nat /\ txFree \in Nat /\ txMail \in Nat
         /\ HaveL \in {0, 1} /\ HaveU \in {0, 1} /\ HasE \in {0, 1}
         /\ SendsE \in {0, 1} /\ SendsT \in {0, 1} /\ SendsB \in {0, 1}
<1>1. /\ HaveL \in {0, 1} /\ HaveU \in {0, 1} /\ HasE \in {0, 1}
      /\ SendsE \in {0, 1} /\ SendsT \in {0, 1} /\ SendsB \in {0, 1}
  BY DEF HaveL, HaveU, HasE, SendsE, SendsT, SendsB, One
<1>2. BuffersConserved <=> RxSum = RxBufs /\ TxSum = TxBufs
  BY DEF BuffersConserved, RxSum, TxSum, HaveL, HaveU, HasE, SendsE, SendsT, SendsB
<1>3. QED
  BY <1>1, <1>2 DEF Types

(* A step that leaves both sums alone. *)
LEMMA SumsKept ==
  ASSUME Types, Types', BuffersConserved, RxSum' = RxSum, TxSum' = TxSum
  PROVE  BuffersConserved'
<1>1. RxSum = RxBufs /\ TxSum = TxBufs
  BY Sums
<1>2. BuffersConserved' <=> RxSum' = RxBufs /\ TxSum' = TxBufs
  BY DEF BuffersConserved, RxSum, TxSum, HaveL, HaveU, HasE, SendsE, SendsT, SendsB
<1>3. QED
  BY <1>1, <1>2

(* Types is inductive together with Duplex, which keeps prev_state in range. *)
LEMMA TypesStep ==
  ASSUME LinkAssumption, IInv, [Next]_vars
  PROVE  Types'
<1>1. ASSUME NEW r \in Radios, PacketStart(r) PROVE Types'
  BY <1>1 DEF PacketStart, Listens, Held, Work, rx, tx, uhf, edl, c3, IInv, Types, Places,
     Duplex, HalfDuplex, Radios, Threads
<1>2. ASSUME NEW r \in Radios, TakeBuffer(r) PROVE Types'
  <2>1. CASE Work(r, "have") /\ UNCHANGED rxMail
    BY <1>2, <2>1 DEF TakeBuffer, Work, tx, uhf, edl, c3, IInv, Types, Places
  <2>2. ASSUME NEW f \in Frames, Deliver(r, f) PROVE Types'
    <3>1. rxMail' \in Seq(Frames)
      BY <2>2 DEF Deliver, IInv, Types
    <3>2. worker' \in [Radios -> {"none", "wait", "have", "stray", "alloc"}]
      BY <2>2 DEF Deliver, Work, IInv, Types
    <3>3. rxFree' \in Nat
      BY <1>2 DEF TakeBuffer, IInv, Types
    <3>4. QED
      BY <1>2, <3>1, <3>2, <3>3 DEF TakeBuffer, tx, uhf, edl, c3, IInv, Types, Places
  <2>3. QED
    BY <1>2, <2>1, <2>2 DEF TakeBuffer
<1>3. ASSUME NEW r \in Radios, PacketEnd(r) PROVE Types'
  BY <1>3 DEF PacketEnd, Listens, Work, Deliver, rx, tx, uhf, edl, c3, IInv, Types,
     Places, Duplex, HalfDuplex, Radios, Threads
<1>4. ASSUME NEW r \in Radios, Overflow(r) PROVE Types'
  BY <1>4 DEF Overflow, Listens, Work, Aborted, rx, tx, uhf, edl, c3, IInv, Types, Places,
     Duplex, HalfDuplex, Radios, Threads
<1>5. CASE Reset
  <2>1. saved' \in 0 .. Last + 1 /\ kept' \in [0 .. Last -> Nat]
    BY <1>5 DEF Reset, IInv, Types, LinkAssumption
  <2>2. worker' \in [Radios -> {"none", "wait", "have", "stray", "alloc"}]
    BY <1>5 DEF Reset, Receiving
  <2>3. at' \in [Threads -> {"off", "idle", "alloc", "work", "lock", "join", "send"}]
    BY <1>5 DEF Reset, Threads
  <2>4. Places'
    BY <1>5 DEF Reset, Places, Threads
  <2>5. rxMail' \in Seq(Frames) /\ rxFree' \in Nat /\ txFree' \in Nat /\ txMail' \in Nat
    BY <1>5 DEF Reset, LinkAssumption
  <2>6. radio' \in {"ready", "rx"}
    BY <1>5 DEF Reset
  <2>7. QED
    BY <1>5, <2>1, <2>2, <2>3, <2>4, <2>5, <2>6 DEF Reset, Types
<1>6. CASE WorkerExit
  BY <1>6 DEF WorkerExit, Held, ExitFrees, Interruptible, Work, rx, tx, uhf, edl, c3,
     IInv, Types, Places, Duplex, HalfDuplex, Radios, Threads
<1>7. ASSUME NEW t \in Threads, Lock(t) PROVE Types'
  BY <1>7 DEF Lock, Place, rx, tx, uhf, edl, c3, IInv, Types, Places, Duplex, HalfDuplex,
     Radios, Threads
<1>8. ASSUME NEW t \in Threads, Transmit(t) PROVE Types'
  BY <1>8 DEF Transmit, Joined, Place, rx, tx, uhf, edl, c3, IInv, Types, Places, Duplex,
     HalfDuplex, Radios, Threads
<1>9. ASSUME NEW t \in Threads, TransmitFails(t) PROVE Types'
  <2>1. rxFree' \in Nat /\ txFree' \in Nat /\ told' \in BOOLEAN /\ job' \in {"reply",
  "beacon"}
    <3>1. CASE t = "edl"
      <4>1. ToldC3 \in BOOLEAN
        BY DEF ToldC3
      <4>2. told' = ToldC3
        BY <1>9, <3>1 DEF TransmitFails, Return
      <4>3. QED
        BY <1>9, <3>1, <4>1, <4>2 DEF TransmitFails, Return, IInv, Types
    <3>2. CASE t # "edl"
      <4>1. rxFree' = rxFree /\ told' = told /\ job' = job /\ txFree' = txFree + 1
        BY <1>9, <3>2 DEF TransmitFails, Return
      <4>2. QED
        BY <4>1 DEF IInv, Types
    <3>3. QED
      BY <3>1, <3>2
  <2>2. at' \in [Threads -> {"off", "idle", "alloc", "work", "lock", "join", "send"}]
    BY <1>9 DEF TransmitFails, Return, Place, IInv, Types
  <2>3. Places'
    BY <1>9 DEF TransmitFails, Return, Place, IInv, Types, Places, Threads
  <2>4. /\ worker' = worker /\ radio' = "ready" /\ lock' = lock
        /\ asked' = FALSE /\ prev' = "ready"
    BY <1>9 DEF TransmitFails, Return
  <2>5. QED
    BY <1>9, <2>1, <2>2, <2>3, <2>4 DEF TransmitFails, Return, rx, tx, uhf, edl, c3, IInv,
       Types
<1>10. ASSUME NEW t \in Threads, Sent(t) PROVE Types'
  <2>1. rxFree' \in Nat /\ txFree' \in Nat /\ told' \in BOOLEAN /\ job' \in {"reply",
  "beacon"}
    <3>1. CASE t = "edl"
      <4>1. ToldC3 \in BOOLEAN
        BY DEF ToldC3
      <4>2. told' = ToldC3
        BY <1>10, <3>1 DEF Sent, Return
      <4>3. QED
        BY <1>10, <3>1, <4>1, <4>2 DEF Sent, Return, IInv, Types
    <3>2. CASE t # "edl"
      <4>1. rxFree' = rxFree /\ told' = told /\ job' = job /\ txFree' = txFree + 1
        BY <1>10, <3>2 DEF Sent, Return
      <4>2. QED
        BY <4>1 DEF IInv, Types
    <3>3. QED
      BY <3>1, <3>2
  <2>2. at' \in [Threads -> {"off", "idle", "alloc", "work", "lock", "join", "send"}]
    BY <1>10 DEF Sent, Return, Place, IInv, Types
  <2>3. Places'
    BY <1>10 DEF Sent, Return, Place, IInv, Types, Places, Threads
  <2>4. /\ worker' \in [Radios -> {"none", "wait", "have", "stray", "alloc"}]
        /\ radio' \in {"ready", "rx"} /\ lock' = "none" /\ asked' = asked /\ prev' = "ready"
    BY <1>10 DEF Sent, Return, Work, Receiving, IInv, Types
  <2>5. QED
    BY <1>10, <2>1, <2>2, <2>3, <2>4 DEF Sent, Return, rx, tx, uhf, edl, c3, IInv, Types
<1>11. CASE TxReceive
  BY <1>11 DEF TxReceive, Place, rx, tx, uhf, edl, c3, IInv, Types, Places, Duplex,
     HalfDuplex, Radios, Threads
<1>12. CASE BeaconOn
  BY <1>12 DEF BeaconOn, Place, rx, tx, uhf, edl, c3, IInv, Types, Places, Duplex,
     HalfDuplex, Radios, Threads
<1>13. CASE BeaconOff
  BY <1>13 DEF BeaconOff, rx, tx, uhf, edl, c3, IInv, Types, Places, Duplex, HalfDuplex,
     Radios, Threads
<1>14. CASE BeaconWake
  BY <1>14 DEF BeaconWake, Ends, Place, rx, tx, uhf, edl, c3, IInv, Types, Places, Duplex,
     HalfDuplex, Radios, Threads
<1>15. CASE BeaconAlloc
  BY <1>15 DEF BeaconAlloc, Place, rx, tx, uhf, edl, c3, IInv, Types, Places, Duplex,
     HalfDuplex, Radios, Threads
<1>16. CASE EdlReject
  BY <1>16 DEF EdlReject, Fresh, rx, tx, uhf, edl, c3, IInv, Types, Places, Duplex,
     HalfDuplex, Radios, Threads
<1>17. CASE EdlAccept
  <2>1. /\ Head(rxMail) \in Frames
        /\ rxMail' \in Seq(Frames)
    BY <1>17, HeadIsFrame DEF EdlAccept, IInv, Types
  <2>2. Head(rxMail).seq \in 0 .. Last
    BY <2>1 DEF Frames
  <2>3. count' \in 0 .. Last + 1 /\ accepted' \in [0 .. Last -> Nat]
    <3>1. CASE Head(rxMail).kind = "cmd"
      <4>1. count' = Head(rxMail).seq + 1
        BY <1>17, <3>1 DEF EdlAccept, NextSeq
      <4>2. accepted' = [accepted EXCEPT ![Head(rxMail).seq] = @ + 1]
        BY <1>17, <3>1 DEF EdlAccept
      <4>3. count' \in 0 .. Last + 1
        BY <2>2, <4>1 DEF LinkAssumption
      <4>4. accepted' \in [0 .. Last -> Nat]
        BY <2>2, <4>2 DEF IInv, Types
      <4>5. QED
        BY <4>3, <4>4
    <3>2. CASE Head(rxMail).kind # "cmd"
      BY <1>17, <3>2 DEF EdlAccept, IInv, Types
    <3>3. QED
      BY <3>1, <3>2
  <2>4. at' \in [Threads -> {"off", "idle", "alloc", "work", "lock", "join", "send"}]
    BY <1>17 DEF EdlAccept, Place, IInv, Types
  <2>5. Places'
    BY <1>17 DEF EdlAccept, Place, IInv, Types, Places, Threads
  <2>6. job' \in {"reply", "beacon"}
    BY <1>17 DEF EdlAccept
  <2>7. QED
    BY <1>17, <2>1, <2>3, <2>4, <2>5, <2>6 DEF EdlAccept, tx, uhf, c3, IInv, Types
<1>18. CASE EdlAlloc
  BY <1>18 DEF EdlAlloc, Place, rx, tx, uhf, edl, c3, IInv, Types, Places, Duplex,
     HalfDuplex, Radios, Threads
<1>19. CASE EdlReply
  BY <1>19 DEF EdlReply, ToldC3, Place, rx, tx, uhf, edl, c3, IInv, Types, Places, Duplex,
     HalfDuplex, Radios, Threads
<1>20. CASE Save \/ EdlEvent \/ NextMode
  <2>1. Places'
    BY <1>20 DEF Save, EdlEvent, NextMode, Store, IInv, Types, Places
  <2>2. QED
    BY <1>20, <2>1 DEF Save, EdlEvent, NextMode, Store, rx, tx, uhf,
       edl, c3, IInv, Types
<1>21. ASSUME NEW r \in Radios, StrayChunk(r) PROVE Types'
  BY <1>5, <1>21 DEF StrayChunk
<1>22. CASE UNCHANGED vars
  BY <1>22 DEF vars, rx, tx, uhf, edl, c3, IInv, Types, Places, Duplex, HalfDuplex,
     Radios, Threads
<1>23. QED
  BY <1>1, <1>2, <1>3, <1>4, <1>5, <1>6, <1>7, <1>8, <1>9, <1>10, <1>11, <1>12, <1>13,
     <1>14, <1>15, <1>16, <1>17, <1>18, <1>19, <1>20, <1>21, <1>22
     DEF Next, Receive, Ax5043TX, EdlThd, TxWorker, Beacon, Radios, Threads

(* No step loses a buffer or frees one twice. *)
LEMMA ConservedStep ==
  ASSUME LinkAssumption, Types, Types', BuffersConserved, Duplex, [Next]_vars
  PROVE  BuffersConserved'
<1>1. ASSUME NEW r \in Radios, PacketStart(r) PROVE BuffersConserved'
  <2>1. rxFree' = rxFree + Held(r) /\ UNCHANGED <<rxMail, at, tx>>
    BY <1>1 DEF PacketStart, tx
  <2>2. /\ worker'[r] = "alloc" /\ \A q \in Radios \ {r} : worker'[q] = worker[q]
        /\ Held(r) = One(worker[r] = "have")
    BY <1>1 DEF PacketStart, Work, Types, Radios, Held, One
  <2>10. TxSum' = TxSum /\ HasE' = HasE
    BY <2>1 DEF TxSum, SendsE, SendsT, SendsB, HasE, tx
  <2>11. RxSum' = RxSum
    <3>1. CASE r = "lband"
      <4>1. HaveL' = 0 /\ HaveU' = HaveU /\ Held(r) = HaveL
        BY <2>2, <3>1 DEF HaveL, HaveU, One, Radios
      <4>2. QED
        BY <2>1, <2>10, <4>1, Sums DEF RxSum
    <3>2. CASE r = "uhf"
      <4>1. HaveU' = 0 /\ HaveL' = HaveL /\ Held(r) = HaveU
        BY <2>2, <3>2 DEF HaveL, HaveU, One, Radios
      <4>2. QED
        BY <2>1, <2>10, <4>1, Sums DEF RxSum
    <3>3. QED
      BY <3>1, <3>2 DEF Radios
  <2>12. QED
    BY <2>10, <2>11, SumsKept
<1>2. ASSUME NEW r \in Radios, TakeBuffer(r) PROVE BuffersConserved'
  <2>1. worker[r] = "alloc" /\ rxFree' = rxFree - 1 /\ UNCHANGED <<at, tx>>
    BY <1>2 DEF TakeBuffer, tx
  <2>2. \/ /\ worker' = [worker EXCEPT ![r] = "have"] /\ Len(rxMail') = Len(rxMail)
        \/ /\ worker' = [worker EXCEPT ![r] = "wait"] /\ Len(rxMail') = Len(rxMail) + 1
    <3>1. CASE Work(r, "have") /\ UNCHANGED rxMail
      BY <3>1 DEF Work
    <3>2. ASSUME NEW f \in Frames, Deliver(r, f)
          PROVE  worker' = [worker EXCEPT ![r] = "wait"] /\ Len(rxMail') = Len(rxMail) + 1
      BY <3>2 DEF Deliver, Work, Types
    <3>3. QED
      BY <1>2, <3>1, <3>2 DEF TakeBuffer
  <2>3. /\ worker[r] = "alloc" /\ \A q \in Radios \ {r} : worker'[q] = worker[q]
        /\ \/ worker'[r] = "have" /\ Len(rxMail') = Len(rxMail)
           \/ worker'[r] = "wait" /\ Len(rxMail') = Len(rxMail) + 1
    BY <2>1, <2>2 DEF Types, Radios
  <2>10. TxSum' = TxSum /\ HasE' = HasE
    BY <2>1 DEF TxSum, SendsE, SendsT, SendsB, HasE, tx
  <2>11. RxSum' = RxSum
    <3>1. CASE r = "lband"
      <4>1. /\ HaveU' = HaveU /\ HaveL = 0
            /\ \/ HaveL' = 1 /\ Len(rxMail') = Len(rxMail)
               \/ HaveL' = 0 /\ Len(rxMail') = Len(rxMail) + 1
        BY <2>3, <3>1 DEF HaveL, HaveU, One, Radios
      <4>2. /\ Len(rxMail') + HaveL' = Len(rxMail) + 1
            /\ Len(rxMail') \in Nat /\ HaveL' \in Nat
        BY <4>1, Sums
      <4>3. rxFree' = rxFree - 1 /\ HasE' = HasE
        BY <2>1, <2>10
      <4>4. /\ rxFree \in Nat /\ HaveU \in Nat /\ HasE \in Nat /\ Len(rxMail) \in Nat
            /\ HaveU' = HaveU /\ HaveL = 0
        BY <4>1, Sums
      <4>5. QED
        BY <4>2, <4>3, <4>4 DEF RxSum
    <3>2. CASE r = "uhf"
      <4>1. /\ HaveL' = HaveL /\ HaveU = 0
            /\ \/ HaveU' = 1 /\ Len(rxMail') = Len(rxMail)
               \/ HaveU' = 0 /\ Len(rxMail') = Len(rxMail) + 1
        BY <2>3, <3>2 DEF HaveL, HaveU, One, Radios
      <4>2. /\ Len(rxMail') + HaveU' = Len(rxMail) + 1
            /\ Len(rxMail') \in Nat /\ HaveU' \in Nat
        BY <4>1, Sums
      <4>3. rxFree' = rxFree - 1 /\ HasE' = HasE
        BY <2>1, <2>10
      <4>4. /\ rxFree \in Nat /\ HaveL \in Nat /\ HasE \in Nat /\ Len(rxMail) \in Nat
            /\ HaveL' = HaveL /\ HaveU = 0
        BY <4>1, Sums
      <4>5. QED
        BY <4>2, <4>3, <4>4 DEF RxSum
    <3>3. QED
      BY <3>1, <3>2 DEF Radios
  <2>12. QED
    BY <2>10, <2>11, SumsKept
<1>3. ASSUME NEW r \in Radios, PacketEnd(r) PROVE BuffersConserved'
  BY <1>3 DEF PacketEnd, Listens, Work, Deliver, rx, tx, uhf, edl, c3, Types, Places,
     BuffersConserved, One, Radios, Threads
<1>4. ASSUME NEW r \in Radios, Overflow(r) PROVE BuffersConserved'
  <2>1. rxFree' = rxFree + 1 /\ worker[r] = "have" /\ UNCHANGED <<at, tx, rxMail>>
    BY <1>4 DEF Overflow, tx
  <2>2. PICK w \in Aborted : worker' = [worker EXCEPT ![r] = w]
    BY <1>4 DEF Overflow, Work
  <2>3. /\ \A q \in Radios \ {r} : worker'[q] = worker[q]
        /\ worker'[r] # "have" /\ worker[r] = "have"
    BY <2>1, <2>2 DEF Types, Radios, Aborted
  <2>10. TxSum' = TxSum /\ HasE' = HasE
    BY <2>1 DEF TxSum, SendsE, SendsT, SendsB, HasE, tx
  <2>11. RxSum' = RxSum
    <3>1. CASE r = "lband"
      <4>1. HaveL' = 0 /\ HaveU' = HaveU /\ HaveL = 1
        BY <2>3, <3>1 DEF HaveL, HaveU, One, Radios
      <4>2. QED
        BY <2>1, <2>10, <4>1, Sums DEF RxSum
    <3>2. CASE r = "uhf"
      <4>1. HaveU' = 0 /\ HaveL' = HaveL /\ HaveU = 1
        BY <2>3, <3>2 DEF HaveL, HaveU, One, Radios
      <4>2. QED
        BY <2>1, <2>10, <4>1, Sums DEF RxSum
    <3>3. QED
      BY <3>1, <3>2 DEF Radios
  <2>12. QED
    BY <2>10, <2>11, SumsKept
<1>5. CASE Reset
  BY <1>5 DEF Reset, Receiving, rx, tx, uhf, edl, c3, Types, Places, BuffersConserved,
     One, Radios, Threads
<1>6. CASE WorkerExit
  <2>1. rxFree' = rxFree + HaveU /\ UNCHANGED <<at, tx, rxMail>>
    BY <1>6 DEF WorkerExit, ExitFrees, Held, HaveU, One, tx
  <2>2. worker'["uhf"] = "none" /\ worker'["lband"] = worker["lband"]
    BY <1>6 DEF WorkerExit, Work, Types, Radios
  <2>3. HaveU' = 0 /\ HaveL' = HaveL
    BY <2>2 DEF HaveL, HaveU, One
  <2>4. TxSum' = TxSum /\ HasE' = HasE
    BY <2>1 DEF TxSum, SendsE, SendsT, SendsB, HasE, tx
  <2>5. RxSum' = RxSum
    BY <2>1, <2>3, <2>4, Sums DEF RxSum
  <2>6. QED
    BY <2>4, <2>5, SumsKept
<1>7. ASSUME NEW t \in Threads, Lock(t) PROVE BuffersConserved'
  <2>1. /\ at[t] = "lock" /\ at'[t] = "join" /\ \A u \in Threads \ {t} : at'[u] = at[u]
        /\ UNCHANGED <<rx, tx>>
    BY <1>7 DEF Lock, Place, Types
  <2>2. HaveL' = HaveL /\ HaveU' = HaveU /\ HasE' = HasE
    BY <2>1 DEF HaveL, HaveU, HasE, One, Threads, rx
  <2>3. SendsE' = SendsE /\ SendsT' = SendsT /\ SendsB' = SendsB
    <3>1. CASE t = "edl"
      BY <2>1, <3>1 DEF SendsE, SendsT, SendsB, One, Threads
    <3>2. CASE t = "tx"
      BY <2>1, <3>2 DEF SendsE, SendsT, SendsB, One, Threads
    <3>3. CASE t = "beacon"
      BY <2>1, <3>3 DEF SendsE, SendsT, SendsB, One, Threads
    <3>4. QED
      BY <3>1, <3>2, <3>3 DEF Threads
  <2>4. RxSum' = RxSum /\ TxSum' = TxSum
    BY <2>1, <2>2, <2>3 DEF RxSum, TxSum, rx, tx
  <2>5. QED
    BY <2>4, SumsKept
<1>8. ASSUME NEW t \in Threads, Transmit(t) PROVE BuffersConserved'
  <2>1. /\ at[t] = "join" /\ at'[t] = "send" /\ \A u \in Threads \ {t} : at'[u] = at[u]
        /\ UNCHANGED <<rx, tx>>
    BY <1>8 DEF Transmit, Place, Types
  <2>2. HaveL' = HaveL /\ HaveU' = HaveU /\ HasE' = HasE
    BY <2>1 DEF HaveL, HaveU, HasE, One, Threads, rx
  <2>3. SendsE' = SendsE /\ SendsT' = SendsT /\ SendsB' = SendsB
    <3>1. CASE t = "edl"
      BY <2>1, <3>1 DEF SendsE, SendsT, SendsB, One, Threads
    <3>2. CASE t = "tx"
      BY <2>1, <3>2 DEF SendsE, SendsT, SendsB, One, Threads
    <3>3. CASE t = "beacon"
      BY <2>1, <3>3 DEF SendsE, SendsT, SendsB, One, Threads
    <3>4. QED
      BY <3>1, <3>2, <3>3 DEF Threads
  <2>4. RxSum' = RxSum /\ TxSum' = TxSum
    BY <2>1, <2>2, <2>3 DEF RxSum, TxSum, rx, tx
  <2>5. QED
    BY <2>4, SumsKept
<1>9. ASSUME NEW t \in Threads, TransmitFails(t) PROVE BuffersConserved'
  <2>1. /\ txFree' = txFree + 1 /\ txMail' = txMail /\ rxMail' = rxMail
        /\ at' = [at EXCEPT ![t] = "idle"]
        /\ rxFree' = IF t = "edl" THEN rxFree + 1 ELSE rxFree
    BY <1>9 DEF TransmitFails, Return, Place
  <2>2. at[t] \in {"join",
  "send"} /\ at'[t] = "idle" /\ \A u \in Threads \ {t} : at'[u] = at[u]
    BY <1>9, <2>1 DEF TransmitFails, Types
  <2>3. HaveL' = HaveL /\ HaveU' = HaveU
    BY <1>9 DEF TransmitFails, HaveL, HaveU
  <2>4. CASE t = "edl"
    <3>1. /\ SendsE = 1 /\ SendsE' = 0 /\ SendsT' = SendsT /\ SendsB' = SendsB
          /\ HasE = 1 /\ HasE' = 0
      BY <2>2, <2>4 DEF SendsE, SendsT, SendsB, HasE, One, Threads
    <3>2. rxFree' = rxFree + 1
      BY <2>1, <2>4
    <3>3. RxSum' = RxSum
      BY <2>1, <2>3, <3>1, <3>2, Sums DEF RxSum
    <3>4. TxSum' = TxSum
      BY <2>1, <3>1, Sums DEF TxSum
    <3>5. QED
      BY <3>3, <3>4, SumsKept
  <2>5. CASE t = "tx"
    <3>1. /\ SendsT = 1 /\ SendsT' = 0 /\ SendsE' = SendsE /\ SendsB' = SendsB
          /\ HasE' = HasE
      BY <2>2, <2>5 DEF SendsE, SendsT, SendsB, HasE, One, Threads
    <3>2. rxFree' = rxFree
      BY <2>1, <2>5
    <3>3. RxSum' = RxSum
      BY <2>1, <2>3, <3>1, <3>2, Sums DEF RxSum
    <3>4. TxSum' = TxSum
      BY <2>1, <3>1, Sums DEF TxSum
    <3>5. QED
      BY <3>3, <3>4, SumsKept
  <2>6. CASE t = "beacon"
    <3>1. /\ SendsB = 1 /\ SendsB' = 0 /\ SendsE' = SendsE /\ SendsT' = SendsT
          /\ HasE' = HasE
      BY <2>2, <2>6 DEF SendsE, SendsT, SendsB, HasE, One, Threads
    <3>2. rxFree' = rxFree
      BY <2>1, <2>6
    <3>3. RxSum' = RxSum
      BY <2>1, <2>3, <3>1, <3>2, Sums DEF RxSum
    <3>4. TxSum' = TxSum
      BY <2>1, <3>1, Sums DEF TxSum
    <3>5. QED
      BY <3>3, <3>4, SumsKept
  <2>7. QED
    BY <2>4, <2>5, <2>6 DEF Threads
<1>10. ASSUME NEW t \in Threads, Sent(t) PROVE BuffersConserved'
  <2>1. /\ txFree' = txFree + 1 /\ txMail' = txMail /\ rxMail' = rxMail
        /\ at' = [at EXCEPT ![t] = "idle"]
        /\ rxFree' = IF t = "edl" THEN rxFree + 1 ELSE rxFree
    BY <1>10 DEF Sent, Return, Place
  <2>2. at[t] \in {"join",
  "send"} /\ at'[t] = "idle" /\ \A u \in Threads \ {t} : at'[u] = at[u]
    BY <1>10, <2>1 DEF Sent, Types
  <2>3. HaveL' = HaveL /\ HaveU' = HaveU
    BY <1>10 DEF Sent, Work, Receiving, Duplex, HalfDuplex, Types, HaveL, HaveU, One, Radios
  <2>4. CASE t = "edl"
    <3>1. /\ SendsE = 1 /\ SendsE' = 0 /\ SendsT' = SendsT /\ SendsB' = SendsB
          /\ HasE = 1 /\ HasE' = 0
      BY <2>2, <2>4 DEF SendsE, SendsT, SendsB, HasE, One, Threads
    <3>2. rxFree' = rxFree + 1
      BY <2>1, <2>4
    <3>3. RxSum' = RxSum
      BY <2>1, <2>3, <3>1, <3>2, Sums DEF RxSum
    <3>4. TxSum' = TxSum
      BY <2>1, <3>1, Sums DEF TxSum
    <3>5. QED
      BY <3>3, <3>4, SumsKept
  <2>5. CASE t = "tx"
    <3>1. /\ SendsT = 1 /\ SendsT' = 0 /\ SendsE' = SendsE /\ SendsB' = SendsB
          /\ HasE' = HasE
      BY <2>2, <2>5 DEF SendsE, SendsT, SendsB, HasE, One, Threads
    <3>2. rxFree' = rxFree
      BY <2>1, <2>5
    <3>3. RxSum' = RxSum
      BY <2>1, <2>3, <3>1, <3>2, Sums DEF RxSum
    <3>4. TxSum' = TxSum
      BY <2>1, <3>1, Sums DEF TxSum
    <3>5. QED
      BY <3>3, <3>4, SumsKept
  <2>6. CASE t = "beacon"
    <3>1. /\ SendsB = 1 /\ SendsB' = 0 /\ SendsE' = SendsE /\ SendsT' = SendsT
          /\ HasE' = HasE
      BY <2>2, <2>6 DEF SendsE, SendsT, SendsB, HasE, One, Threads
    <3>2. rxFree' = rxFree
      BY <2>1, <2>6
    <3>3. RxSum' = RxSum
      BY <2>1, <2>3, <3>1, <3>2, Sums DEF RxSum
    <3>4. TxSum' = TxSum
      BY <2>1, <3>1, Sums DEF TxSum
    <3>5. QED
      BY <3>3, <3>4, SumsKept
  <2>7. QED
    BY <2>4, <2>5, <2>6 DEF Threads
<1>11. CASE TxReceive
  BY <1>11 DEF TxReceive, Place, rx, tx, uhf, edl, c3, Types, Places, BuffersConserved,
     One, Radios, Threads
<1>12. CASE BeaconOn
  BY <1>12 DEF BeaconOn, Place, rx, tx, uhf, edl, c3, Types, Places, BuffersConserved,
     One, Radios, Threads
<1>13. CASE BeaconOff
  BY <1>13 DEF BeaconOff, rx, tx, uhf, edl, c3, Types, Places, BuffersConserved, One,
     Radios, Threads
<1>14. CASE BeaconWake
  BY <1>14 DEF BeaconWake, Ends, Place, rx, tx, uhf, edl, c3, Types, Places,
     BuffersConserved, One, Radios, Threads
<1>15. CASE BeaconAlloc
  BY <1>15 DEF BeaconAlloc, Place, rx, tx, uhf, edl, c3, Types, Places, BuffersConserved,
     One, Radios, Threads
<1>16. CASE EdlReject
  <2>1. Len(rxMail') = Len(rxMail) - 1 /\ rxFree' = rxFree + 1
    BY <1>16, HeadIsFrame DEF EdlReject, Types
  <2>2. TxSum' = TxSum /\ HasE' = HasE /\ HaveL' = HaveL /\ HaveU' = HaveU
    BY <1>16 DEF EdlReject, TxSum, SendsE, SendsT, SendsB, HasE, HaveL, HaveU, tx
  <2>3. RxSum' = RxSum
    BY <2>1, <2>2, Sums DEF RxSum
  <2>4. QED
    BY <2>2, <2>3, SumsKept
<1>17. CASE EdlAccept
  <2>1. Len(rxMail') = Len(rxMail) - 1 /\ rxFree' = rxFree
    BY <1>17, HeadIsFrame DEF EdlAccept, Types
  <2>2. /\ at["edl"] = "idle" /\ at'["edl"] = "alloc" /\ worker' = worker
        /\ at'["tx"] = at["tx"] /\ at'["beacon"] = at["beacon"] /\ UNCHANGED tx
    BY <1>17 DEF EdlAccept, Place, Types, Threads
  <2>3. HasE = 0 /\ HasE' = 1 /\ HaveL' = HaveL /\ HaveU' = HaveU
    BY <2>2 DEF HasE, HaveL, HaveU, One
  <2>4. SendsE' = SendsE /\ SendsT' = SendsT /\ SendsB' = SendsB
    BY <2>2 DEF SendsE, SendsT, SendsB, One
  <2>5. TxSum' = TxSum
    BY <2>2, <2>4 DEF TxSum, tx
  <2>6. RxSum' = RxSum
    BY <2>1, <2>3, Sums DEF RxSum
  <2>7. QED
    BY <2>5, <2>6, SumsKept
<1>18. CASE EdlAlloc
  BY <1>18 DEF EdlAlloc, Place, rx, tx, uhf, edl, c3, Types, Places, BuffersConserved,
     One, Radios, Threads
<1>19. CASE EdlReply
  BY <1>19 DEF EdlReply, ToldC3, Place, rx, tx, uhf, edl, c3, Types, Places,
     BuffersConserved, One, Radios, Threads
<1>20. CASE Save \/ EdlEvent \/ NextMode
  <2>1. UNCHANGED <<rxFree, rxMail, worker, txFree, txMail, at>>
    BY <1>20 DEF Save, EdlEvent, NextMode, rx, tx
  <2>2. QED
    BY <2>1 DEF BuffersConserved, One
<1>21. ASSUME NEW r \in Radios, StrayChunk(r) PROVE BuffersConserved'
  BY <1>5, <1>21 DEF StrayChunk
<1>22. CASE UNCHANGED vars
  BY <1>22 DEF vars, rx, tx, uhf, edl, c3, Types, Places, BuffersConserved, One, Radios,
     Threads
<1>23. QED
  BY <1>1, <1>2, <1>3, <1>4, <1>5, <1>6, <1>7, <1>8, <1>9, <1>10, <1>11, <1>12, <1>13,
     <1>14, <1>15, <1>16, <1>17, <1>18, <1>19, <1>20, <1>21, <1>22
     DEF Next, Receive, Ax5043TX, EdlThd, TxWorker, Beacon, Radios, Threads

(* The lock, the join and the driver state keep the radio half duplex. *)
LEMMA DuplexStep ==
  ASSUME LinkAssumption, Types, Duplex, [Next]_vars
  PROVE  Duplex'
<1>1. ASSUME NEW r \in Radios, PacketStart(r) PROVE Duplex'
  BY <1>1 DEF PacketStart, Listens, Held, Work, rx, tx, uhf, edl, c3, Types, Places,
     Duplex, HalfDuplex, Radios, Threads
<1>2. ASSUME NEW r \in Radios, TakeBuffer(r) PROVE Duplex'
  BY <1>2 DEF TakeBuffer, Work, Deliver, rx, tx, uhf, edl, c3, Types, Places, Duplex,
     HalfDuplex, Radios, Threads
<1>3. ASSUME NEW r \in Radios, PacketEnd(r) PROVE Duplex'
  BY <1>3 DEF PacketEnd, Listens, Work, Deliver, rx, tx, uhf, edl, c3, Types, Places,
     Duplex, HalfDuplex, Radios, Threads
<1>4. ASSUME NEW r \in Radios, Overflow(r) PROVE Duplex'
  BY <1>4 DEF Overflow, Listens, Work, Aborted, rx, tx, uhf, edl, c3, Types, Places,
     Duplex, HalfDuplex, Radios, Threads
<1>5. CASE Reset
  BY <1>5 DEF Reset, Receiving, rx, tx, uhf, edl, c3, Types, Places, Duplex, HalfDuplex,
     Radios, Threads
<1>6. CASE WorkerExit
  BY <1>6 DEF WorkerExit, Held, ExitFrees, Interruptible, Work, rx, tx, uhf, edl, c3,
     Types, Places, Duplex, HalfDuplex, Radios, Threads
<1>7. ASSUME NEW t \in Threads, Lock(t) PROVE Duplex'
  BY <1>7 DEF Lock, Place, rx, tx, uhf, edl, c3, Types, Places, Duplex, HalfDuplex,
     Radios, Threads
<1>8. ASSUME NEW t \in Threads, Transmit(t) PROVE Duplex'
  BY <1>8 DEF Transmit, Joined, Place, rx, tx, uhf, edl, c3, Types, Places, Duplex,
     HalfDuplex, Radios, Threads
<1>9. ASSUME NEW t \in Threads, TransmitFails(t) PROVE Duplex'
  BY <1>9 DEF TransmitFails, Joined, Return, Place, rx, tx, uhf, edl, c3, Types, Places,
     Duplex, HalfDuplex, Radios, Threads
<1>10. ASSUME NEW t \in Threads, Sent(t) PROVE Duplex'
  BY <1>10 DEF Sent, Return, Place, Work, Receiving, rx, tx, uhf, edl, c3, Types, Places,
     Duplex, HalfDuplex, Radios, Threads
<1>11. CASE TxReceive
  BY <1>11 DEF TxReceive, Place, rx, tx, uhf, edl, c3, Types, Places, Duplex, HalfDuplex,
     Radios, Threads
<1>12. CASE BeaconOn
  BY <1>12 DEF BeaconOn, Place, rx, tx, uhf, edl, c3, Types, Places, Duplex, HalfDuplex,
     Radios, Threads
<1>13. CASE BeaconOff
  BY <1>13 DEF BeaconOff, rx, tx, uhf, edl, c3, Types, Places, Duplex, HalfDuplex, Radios,
     Threads
<1>14. CASE BeaconWake
  BY <1>14 DEF BeaconWake, Ends, Place, rx, tx, uhf, edl, c3, Types, Places, Duplex,
     HalfDuplex, Radios, Threads
<1>15. CASE BeaconAlloc
  BY <1>15 DEF BeaconAlloc, Place, rx, tx, uhf, edl, c3, Types, Places, Duplex,
     HalfDuplex, Radios, Threads
<1>16. CASE EdlReject
  BY <1>16 DEF EdlReject, Fresh, rx, tx, uhf, edl, c3, Types, Places, Duplex, HalfDuplex,
     Radios, Threads
<1>17. CASE EdlAccept
  BY <1>17 DEF EdlAccept, Fresh, NextSeq, Place, rx, tx, uhf, edl, c3, Types, Places,
     Duplex, HalfDuplex, Radios, Threads
<1>18. CASE EdlAlloc
  BY <1>18 DEF EdlAlloc, Place, rx, tx, uhf, edl, c3, Types, Places, Duplex, HalfDuplex,
     Radios, Threads
<1>19. CASE EdlReply
  BY <1>19 DEF EdlReply, ToldC3, Place, rx, tx, uhf, edl, c3, Types, Places, Duplex,
     HalfDuplex, Radios, Threads
<1>20. CASE Save \/ EdlEvent \/ NextMode
  BY <1>20 DEF Save, EdlEvent, NextMode, Store, rx, tx, uhf, edl, c3, Types, Places,
         Duplex, HalfDuplex, Radios,
     Threads
<1>21. ASSUME NEW r \in Radios, StrayChunk(r) PROVE Duplex'
  BY <1>5, <1>21 DEF StrayChunk
<1>22. CASE UNCHANGED vars
  BY <1>22 DEF vars, rx, tx, uhf, edl, c3, Types, Places, Duplex, HalfDuplex, Radios,
     Threads
<1>23. QED
  BY <1>1, <1>2, <1>3, <1>4, <1>5, <1>6, <1>7, <1>8, <1>9, <1>10, <1>11, <1>12, <1>13,
     <1>14, <1>15, <1>16, <1>17, <1>18, <1>19, <1>20, <1>21, <1>22
     DEF Next, Receive, Ax5043TX, EdlThd, TxWorker, Beacon, Radios, Threads

(* A command raises the count above its own number. *)
LEMMA CountedStep ==
  ASSUME LinkAssumption, Types, Counted, [Next]_vars
  PROVE  Counted'
<1>1. ASSUME NEW r \in Radios, PacketStart(r) PROVE Counted'
  BY <1>1 DEF PacketStart, Listens, Held, Work, rx, tx, uhf, edl, c3, Types, Counted
<1>2. ASSUME NEW r \in Radios, TakeBuffer(r) PROVE Counted'
  BY <1>2 DEF TakeBuffer, Work, Deliver, rx, tx, uhf, edl, c3, Types, Counted
<1>3. ASSUME NEW r \in Radios, PacketEnd(r) PROVE Counted'
  BY <1>3 DEF PacketEnd, Listens, Work, Deliver, rx, tx, uhf, edl, c3, Types, Counted
<1>4. ASSUME NEW r \in Radios, Overflow(r) PROVE Counted'
  BY <1>4 DEF Overflow, Listens, Work, Aborted, rx, tx, uhf, edl, c3, Types, Counted
<1>5. CASE Reset
  BY <1>5 DEF Reset, Receiving, rx, tx, uhf, edl, c3, Types, Counted
<1>6. CASE WorkerExit
  BY <1>6 DEF WorkerExit, Held, ExitFrees, Interruptible, Work, rx, tx, uhf, edl, c3,
     Types, Counted
<1>7. ASSUME NEW t \in Threads, Lock(t) PROVE Counted'
  BY <1>7 DEF Lock, Place, rx, tx, uhf, edl, c3, Types, Counted
<1>8. ASSUME NEW t \in Threads, Transmit(t) PROVE Counted'
  BY <1>8 DEF Transmit, Joined, Place, rx, tx, uhf, edl, c3, Types, Counted
<1>9. ASSUME NEW t \in Threads, TransmitFails(t) PROVE Counted'
  BY <1>9 DEF TransmitFails, Joined, Return, Place, rx, tx, uhf, edl, c3, Types, Counted
<1>10. ASSUME NEW t \in Threads, Sent(t) PROVE Counted'
  BY <1>10 DEF Sent, Return, Place, Work, Receiving, rx, tx, uhf, edl, c3, Types, Counted
<1>11. CASE TxReceive
  BY <1>11 DEF TxReceive, Place, rx, tx, uhf, edl, c3, Types, Counted
<1>12. CASE BeaconOn
  BY <1>12 DEF BeaconOn, Place, rx, tx, uhf, edl, c3, Types, Counted
<1>13. CASE BeaconOff
  BY <1>13 DEF BeaconOff, rx, tx, uhf, edl, c3, Types, Counted
<1>14. CASE BeaconWake
  BY <1>14 DEF BeaconWake, Ends, Place, rx, tx, uhf, edl, c3, Types, Counted
<1>15. CASE BeaconAlloc
  BY <1>15 DEF BeaconAlloc, Place, rx, tx, uhf, edl, c3, Types, Counted
<1>16. CASE EdlReject
  BY <1>16 DEF EdlReject, Fresh, rx, tx, uhf, edl, c3, Types, Counted
<1>17. CASE EdlAccept
  <2> DEFINE q == Head(rxMail).seq
  <2>1. q \in 0 .. Last
    BY <1>17, HeadIsFrame DEF EdlAccept, Types, Frames
  <2>2. CASE Head(rxMail).kind # "cmd"
    BY <1>17, <2>2 DEF EdlAccept, c3, Counted
  <2>3. CASE Head(rxMail).kind = "cmd"
    <3>1. count <= q /\ count' = q + 1 /\ accepted' = [accepted EXCEPT ![q] = @ + 1]
      BY <1>17, <2>3 DEF EdlAccept, Fresh, NextSeq
    <3>2. kept' = kept /\ saved' = saved
      BY <1>17 DEF EdlAccept, c3
    <3>3. accepted[q] = 0
      BY <2>1, <3>1 DEF Counted, Types
    <3>4. accepted \in [0 .. Last -> Nat] /\ count \in Int /\ Last \in Int
      BY LinkAssumption DEF Types, LinkAssumption
    <3>5. SUFFICES ASSUME NEW s \in 0 .. Last
                   PROVE  accepted'[s] <= 1 /\ (s >= count' => accepted'[s] = 0)
      BY <3>2 DEF Counted
    <3>6. CASE s = q
      BY <2>1, <3>1, <3>3, <3>4, <3>6
    <3>7. CASE s # q
      <4>1. accepted'[s] = accepted[s]
        BY <3>1, <3>4, <3>7
      <4>2. s >= count' => s >= count
        BY <2>1, <3>1, <3>4
      <4>3. QED
        BY <4>1, <4>2 DEF Counted
    <3>8. QED
      BY <3>6, <3>7
  <2>4. QED
    BY <2>2, <2>3
<1>18. CASE EdlAlloc
  BY <1>18 DEF EdlAlloc, Place, rx, tx, uhf, edl, c3, Types, Counted
<1>19. CASE EdlReply
  BY <1>19 DEF EdlReply, ToldC3, Place, rx, tx, uhf, edl, c3, Types, Counted
<1>20. CASE Save \/ EdlEvent \/ NextMode
  <2>1. saved' = count /\ kept' = accepted /\ count' = count /\ accepted' = accepted
    BY <1>20 DEF Save, EdlEvent, NextMode, Store, edl
  <2>2. QED
    BY <2>1 DEF Counted
<1>21. ASSUME NEW r \in Radios, StrayChunk(r) PROVE Counted'
  BY <1>5, <1>21 DEF StrayChunk
<1>22. CASE UNCHANGED vars
  BY <1>22 DEF vars, rx, tx, uhf, edl, c3, Types, Counted
<1>23. QED
  BY <1>1, <1>2, <1>3, <1>4, <1>5, <1>6, <1>7, <1>8, <1>9, <1>10, <1>11, <1>12, <1>13,
     <1>14, <1>15, <1>16, <1>17, <1>18, <1>19, <1>20, <1>21, <1>22
     DEF Next, Receive, Ax5043TX, EdlThd, TxWorker, Beacon, Radios, Threads

(* At first no buffer is out and no number is accepted. *)
LEMMA InitInv == LinkAssumption /\ Init => IInv
<1> SUFFICES ASSUME LinkAssumption, Init PROVE IInv
  OBVIOUS
<1>1. Types
  BY DEF LinkAssumption, Init, Types, Places, Receiving, Radios, Threads
<1>2. BuffersConserved
  BY DEF LinkAssumption, Init, BuffersConserved, One, Receiving, Radios, Threads
<1>3. Duplex
  BY DEF Init, Duplex, HalfDuplex, Receiving, Radios, Threads
<1>4. Counted
  BY DEF LinkAssumption, Init, Counted
<1>5. QED
  BY <1>1, <1>2, <1>3, <1>4 DEF IInv

(* The four parts of the invariant hold together. *)
LEMMA IInvStep == LinkAssumption /\ IInv /\ [Next]_vars => IInv'
<1> SUFFICES ASSUME LinkAssumption, IInv, [Next]_vars PROVE IInv'
  OBVIOUS
<1>1. Types'
  BY TypesStep
<1>2. BuffersConserved'
  BY <1>1, ConservedStep DEF IInv
<1>3. Duplex'
  BY DuplexStep DEF IInv
<1>4. Counted'
  BY CountedStep DEF IInv
<1>5. QED
  BY <1>1, <1>2, <1>3, <1>4 DEF IInv

(* The inductive invariant of the link, for pools of any size: what each    *)
(* thread, worker, pool and FIFO has of the buffers, who may ask the        *)
(* receive worker to end, and how the count bounds what was accepted.       *)
THEOREM LinkInvariant == Spec => []IInv
<1>1. Init => IInv
  BY InitInv, LinkAssumption
<1>2. IInv /\ [Next]_vars => IInv'
  BY IInvStep, LinkAssumption
<1>3. QED
  BY <1>1, <1>2, PTL DEF Spec

(* Every variable keeps its type; that no pool ever holds more buffers than *)
(* it began with follows from their conservation.                           *)
THEOREM LinkTypes == Spec => []TypeOK
<1>1. IInv => TypeOK
  <2> SUFFICES ASSUME IInv PROVE TypeOK
    OBVIOUS
  <2>1. RxSum = RxBufs /\ TxSum = TxBufs
    BY Sums DEF IInv
  <2>2. rxFree <= RxBufs
    BY <2>1, Sums DEF RxSum, IInv
  <2>3. txFree <= TxBufs /\ txMail <= TxBufs
    BY <2>1, Sums DEF TxSum, IInv
  <2>4. rxFree \in 0 .. RxBufs /\ txFree \in 0 .. TxBufs /\ txMail \in 0 .. TxBufs
    BY <2>2, <2>3, LinkAssumption DEF LinkAssumption, IInv, Types
  <2>5. QED
    BY <2>4 DEF IInv, Types, TypeOK
<1>2. QED
  BY <1>1, LinkInvariant, PTL

(* Every frame buffer has one owner, on every path of the receive workers,  *)
(* the EDL thread and the senders.                                          *)
THEOREM LinkConserved == Spec => []BuffersConserved
<1>1. IInv => BuffersConserved
  BY DEF IInv
<1>2. QED
  BY <1>1, LinkInvariant, PTL

(* The UHF radio never transmits while a receive worker reads its FIFO, and *)
(* only the owner of the lock transmits.                                    *)
THEOREM LinkHalfDuplex == Spec => []HalfDuplex
<1>1. IInv => HalfDuplex
  BY DEF IInv, Duplex
<1>2. QED
  BY <1>1, LinkInvariant, PTL

(* As long as the saved count is not lost, no number is accepted twice: for *)
(* any sequence of frames, saves and resets.                                *)
THEOREM LinkAcceptedOnce == Spec => []AcceptedOnce
<1>1. IInv => AcceptedOnce
  BY DEF IInv, Counted, AcceptedOnce
<1>2. QED
  BY <1>1, LinkInvariant, PTL

(* Chasing whoever waits for whom ends at somebody who can go on. *)

(* A thread at the lock, the join or the transmission: the owner of the    *)
(* lock goes on, or the receive worker it joins waits for a buffer.        *)
LEMMA SenderGoesOn ==
  ASSUME IInv, ~ Leaked, NEW t \in Threads, at[t] \in {"lock", "join", "send"}
  PROVE  GoesOn \/ (asked /\ worker["uhf"] = "alloc")
<1>1. CASE at[t] = "send" \/ (at[t] = "lock" /\ lock = "none")
  BY <1>1 DEF GoesOn
<1>2. CASE at[t] = "join" \/ (at[t] = "lock" /\ lock # "none")
  <2>1. PICK u \in Threads : at[u] \in {"join", "send"}
    BY <1>2 DEF Leaked, IInv, Types
  <2>2. CASE at[u] = "send" \/ Joined
    BY <2>1, <2>2 DEF GoesOn
  <2>3. CASE at[u] = "join" /\ ~ Joined
    <3>1. asked
      BY <2>3 DEF Joined, IInv, Duplex, HalfDuplex
    <3>2. worker["uhf"] \in Interruptible \cup {"alloc"}
      BY <2>3 DEF Joined, Interruptible, IInv, Types, Radios
    <3>3. QED
      BY <3>1, <3>2 DEF GoesOn
  <2>4. QED
    BY <2>1, <2>2, <2>3
<1>3. QED
  BY <1>1, <1>2

(* Nobody goes on and a worker waits for a buffer: the EDL thread has one, *)
(* and waits for a transmission, or the buffers for transmission are gone. *)
LEMMA StarvedWorker ==
  ASSUME IInv, RxBufs > 1, ~ Leaked, ~ GoesOn, NEW r \in Radios, worker[r] = "alloc"
  PROVE  /\ rxFree = 0
         /\ at["edl"] \in {"lock", "join"} \/ (at["edl"] = "alloc" /\ txFree = 0)
<1>1. rxFree = 0
  BY DEF GoesOn, IInv, Types
<1>2. HaveL + HaveU <= 1
  BY DEF HaveL, HaveU, One, Radios
<1>3. rxMail # <<>> \/ at["edl"] # "idle"
  <2>1. SUFFICES ASSUME rxMail = <<>>, at["edl"] = "idle" PROVE FALSE
    OBVIOUS
  <2>2. Len(rxMail) = 0 /\ HasE = 0
    BY <2>1 DEF HasE, One
  <2>3. RxSum = RxBufs /\ RxBufs \in Nat
    BY Sums, LinkAssumption DEF IInv, LinkAssumption
  <2>4. QED
    BY <1>1, <1>2, <2>2, <2>3, Sums DEF RxSum, IInv
<1>4. at["edl"] \notin {"idle", "work", "send"}
  BY <1>3 DEF GoesOn, Threads
<1>5. at["edl"] = "alloc" => txFree = 0
  BY DEF GoesOn, IInv, Types, Threads
<1>6. QED
  BY <1>1, <1>4, <1>5 DEF IInv, Types, Places

(* A thread that waits for a buffer for transmission waits for one that is *)
(* queued or with a thread that transmits.                                 *)
LEMMA StarvedSender ==
  ASSUME IInv, ~ GoesOn, NEW t \in Threads, at[t] = "alloc"
  PROVE  \E u \in Threads : at[u] \in {"lock", "join", "send"}
<1>1. txFree = 0
  BY DEF GoesOn, IInv, Types
<1>2. TxSum = TxBufs /\ TxBufs > 0
  BY Sums, LinkAssumption DEF IInv, LinkAssumption
<1>3. txMail > 0 \/ SendsE = 1 \/ SendsT = 1 \/ SendsB = 1
  BY <1>1, <1>2, Sums DEF TxSum, IInv
<1>4. at["edl"] # "work"
  BY DEF GoesOn
<1>5. txMail > 0 => at["tx"] # "idle"
  BY DEF GoesOn
<1>6. QED
  BY <1>3, <1>4, <1>5 DEF SendsE, SendsT, SendsB, One, IInv, Types, Places, Threads

(* With two frame buffers or more for reception nobody waits for ever but  *)
(* for the two known reasons: there is no other cycle of threads, workers, *)
(* pools, FIFOs and the lock, for pools of any size.                       *)
THEOREM LinkNoOtherDeadlock == ASSUME RxBufs > 1 PROVE Spec => []NoOtherDeadlock
<1>1. IInv => NoOtherDeadlock
  <2>1. SUFFICES ASSUME IInv, ~ Leaked, ~ Cycle, Waiting, ~ GoesOn PROVE FALSE
    BY DEF NoOtherDeadlock, Stuck
  <2>2. ASSUME NEW t \in Threads, at[t] \in {"lock", "join", "send"} PROVE FALSE
    <3>1. asked /\ worker["uhf"] = "alloc"
      BY <2>1, <2>2, SenderGoesOn
    <3>2. /\ rxFree = 0
          /\ at["edl"] \in {"lock", "join"} \/ (at["edl"] = "alloc" /\ txFree = 0)
      BY <2>1, <3>1, StarvedWorker DEF Radios
    <3>3. QED
      BY <2>1, <3>1, <3>2 DEF Cycle
  <2>3. ASSUME NEW t \in Threads, at[t] = "alloc" PROVE FALSE
    BY <2>1, <2>2, <2>3, StarvedSender
  <2>4. ASSUME NEW r \in Radios, worker[r] = "alloc" PROVE FALSE
    <3>1. at["edl"] \in {"lock", "join", "alloc"} /\ "edl" \in Threads
      BY <2>1, <2>4, StarvedWorker DEF Threads
    <3>2. QED
      BY <2>2, <2>3, <3>1
  <2>5. at["edl"] # "work"
    BY <2>1 DEF GoesOn
  <2>6. QED
    BY <2>1, <2>2, <2>3, <2>4, <2>5 DEF Waiting, IInv, Types, Places, Threads
<1>2. QED
  BY <1>1, LinkInvariant, PTL

----------------------------------------------------------------------------
(* Past PREDEPLOY a count that FRAM does not have yet is one c3 has been   *)
(* told of, or will be when the EDL thread is done with the frame.         *)
CountOnItsWay == saved # count => mode = "predeploy" \/ told \/ at["edl"] # "idle"

(* The thread that stays in its place, and in what it has told c3.         *)
LEMMA CountStays ==
  ASSUME CountOnItsWay, UNCHANGED <<saved, count, told, mode>>,
         at["edl"] # "idle" => at'["edl"] # "idle"
  PROVE  CountOnItsWay'
BY DEF CountOnItsWay

(* A thread returns from ax5043TX: only the EDL thread has to tell c3.     *)
LEMMA CountReturns ==
  ASSUME Types, CountOnItsWay, NEW t \in Threads, Return(t)
  PROVE  CountOnItsWay'
<1>1. saved' = saved /\ count' = count /\ mode' = mode
  BY DEF Return, c3
<1>2. CASE t = "edl"
  BY <1>1, <1>2 DEF Return, ToldC3, CountOnItsWay
<1>3. CASE t # "edl"
  BY <1>1, <1>3, CountStays DEF Return, Place, Types, Threads
<1>4. QED
  BY <1>2, <1>3

LEMMA CountOnItsWayStep ==
  ASSUME LinkAssumption, Types, CountOnItsWay, [Next]_vars
  PROVE  CountOnItsWay'
<1>1. ASSUME NEW t \in Threads, TransmitFails(t) \/ Sent(t) PROVE CountOnItsWay'
  BY <1>1, CountReturns DEF TransmitFails, Sent
<1>2. CASE EdlReply
  BY <1>2 DEF EdlReply, ToldC3, c3, CountOnItsWay
<1>3. CASE Save \/ EdlEvent \/ NextMode
  BY <1>3 DEF Save, EdlEvent, NextMode, Store, edl, CountOnItsWay
<1>4. CASE Reset
  BY <1>4 DEF Reset, CountOnItsWay
<1>5. CASE EdlAccept
  BY <1>5 DEF EdlAccept, Place, Types, Threads, CountOnItsWay
<1>6. ASSUME NEW t \in Threads, Lock(t) \/ Transmit(t) PROVE CountOnItsWay'
  BY <1>6, CountStays DEF Lock, Transmit, Place, edl, c3, Types, Threads
<1>7. CASE EdlAlloc \/ TxReceive \/ BeaconOn \/ BeaconOff \/ BeaconWake \/ BeaconAlloc
  BY <1>7, CountStays DEF EdlAlloc, TxReceive, BeaconOn, BeaconOff, BeaconWake, Ends,
     BeaconAlloc, Place, edl, c3, Types, Threads
<1>8. CASE (\E r \in Radios : Receive(r)) \/ WorkerExit \/ EdlReject \/ UNCHANGED vars
  BY <1>4, <1>8, CountStays DEF Receive, PacketStart, TakeBuffer, PacketEnd, Overflow,
     StrayChunk, WorkerExit, EdlReject, Work, edl, c3, vars
<1>9. QED
  BY <1>1, <1>2, <1>3, <1>4, <1>5, <1>6, <1>7, <1>8 DEF Next, Ax5043TX, EdlThd, TxWorker,
     Beacon, Threads

(* No event of a frame gets lost past PREDEPLOY, where c3StateSave saves   *)
(* nothing and edl_enable does not tell c3: when c3 has no EDL event       *)
(* pending and the EDL thread has no frame, the count in FRAM is the one   *)
(* in RAM.  That holds also of a frame accepted in PREDEPLOY or DEPLOY and *)
(* finished in a later mode.                                               *)
THEOREM LinkCountOnItsWay == Spec => []CountOnItsWay
<1>1. Init => CountOnItsWay
  BY DEF Init, CountOnItsWay
<1>2. IInv /\ CountOnItsWay /\ [Next]_vars => CountOnItsWay'
  BY CountOnItsWayStep, LinkAssumption DEF IInv
<1>3. QED
  BY <1>1, <1>2, LinkInvariant, PTL DEF Spec
==============================================================================
