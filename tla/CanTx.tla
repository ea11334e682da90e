------------------------------- MODULE CanTx -------------------------------
(***************************************************************************)
(* The CAN transmit path of common/CO_driver.c: threads hand frames to     *)
(* CO_CANsend, a frame either goes to a free hardware mailbox at once or   *)
(* is left in its own transmit buffer, and the transmit-complete interrupt *)
(* drains the buffers.  CANtxCount is the driver's belief of how many      *)
(* buffers wait; it is a uint16_t, and nothing but the interrupt looks at  *)
(* the buffers once it is not zero.                                        *)
(*                                                                         *)
(* Left out: the contents of frames and the status word CANerrorStatus     *)
(* with firstCANtxMessage, which only reports.                             *)
(***************************************************************************)
EXTENDS Integers, FiniteSets

CONSTANTS
  TxSize,     \* number of transmit buffers, CANmodule->txSize
  Sync,       \* the buffers of synchronous PDOs, those with syncFlag set
  Reinit,     \* the buffers CO_CANtxBufferInit is called on at run time
  Mailboxes,  \* number of hardware mailboxes
  CountMod,   \* 2^(width of CANtxCount): 2^16 in the code
  Backlog     \* BOUND: frames queued while CANtxCount never returns to zero

Buffers == 1 .. TxSize

ASSUME CanTxAssumption ==
  /\ TxSize \in Nat \ {0}
  /\ Sync \subseteq Buffers
  /\ Reinit \subseteq Buffers
  /\ Mailboxes \in Nat \ {0}
  /\ CountMod \in Nat \ {0}
  /\ Backlog \in Nat \ {0}

VARIABLES
  full,     \* buffers with bufferFull set
  count,    \* CANtxCount
  busy,     \* hardware mailboxes holding a frame not yet on the bus
  irq,      \* a mailbox completed and CO_CANtx_cb has not run yet
  inhibit   \* bufferInhibitFlag

vars == <<full, count, busy, irq, inhibit>>

Init ==
  /\ full = {}
  /\ count = 0
  /\ busy = 0
  /\ irq = FALSE
  /\ inhibit = FALSE

----------------------------------------------------------------------------
(* Threads.  CO_LOCK_CAN_SEND is chSysLock: the interrupt waits for the    *)
(* end of the section and then runs before any thread starts another one,  *)
(* hence the guard ~irq.  Mailboxes may complete while a section runs      *)
(* ("done" of them); the section then finds them free.                     *)

(* A definition called a variant is a plausible mistake in the one after   *)
(* it; nothing uses it but the mutants in PROJECT.json.                    *)
MustQueueIfCounted(done) == count > 0                 \* variant
MustQueueIfFull(done) == busy - done = Mailboxes      \* variant
MustQueueAlways(done) == TRUE                         \* variant

(* A frame waits for the interrupt when others wait already, or when       *)
(* canTryTransmitI finds no free mailbox.                                  *)
MustQueue(done) == count > 0 \/ busy - done = Mailboxes

CountUnlessFull == IF full = {} THEN count + 1 ELSE count   \* variant

(* CANtxCount++ on a uint16_t, whether or not the buffer was full already. *)
CountQueued == (count + 1) % CountMod

(* CO_CANsend. *)
Send(b) ==
  /\ ~irq
  /\ \E done \in 0 .. busy :
       /\ irq' = (done > 0)
       /\ \/ /\ ~MustQueue(done)
             /\ busy' = busy - done + 1
             /\ inhibit' = (b \in Sync)
             /\ UNCHANGED <<full, count>>
          \/ /\ MustQueue(done)
             /\ count < Backlog
             /\ full' = full \cup {b}
             /\ count' = CountQueued
             /\ busy' = busy - done
             /\ UNCHANGED inhibit

(* CO_CANclearPendingSyncPDOs: the queued synchronous frames are dropped.  *)
ClearPendingSyncPDOs ==
  /\ ~irq
  /\ inhibit' = FALSE
  /\ IF count # 0
     THEN /\ full' = full \ Sync
          /\ count' = (count - Cardinality(full \cap Sync)) % CountMod
     ELSE UNCHANGED <<full, count>>
  /\ UNCHANGED <<busy, irq>>

(* CO_CANtxBufferInit at run time (an SDO client setting up a transfer):   *)
(* the buffer is emptied, the count is not told.                           *)
TxBufferInit(b) ==
  /\ ~irq
  /\ full' = full \ {b}
  /\ UNCHANGED <<count, busy, irq, inhibit>>

----------------------------------------------------------------------------
(* Hardware: a mailbox gets its frame on the bus and raises the interrupt. *)
MailboxDone ==
  /\ busy > 0
  /\ busy' = busy - 1
  /\ irq' = TRUE
  /\ UNCHANGED <<full, count, inhibit>>

CountKept == count   \* variant

(* CANtxCount once the interrupt has searched and found no full buffer. *)
CountNoneFound == 0

(* CO_CANtx_cb: the first full buffer takes a mailbox; the result of       *)
(* canTryTransmitI is not looked at, so a refused frame would be lost.     *)
TxIsr ==
  /\ irq
  /\ irq' = FALSE
  /\ \/ /\ count = 0
        /\ inhibit' = FALSE
        /\ UNCHANGED <<full, count, busy>>
     \/ /\ count > 0
        /\ \E b \in full :
             /\ \A c \in full : b <= c
             /\ full' = full \ {b}
             /\ count' = count - 1
             /\ inhibit' = (b \in Sync)
             /\ busy' = IF busy < Mailboxes THEN busy + 1 ELSE busy
     \/ /\ count > 0 /\ full = {}
        /\ inhibit' = FALSE
        /\ count' = CountNoneFound
        /\ UNCHANGED <<full, busy>>

Next ==
  \/ \E b \in Buffers : Send(b)
  \/ ClearPendingSyncPDOs
  \/ \E b \in Reinit : TxBufferInit(b)
  \/ MailboxDone
  \/ TxIsr

(* Other nodes acknowledge frames, and a pending interrupt is served.      *)
Fairness == WF_vars(MailboxDone) /\ WF_vars(TxIsr)

Spec == Init /\ [][Next]_vars /\ Fairness

----------------------------------------------------------------------------
TypeOK ==
  /\ full \subseteq Buffers
  /\ count \in 0 .. CountMod - 1
  /\ busy \in 0 .. Mailboxes
  /\ irq \in BOOLEAN
  /\ inhibit \in BOOLEAN

(* CANtxCount never understates the full buffers: the interrupt stops      *)
(* looking at buffers when the count is zero, so a full buffer that is not *)
(* counted is a frame nobody sends.                                        *)
CountCoversFull == Cardinality(full) <= count

(* While the count is not zero, CO_CANsend touches no mailbox and only an  *)
(* interrupt can move a frame: one must be on its way, or transmission     *)
(* stops for good.                                                         *)
NoStall == count > 0 => busy > 0 \/ irq

(* When the interrupt takes a frame from its buffer a mailbox is free, so  *)
(* the canTryTransmitI whose result CO_CANtx_cb ignores cannot refuse it.  *)
NoFrameLostInIsr == irq /\ count > 0 => busy < Mailboxes

(* If from some time on nobody sends, every queued frame leaves by the     *)
(* interrupt and the driver returns to direct transmission.                *)
Drains ==
  <>[][~\E b \in Buffers : Send(b)]_vars => <>[](full = {} /\ count = 0)
============================================================================
